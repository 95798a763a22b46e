------------------------ MODULE SnapshotFetch_proofs ------------------------
(* For any captures, index answers and failures: what a fetch leaves on     *)
(* disk, which captures it goes through, when it gives a file up, and what  *)
(* the hunt for a usable page may overlook. Of the loops of a fetch only    *)
(* the steps that change the capture, the answer or the disk matter.        *)
EXTENDS MCSnapshotFetch, WaybackClient_proofs, TLAPS

(* Until a fetch has ended the destination is the old file, and a temporary *)
(* file exists only while a body arrives.                                   *)
DiskInv ==
  /\ outcome = "none" <=> pc # "done"
  /\ temp => pc = "reading"
  /\ pc = "reading" => nature[current] # "missing"
  /\ temp \in BOOLEAN
  /\ DestinationIsWhole

(* The capture a fetch has come to, and what the cap demands of it.         *)
CaptureInv ==
  /\ current \in Captures
  /\ current = Selected \/ Eligible(current)
  /\ mode = "limited" /\ outcome = "saved" => nature[current] # "large"

(* Captures that were asked for were selected or switched to before.        *)
AskedInv == current \in seen /\ asked \subseteq seen

IInv == DiskInv /\ CaptureInv /\ AskedInv

LEMMA InitEstablishes == MCInit => IInv
<1> SUFFICES ASSUME MCInit PROVE IInv
  OBVIOUS
<1>1. DiskInv
  BY DEF MCInit, Init, DiskInv, DestinationIsWhole
<1>2. CaptureInv
  BY CapturesAssumption DEF MCInit, Init, CaptureInv
<1>3. AskedInv
  BY DEF MCInit, Init, AskedInv
<1> QED
  BY <1>1, <1>2, <1>3 DEF IInv

(* A fetch changes its capture only to one that the index lists, the cap    *)
(* allows and it has not come to before (switch_to_alternate_snapshot).     *)
NewCapture(next) ==
  /\ pc = "looking up"
  /\ next \in Captures /\ next \notin seen /\ Eligible(next)
  /\ SwitchTo(next)

LEMMA ItemOfSeq == ASSUME NEW S, NEW s \in Seq(S), NEW i \in DOMAIN s PROVE s[i] \in S
OBVIOUS

LEMMA OpenIsNew ==
  ASSUME current \in Captures,
         NEW i \in First(OpenTargets), NEW j \in First(Candidates(Targets[current][i])),
         SwitchTo(Listing[Targets[current][i]][j]), pc = "looking up"
  PROVE  NewCapture(Listing[Targets[current][i]][j])
<1> DEFINE target == Targets[current][i]
<1>1. i \in DOMAIN Targets[current] /\ j \in Candidates(target)
  BY DEF First, OpenTargets
<1>2. j \in DOMAIN Listing[target] /\ Listing[target][j] \notin seen /\ Eligible(Listing[target][j])
  BY <1>1 DEF Candidates
<1> HIDE DEF target
<1>3. target \in DOMAIN Listing
  <2>1. Targets[current] \in Seq(DOMAIN Listing)
    BY IndexAssumption
  <2> QED
    BY <1>1, <2>1, ItemOfSeq DEF target
<1>4. Listing[target][j] \in Captures
  <2>1. Listing[target] \in Seq(Captures)
    BY <1>3, IndexAssumption
  <2> QED
    BY <1>2, <2>1, ItemOfSeq
<1> QED
  BY <1>2, <1>4 DEF NewCapture, target

LEMMA LookupGivesNewCapture ==
  ASSUME current \in Captures, LookupAnswers
  PROVE  UNCHANGED <<current, seen>> \/ \E next : NewCapture(next)
<1>1. CASE cancelled \/ OpenTargets = {}
  BY <1>1 DEF LookupAnswers, NoAlternate, Finish, RetryIn
<1>2. CASE ~ (cancelled \/ OpenTargets = {})
  BY <1>2, OpenIsNew DEF LookupAnswers
<1> QED
  BY <1>1, <1>2

LEMMA StepKeepsCapture ==
  ASSUME current \in Captures, Next
  PROVE  UNCHANGED <<current, seen>> \/ \E next : NewCapture(next)
<1>1. CASE Served \/ DeclaredTooLarge \/ Missing \/ Rejected \/ BodyArrives \/ BodyTooLarge
           \/ BodyFails \/ WriteFails
  BY <1>1 DEF Served, DeclaredTooLarge, Missing, Rejected, BodyArrives, BodyTooLarge, BodyFails,
              WriteFails, Finish, LookForAlternate, TrySwitching
<1>2. ASSUME NEW why, RetryableStatus(why) \/ Unreached(why) PROVE UNCHANGED <<current, seen>>
  BY <1>2 DEF RetryableStatus, Unreached, TrySwitching, RetryIn
<1>3. CASE LookupAnswers
  BY <1>3, LookupGivesNewCapture
<1>4. CASE LookupFails \/ SwitchAnswered
  BY <1>4 DEF LookupFails, SwitchAnswered, Finish, RetryIn, LookForAlternate
<1>5. CASE RouteSearch \/ WakeUp \/ InterruptSleep \/ LookupSwitchesRoute \/ Tick \/ Cancel
  BY <1>5 DEF RouteSearch, WakeUp, InterruptSleep, LookupSwitchesRoute, Tick, Cancel, Finish, fetchVars
<1> QED
  BY <1>1, <1>2, <1>3, <1>4, <1>5 DEF Next, Steady, Answer, Program

LEMMA FetchKeepsAsked ==
  ASSUME CaptureInv, AskedInv, FetchNext
  PROVE  AskedInv'
<1>1. asked' \subseteq seen
  BY DEF FetchNext, AskedInv
<1>2. UNCHANGED <<current, seen>> \/ \E next : NewCapture(next)
  BY StepKeepsCapture DEF FetchNext, CaptureInv
<1>3. current' \in seen' /\ seen \subseteq seen'
  BY <1>2 DEF AskedInv, NewCapture, SwitchTo
<1> QED
  BY <1>1, <1>3 DEF AskedInv

-----------------------------------------------------------------------------
(* Nothing is saved by a step, and no body arrives after it.                *)
NothingSaved ==
  /\ dest' = dest /\ temp' = FALSE /\ pc' # "reading"
  /\ outcome' \notin {"saved"}
  /\ outcome' = "none" <=> pc' # "done"

LEMMA NothingSavedKeepsDisk ==
  ASSUME DiskInv, outcome = "none", NothingSaved PROVE DiskInv'
BY DEF DiskInv, DestinationIsWhole, NothingSaved

LEMMA RetriesSaveNothing ==
  ASSUME outcome = "none", dest' = dest, temp' = FALSE,
         \/ \E delay : RetryIn(delay)
         \/ \E why : LookForAlternate(why) \/ TrySwitching(why)
         \/ \E how \in {"failed", "too large", "unavailable", "interrupted"} : Finish(how)
         \/ \E next : SwitchTo(next)
  PROVE  NothingSaved
BY DEF NothingSaved, RetryIn, LookForAlternate, TrySwitching, Finish, SwitchTo

LEMMA StepKeepsDisk ==
  ASSUME DiskInv, Next PROVE DiskInv'
<1>1. CASE Steady(Served)
  BY <1>1 DEF Steady, Served, DiskInv, DestinationIsWhole
<1>2. CASE Steady(BodyArrives)
  <2>1. /\ pc' = "done" /\ outcome' = "saved" /\ temp' = FALSE /\ current' = current
        /\ mode' = mode /\ nature' = nature
        /\ dest' = IF mode = "buffered" THEN dest ELSE SavedFrom(current)
    BY <1>2 DEF Steady, BodyArrives, Finish
  <2>2. nature[current] \notin {"missing", "broken"} /\ dest = Old
    BY <1>2 DEF Steady, BodyArrives, DiskInv, DestinationIsWhole
  <2>3. SavedFrom(current)' = SavedFrom(current)
    BY <2>1 DEF SavedFrom
  <2> QED
    BY <2>1, <2>2, <2>3 DEF DiskInv, DestinationIsWhole
<1>3. CASE DeclaredTooLarge \/ Missing \/ Rejected
  <2>1. outcome = "none" /\ temp = FALSE
    BY <1>3 DEF DeclaredTooLarge, Missing, Rejected, DiskInv
  <2> QED
    BY <1>3, <2>1, RetriesSaveNothing, NothingSavedKeepsDisk DEF DeclaredTooLarge, Missing, Rejected
<1>4. ASSUME NEW why, RetryableStatus(why) \/ Unreached(why) PROVE DiskInv'
  <2>1. outcome = "none" /\ temp = FALSE
    BY <1>4 DEF RetryableStatus, Unreached, DiskInv
  <2> QED
    BY <1>4, <2>1, RetriesSaveNothing, NothingSavedKeepsDisk DEF RetryableStatus, Unreached
<1>5. CASE BodyTooLarge \/ BodyFails \/ WriteFails
  <2>1. outcome = "none"
    BY <1>5 DEF BodyTooLarge, BodyFails, WriteFails, DiskInv
  <2> QED
    BY <1>5, <2>1, RetriesSaveNothing, NothingSavedKeepsDisk DEF BodyTooLarge, BodyFails, WriteFails
<1>6. CASE LookupAnswers \/ LookupFails
  <2>1. outcome = "none" /\ temp = FALSE
    BY <1>6 DEF LookupAnswers, LookupFails, DiskInv
  <2> QED
    BY <1>6, <2>1, RetriesSaveNothing, NothingSavedKeepsDisk DEF LookupAnswers, LookupFails, NoAlternate
<1>7. CASE SwitchAnswered
  <2>1. outcome = "none" /\ temp = FALSE
    BY <1>7 DEF SwitchAnswered, DiskInv
  <2>2. CASE switched
    BY <1>7, <2>1, <2>2, NothingSavedKeepsDisk DEF SwitchAnswered, NothingSaved
  <2>3. CASE ~ switched
    BY <1>7, <2>1, <2>3, RetriesSaveNothing, NothingSavedKeepsDisk DEF SwitchAnswered
  <2> QED
    BY <2>2, <2>3
<1>8. CASE WakeUp \/ InterruptSleep
  <2>1. outcome = "none" /\ temp = FALSE
    BY <1>8 DEF WakeUp, InterruptSleep, DiskInv
  <2>2. CASE WakeUp
    BY <2>1, <2>2, NothingSavedKeepsDisk DEF WakeUp, NothingSaved
  <2>3. CASE InterruptSleep
    BY <2>1, <2>3, RetriesSaveNothing, NothingSavedKeepsDisk DEF InterruptSleep
  <2> QED
    BY <1>8, <2>2, <2>3
<1>9. CASE Steady(RouteSearch) \/ Steady(LookupSwitchesRoute) \/ Steady(Tick) \/ Cancel
  <2>1. UNCHANGED <<pc, current, outcome, dest, temp, mode, nature>>
    BY <1>9 DEF Steady, RouteSearch, LookupSwitchesRoute, Tick, Cancel, fetchVars
  <2> QED
    BY <2>1 DEF DiskInv, DestinationIsWhole, SavedFrom
<1> QED
  BY <1>1, <1>2, <1>3, <1>4, <1>5, <1>6, <1>7, <1>8, <1>9 DEF Next, Steady, Answer, Program

-----------------------------------------------------------------------------
LEMMA OnlyWholeBodiesAreSaved ==
  ASSUME DiskInv, Next, outcome' = "saved"
  PROVE  BodyArrives \/ outcome = "saved"
<1>1. CASE Served \/ DeclaredTooLarge \/ Missing \/ Rejected \/ BodyTooLarge \/ BodyFails \/ WriteFails
  BY <1>1 DEF Served, DeclaredTooLarge, Missing, Rejected, BodyTooLarge, BodyFails, WriteFails,
              Finish, LookForAlternate, TrySwitching
<1>2. ASSUME NEW why, RetryableStatus(why) \/ Unreached(why) PROVE outcome = "saved"
  BY <1>2 DEF RetryableStatus, Unreached, TrySwitching, RetryIn
<1>3. CASE LookupAnswers
  BY <1>3 DEF LookupAnswers, NoAlternate, Finish, RetryIn, SwitchTo
<1>4. CASE LookupFails \/ SwitchAnswered
  BY <1>4 DEF LookupFails, SwitchAnswered, Finish, RetryIn, LookForAlternate
<1>5. CASE RouteSearch \/ WakeUp \/ InterruptSleep \/ LookupSwitchesRoute \/ Tick \/ Cancel
  BY <1>5 DEF RouteSearch, WakeUp, InterruptSleep, LookupSwitchesRoute, Tick, Cancel, Finish, fetchVars
<1> QED
  BY <1>1, <1>2, <1>3, <1>4, <1>5 DEF Next, Steady, Answer, Program

LEMMA StepKeepsCaptureInv ==
  ASSUME DiskInv, CaptureInv, Next PROVE CaptureInv'
<1>1. mode' = mode /\ nature' = nature
  BY DEF Next, Steady, Cancel
<1>2. CASE \E next : NewCapture(next)
  <2>1. PICK next : NewCapture(next)
    BY <1>2
  <2>2. outcome' = "none" /\ current' = next
    BY <2>1 DEF NewCapture, SwitchTo, DiskInv
  <2> QED
    BY <1>1, <2>1, <2>2 DEF CaptureInv, NewCapture, Eligible
<1>3. CASE UNCHANGED current
  <2>1. ASSUME mode = "limited", outcome' = "saved" PROVE nature[current] # "large"
    BY <2>1, OnlyWholeBodiesAreSaved DEF CaptureInv, BodyArrives
  <2> QED
    BY <1>1, <1>3, <2>1 DEF CaptureInv, Eligible
<1> QED
  BY <1>2, <1>3, StepKeepsCapture DEF CaptureInv

LEMMA NextPreserves == IInv /\ [MCNext]_mcVars => IInv'
<1> SUFFICES ASSUME IInv, [MCNext]_mcVars PROVE IInv'
  OBVIOUS
<1>1. CASE FetchNext
  BY <1>1, StepKeepsDisk, StepKeepsCaptureInv, FetchKeepsAsked DEF FetchNext, IInv
<1>2. CASE ~ FetchNext
  <2>1. UNCHANGED <<fetchVars, mode, nature, asked>>
    BY <1>2 DEF MCNext, HuntNext, CancelHunt, mcVars, usableVars, vars
  <2> QED
    BY <2>1 DEF fetchVars, IInv, DiskInv, DestinationIsWhole, CaptureInv, Eligible, AskedInv, SavedFrom
<1> QED
  BY <1>1, <1>2

(* Whatever fails on the way, the destination is the file that was there or *)
(* the whole body of one capture, and no temporary file is left             *)
(* (stream_response_to_file, stream_response_to_file_limited).              *)
THEOREM OnlyWholeFilesAreSaved == MCSpec => []DestinationIsWhole
<1>1. IInv => DestinationIsWhole
  BY DEF IInv, DiskInv
<1> QED
  BY <1>1, InitEstablishes, NextPreserves, PTL DEF MCSpec

(* No capture above the cap is saved, however many captures the fetch goes  *)
(* through (extra_download_record_fits_limit, BodySizeExceeded).            *)
THEOREM CapAlwaysHolds == MCSpec => []CapHolds
<1>1. IInv => CapHolds
  <2> SUFFICES ASSUME IInv, mode = "limited", dest # Old
               PROVE  nature[dest.of] # "large" /\ (dest.of = Selected \/ dest.of \notin Oversized)
    BY DEF CapHolds
  <2>1. outcome = "saved" /\ dest = SavedFrom(current)
    BY DEF IInv, DiskInv, DestinationIsWhole
  <2>2. dest.of = current
    BY <2>1 DEF SavedFrom
  <2> QED
    BY <2>1, <2>2 DEF IInv, CaptureInv, Eligible
<1> QED
  BY <1>1, InitEstablishes, NextPreserves, PTL DEF MCSpec

(* A fetch never returns to a capture it has asked for, for any number of   *)
(* captures listed under any number of overlapping URLs (seen_records).     *)
THEOREM CapturesAreTriedOnce == MCSpec => NoCaptureTwice
<1>1. IInv /\ [MCNext]_mcVars => [current' # current => current' \notin asked]_mcVars
  <2> SUFFICES ASSUME IInv, FetchNext, current' # current PROVE current' \notin asked
    BY DEF MCNext, HuntNext, CancelHunt, vars, fetchVars
  <2>1. PICK next : NewCapture(next)
    BY StepKeepsCapture DEF FetchNext, IInv, CaptureInv
  <2> QED
    BY <2>1 DEF NewCapture, SwitchTo, IInv, AskedInv
<1> QED
  BY <1>1, InitEstablishes, NextPreserves, PTL DEF MCSpec, NoCaptureTwice

-----------------------------------------------------------------------------
(* The hunt for a usable page has still to come to a capture.               *)
StillToCome(c) ==
  \/ \E i \in DOMAIN hunt.queue : hunt.queue[i] = c
  \/ \E i \in DOMAIN hunt.targets : \E j \in DOMAIN Listing[hunt.targets[i]] :
       Listing[hunt.targets[i]][j] = c

SameBodies ==
  \A c, d \in Captures :
    /\ Digest[c] = Digest[d] /\ Digest[c] # NoDigest
    /\ nature[c] \in ServedNatures /\ nature[d] \in ServedNatures
    => nature[c] = nature[d]

(* Only bodies that were seen and are not usable are remembered.            *)
UselessDigests(digests) ==
  \A g \in digests : \E e \in Captures :
    Digest[e] = g /\ g # NoDigest /\ nature[e] \in ServedNatures \ {"good"}

(* No usable capture is given up but for the failure of its own fetch.      *)
NoneForgotten ==
  \A c \in ListedFor(current) \cap Inspected :
    nature[c] = "good" => c \in lost \/ StillToCome(c)

HuntInv ==
  /\ SameBodies
  /\ hunt = Hunt(hunt.phase, hunt.targets, hunt.queue, hunt.digests, hunt.kept)
  /\ hunt.phase # "off" => pc = "done"
  /\ hunt.phase = "hunting" =>
       /\ ErrorPage(current)
       /\ hunt.queue \in Seq(Captures)
       /\ hunt.targets \in Seq(DOMAIN Listing)
       /\ UselessDigests(hunt.digests)
       /\ NoneForgotten
  /\ UsableIsFound

LEMMA HuntInitial == MCInit => HuntInv
BY DEF MCInit, HuntInit, HuntInv, SameBodies, UsableIsFound, Hunt

LEMMA DoneIsOver == Next => pc # "done"
<1> SUFFICES ASSUME Next PROVE pc # "done"
  OBVIOUS
<1>1. CASE Answer
  BY <1>1 DEF Answer, Served, DeclaredTooLarge, Missing, RetryableStatus, Unreached, Rejected,
              BodyArrives, BodyTooLarge, BodyFails, WriteFails, LookupAnswers, LookupFails
<1>2. CASE Program \/ LookupSwitchesRoute \/ Tick \/ Cancel
  BY <1>2 DEF Program, RouteSearch, SwitchAnswered, WakeUp, InterruptSleep, LookupSwitchesRoute,
              Tick, Cancel
<1> QED
  BY <1>1, <1>2 DEF Next, Steady

LEMMA FetchKeepsHunt == HuntInv /\ FetchNext => HuntInv'
<1> SUFFICES ASSUME HuntInv, FetchNext PROVE HuntInv'
  OBVIOUS
<1>1. hunt' = hunt /\ nature' = nature /\ hunt.phase = "off"
  BY DoneIsOver DEF FetchNext, Next, Steady, Cancel, HuntInv
<1> QED
  BY <1>1 DEF HuntInv, SameBodies, UsableIsFound, Hunt

(* The next candidate leaves the queue, and no usable one goes unnoticed.   *)
LEMMA CandidateLeaves ==
  ASSUME HuntInv, Hunting, hunt.queue # <<>>, UNCHANGED vars,
         hunt'.queue = Tail(hunt.queue), hunt'.targets = hunt.targets,
         \A c \in Captures : c \in lost => c \in lost',
         Candidate \in Inspected /\ nature[Candidate] = "good" => Candidate \in lost'
  PROVE  NoneForgotten' /\ hunt'.queue \in Seq(Captures)
<1>1. hunt.queue \in Seq(Captures) /\ NoneForgotten
  BY DEF HuntInv, Hunting
<1>2. hunt'.queue \in Seq(Captures)
  BY <1>1
<1>3. ASSUME NEW c \in ListedFor(current) \cap Inspected, nature[c] = "good"
      PROVE  c \in lost' \/ StillToCome(c)'
  <2>1. c \in Captures
    BY DigestAssumption
  <2>2. c \in lost \/ StillToCome(c)
    BY <1>1, <1>3 DEF NoneForgotten
  <2>3. CASE c \in lost
    BY <2>1, <2>3
  <2>4. ASSUME NEW i \in DOMAIN hunt.queue, hunt.queue[i] = c PROVE c \in lost' \/ StillToCome(c)'
    <3>1. CASE i = 1
      BY <1>1, <1>3, <2>4, <3>1 DEF Candidate
    <3>2. CASE i # 1
      <4>1. i - 1 \in DOMAIN Tail(hunt.queue) /\ Tail(hunt.queue)[i - 1] = c
        BY <1>1, <2>4, <3>2
      <4> QED
        BY <4>1 DEF StillToCome
    <3> QED
      BY <3>1, <3>2
  <2> QED
    BY <2>2, <2>3, <2>4 DEF StillToCome
<1>4. UNCHANGED <<current, nature>>
  BY DEF vars, fetchVars
<1> QED
  BY <1>2, <1>3, <1>4 DEF NoneForgotten, ListedFor

LEMMA OverKeeps ==
  ASSUME HuntInv, pc = "done", UNCHANGED vars, NEW kept, Over(kept),
         \/ ~ ErrorPage(kept)
         \/ cancelled
         \/ \A c \in ListedFor(current) \cap Inspected : nature[c] = "good" => c \in lost'
  PROVE  HuntInv'
<1>1. UNCHANGED <<pc, current, nature, cancelled>>
  BY DEF vars, fetchVars
<1>2. hunt' = Hunt("over", <<>>, <<>>, {}, kept)
  BY DEF Over
<1>3. SameBodies'
  BY <1>1 DEF HuntInv, SameBodies
<1>4. UsableIsFound'
  BY <1>1, <1>2 DEF UsableIsFound, ErrorPage, ListedFor, Hunt
<1> QED
  BY <1>1, <1>2, <1>3, <1>4 DEF HuntInv, Hunt

LEMMA HuntGoesOn ==
  ASSUME HuntInv, UNCHANGED vars, pc = "done", ErrorPage(current),
         NEW targets, NEW queue, NEW digests, NEW kept,
         hunt' = Hunt("hunting", targets, queue, digests, kept),
         queue \in Seq(Captures), targets \in Seq(DOMAIN Listing), UselessDigests(digests),
         NoneForgotten'
  PROVE  HuntInv'
<1>1. UNCHANGED <<pc, current, nature, cancelled>>
  BY DEF vars, fetchVars
<1>2. SameBodies' /\ ErrorPage(current)' /\ UselessDigests(digests)'
  BY <1>1 DEF HuntInv, SameBodies, ErrorPage, UselessDigests
<1>3. hunt'.digests = digests /\ hunt'.queue = queue /\ hunt'.targets = targets
      /\ hunt'.phase = "hunting" /\ hunt'.kept = kept
  BY DEF Hunt
<1>4. UselessDigests(hunt.digests)'
  BY <1>1, <1>2, <1>3 DEF UselessDigests
<1> QED
  BY <1>1, <1>2, <1>3, <1>4 DEF HuntInv, UsableIsFound

LEMMA HuntStepKeeps == IInv /\ HuntInv /\ HuntNext => HuntInv'
<1> SUFFICES ASSUME IInv, HuntInv, HuntNext PROVE HuntInv'
  OBVIOUS
<1>0. /\ UNCHANGED vars /\ current \in Captures
      /\ hunt = Hunt(hunt.phase, hunt.targets, hunt.queue, hunt.digests, hunt.kept)
      /\ UNCHANGED <<pc, current, nature, cancelled>>
  BY DEF HuntNext, HuntInv, IInv, CaptureInv, vars, fetchVars
<1>1. \A c \in Captures : (c \in lost => c \in lost') /\ (ListingFails => c \in lost')
  BY DEF HuntNext
<1>2. CASE Inspect
  <2>1. pc = "done"
    BY <1>2 DEF Inspect
  <2>2. CASE ~ ErrorPage(current)
    BY <1>0, <1>2, <2>1, <2>2, OverKeeps DEF Inspect, Over
  <2>3. CASE ErrorPage(current)
    <3> DEFINE digests == Remembered({}, current)
    <3>1. hunt' = Hunt("hunting", Targets[current], <<>>, digests, current)
      BY <1>2, <2>3 DEF Inspect
    <3>2. UselessDigests(digests)
      BY <1>0, <2>3 DEF UselessDigests, Remembered, ErrorPage, ServedNatures, Natures
    <3>3. NoneForgotten'
      <4>1. hunt'.targets = Targets[current]
        BY <3>1 DEF Hunt
      <4> QED
        BY <1>0, <4>1 DEF NoneForgotten, ListedFor, StillToCome
    <3>4. Targets[current] \in Seq(DOMAIN Listing) /\ <<>> \in Seq(Captures)
      BY <1>0, IndexAssumption
    <3> QED
      BY <1>0, <2>1, <2>3, <3>1, <3>2, <3>3, <3>4, HuntGoesOn
  <2> QED
    BY <2>2, <2>3
<1>3. ASSUME Hunting
      PROVE  /\ pc = "done" /\ ErrorPage(current) /\ UselessDigests(hunt.digests) /\ NoneForgotten
             /\ hunt.queue \in Seq(Captures) /\ hunt.targets \in Seq(DOMAIN Listing)
  BY <1>3 DEF Hunting, HuntInv
<1>4. CASE ListCandidates
  <2> DEFINE target == Head(hunt.targets)
             queue == Listing[target]
             targets == Tail(hunt.targets)
  <2>1. Hunting /\ hunt.queue = <<>> /\ hunt.targets # <<>>
    BY <1>4 DEF ListCandidates
  <2>2. hunt' = Hunt("hunting", targets, queue, hunt.digests, hunt.kept)
    BY <1>4 DEF ListCandidates
  <2>3. queue \in Seq(Captures) /\ targets \in Seq(DOMAIN Listing)
    <3>1. target \in DOMAIN Listing /\ targets \in Seq(DOMAIN Listing)
      <4> DEFINE S == DOMAIN Listing
      <4>1. hunt.targets \in Seq(S) /\ hunt.targets # <<>>
        BY <1>3, <2>1
      <4> HIDE DEF S
      <4>2. Head(hunt.targets) \in S /\ Tail(hunt.targets) \in Seq(S)
        BY <4>1
      <4> QED
        BY <4>2 DEF S
    <3> QED
      BY <3>1, IndexAssumption
  <2>4. NoneForgotten'
    <3>1. hunt'.queue = queue /\ hunt'.targets = targets
      BY <2>2 DEF Hunt
    <3>2. ASSUME NEW c, c \in Captures, c \in lost \/ StillToCome(c) PROVE c \in lost' \/ StillToCome(c)'
      <4>1. CASE c \in lost
        BY <1>1, <3>2, <4>1
      <4>2. ASSUME NEW i \in DOMAIN hunt.targets, NEW j \in DOMAIN Listing[hunt.targets[i]],
                   Listing[hunt.targets[i]][j] = c
            PROVE  StillToCome(c)'
        <5>1. CASE i = 1
          <6>1. j \in DOMAIN queue /\ queue[j] = c
            BY <1>3, <2>1, <4>2, <5>1
          <6> QED
            BY <3>1, <6>1 DEF StillToCome
        <5>2. CASE i # 1
          <6>1. i - 1 \in DOMAIN targets /\ targets[i - 1] = hunt.targets[i]
            BY <1>3, <2>1, <4>2, <5>2
          <6> QED
            BY <3>1, <4>2, <6>1 DEF StillToCome
        <5> QED
          BY <5>1, <5>2
      <4> QED
        BY <2>1, <3>2, <4>1, <4>2 DEF StillToCome
    <3> QED
      BY <1>0, <1>3, <2>1, <3>2, DigestAssumption DEF NoneForgotten
  <2> QED
    BY <1>0, <1>3, <2>1, <2>2, <2>3, <2>4, HuntGoesOn
<1>5. CASE ListingFails
  BY <1>0, <1>1, <1>3, <1>5, OverKeeps, DigestAssumption DEF ListingFails
<1>6. ASSUME Hunting, hunt.queue # <<>>,
             NEW digests, UselessDigests(digests),
             hunt' = Hunt("hunting", hunt.targets, Tail(hunt.queue), digests, hunt.kept),
             Candidate \in Inspected /\ nature[Candidate] = "good" => Candidate \in lost'
      PROVE  HuntInv'
  <2>1. hunt'.queue = Tail(hunt.queue) /\ hunt'.targets = hunt.targets
    BY <1>6 DEF Hunt
  <2>2. NoneForgotten' /\ Tail(hunt.queue) \in Seq(Captures)
    BY <1>0, <1>1, <1>6, <2>1, CandidateLeaves
  <2> QED
    BY <1>0, <1>3, <1>6, <2>2, HuntGoesOn
<1>7. ASSUME Hunting, hunt.queue # <<>> PROVE Candidate \in Captures
  BY <1>3, <1>7 DEF Candidate
<1>8. CASE PassOver
  <2>1. Hunting /\ hunt.queue # <<>> /\ PassedOver(Candidate)
    BY <1>8 DEF PassOver
  <2>2. hunt' = Hunt("hunting", hunt.targets, Tail(hunt.queue), hunt.digests, hunt.kept)
    BY <1>0, <1>8, <2>1 DEF PassOver, NextCandidate, Hunt, Hunting
  <2>3. ~ (Candidate \in Inspected /\ nature[Candidate] = "good")
    <3>1. CASE Candidate = current
      BY <1>3, <2>1, <3>1 DEF ErrorPage
    <3>2. CASE Digest[Candidate] \in hunt.digests
      <4>1. PICK e \in Captures : Digest[e] = Digest[Candidate] /\ Digest[Candidate] # NoDigest
                                  /\ nature[e] \in ServedNatures \ {"good"}
        BY <1>3, <2>1, <3>2 DEF UselessDigests
      <4>2. "good" \in ServedNatures
        BY DEF ServedNatures, Natures
      <4> QED
        BY <1>7, <2>1, <4>1, <4>2 DEF HuntInv, SameBodies
    <3> QED
      BY <2>1, <3>1, <3>2 DEF PassedOver
  <2> QED
    BY <1>3, <1>6, <2>1, <2>2, <2>3
<1>9. CASE CandidateFails
  <2>1. Hunting /\ hunt.queue # <<>>
    BY <1>9 DEF CandidateFails, Tries
  <2>2. hunt' = Hunt("hunting", hunt.targets, Tail(hunt.queue), hunt.digests, hunt.kept)
    BY <1>0, <1>9, <2>1 DEF CandidateFails, NextCandidate, Hunt, Hunting
  <2>3. Candidate \in lost'
    BY <1>1, <1>7, <1>9, <2>1 DEF HuntNext
  <2> QED
    BY <1>3, <1>6, <2>1, <2>2, <2>3
<1>10. CASE CandidateServed
  <2>1. Hunting /\ hunt.queue # <<>> /\ nature[Candidate] \in ServedNatures
    BY <1>10 DEF CandidateServed, Tries
  <2>2. CASE nature[Candidate] = "good"
    BY <1>0, <1>3, <1>10, <2>1, <2>2, OverKeeps DEF CandidateServed, ErrorPage
  <2>3. CASE nature[Candidate] # "good"
    <3> DEFINE digests == Remembered(hunt.digests, Candidate)
    <3>1. hunt' = Hunt("hunting", hunt.targets, Tail(hunt.queue), digests, hunt.kept)
      BY <1>0, <1>10, <2>1, <2>3 DEF CandidateServed, Hunt, Hunting
    <3>2. UselessDigests(digests)
      BY <1>3, <1>7, <2>1, <2>3 DEF UselessDigests, Remembered
    <3> QED
      BY <1>6, <2>1, <2>3, <3>1, <3>2
  <2> QED
    BY <2>2, <2>3
<1>11. CASE HuntCancelled
  BY <1>0, <1>3, <1>11, OverKeeps DEF HuntCancelled
<1>12. CASE NothingUsable
  <2>1. Hunting /\ hunt.queue = <<>> /\ hunt.targets = <<>> /\ Over(current)
    BY <1>12 DEF NothingUsable
  <2>2. \A c : ~ StillToCome(c)
    BY <2>1 DEF StillToCome
  <2>3. \A c \in ListedFor(current) \cap Inspected : nature[c] = "good" => c \in lost'
    BY <1>1, <1>3, <2>1, <2>2, DigestAssumption DEF NoneForgotten
  <2> QED
    BY <1>0, <1>3, <2>1, <2>3, OverKeeps
<1> QED
  BY <1>2, <1>4, <1>5, <1>8, <1>9, <1>10, <1>11, <1>12 DEF HuntNext, HuntStep

LEMMA UsableNextPreserves == IInv /\ HuntInv /\ [MCNext]_mcVars => HuntInv'
<1> SUFFICES ASSUME IInv, HuntInv, [MCNext]_mcVars PROVE HuntInv'
  OBVIOUS
<1>1. CASE FetchNext
  BY <1>1, FetchKeepsHunt
<1>2. CASE HuntNext
  BY <1>2, HuntStepKeeps
<1>3. CASE (CancelHunt /\ UNCHANGED <<asked, lost>>) \/ UNCHANGED mcVars
  <2>1. UNCHANGED <<pc, current, nature, hunt, lost>> /\ (cancelled => cancelled')
    BY <1>3 DEF CancelHunt, mcVars, usableVars, vars, fetchVars
  <2>2. NoneForgotten' = NoneForgotten /\ UselessDigests(hunt.digests)' = UselessDigests(hunt.digests)
    BY <2>1 DEF NoneForgotten, StillToCome, ListedFor, UselessDigests
  <2> QED
    BY <2>1, <2>2 DEF HuntInv, SameBodies, UsableIsFound, ErrorPage, ListedFor, Hunt
<1> QED
  BY <1>1, <1>2, <1>3 DEF MCNext

(* For any captures, digests and order of answers, the hunt for a usable    *)
(* page overlooks none: the remembered digests hide only bodies that were   *)
(* seen to be of no use (find_usable_capture, remember_digest).             *)
THEOREM HuntFindsUsable == MCSpec => []UsableIsFound
<1>1. HuntInv => UsableIsFound
  BY DEF HuntInv
<1> QED
  BY <1>1, InitEstablishes, NextPreserves, HuntInitial, UsableNextPreserves, PTL DEF MCSpec

-----------------------------------------------------------------------------
(* Wayback has answered for every capture a fetch has left, and what the    *)
(* selected capture's URLs list is behind it or still listed.               *)
TriedInv ==
  /\ seen \subseteq asked \cup {current}
  /\ pc \in {"reading", "looking up"} => current \in asked
  /\ pc = "switching" /\ failure = "body" => current \in asked
  /\ \A c \in ListedFor(Selected) : Eligible(c) => c \in seen \/ c \in ListedFor(current)
  /\ UnavailableMeansAllTried

LEMMA TriedInitial == MCInit => TriedInv
BY DEF MCInit, Init, TriedInv, UnavailableMeansAllTried

(* Without an open target every eligible capture listed has been seen.      *)
LEMMA NothingOpen ==
  ASSUME OpenTargets = {}, NEW c \in ListedFor(current), Eligible(c) PROVE c \in seen
<1>1. PICK i \in DOMAIN Targets[current] : \E j \in DOMAIN Listing[Targets[current][i]] :
        c = Listing[Targets[current][i]][j]
  BY DEF ListedFor
<1> QED
  BY <1>1 DEF OpenTargets, Candidates

(* The capture that is switched to lists what the later URLs of the one     *)
(* before it list; its earlier ones list nothing new.                       *)
LEMMA SwitchLosesNothing ==
  ASSUME current \in Captures, LookupAnswers, current' # current,
         NEW c \in ListedFor(current), Eligible(c)
  PROVE  c \in seen \/ c \in ListedFor(current')
<1>1. PICK i \in First(OpenTargets) : \E j \in First(Candidates(Targets[current][i])) :
        current' = Listing[Targets[current][i]][j]
  BY DEF LookupAnswers, NoAlternate, Finish, RetryIn, SwitchTo
<1>2. PICK k \in DOMAIN Targets[current] : \E m \in DOMAIN Listing[Targets[current][k]] :
        c = Listing[Targets[current][k]][m]
  BY DEF ListedFor
<1>3. i \in DOMAIN Targets[current] /\ \E j \in DOMAIN Listing[Targets[current][i]] :
                                      current' = Listing[Targets[current][i]][j]
  BY <1>1 DEF First, OpenTargets, Candidates
<1>4. Targets[current] \in Seq(DOMAIN Listing)
  BY IndexAssumption
<1>5. CASE k \in i .. Len(Targets[current])
  BY <1>1, <1>2, <1>3, <1>5, VariantsAgreeAssumption
<1>6. CASE k \notin i .. Len(Targets[current])
  <2>1. ~ (i <= k)
    BY <1>2, <1>3, <1>4, <1>6
  <2>2. k \notin OpenTargets
    BY <1>1, <2>1 DEF First
  <2> QED
    BY <1>2, <2>2 DEF OpenTargets, Candidates
<1> QED
  BY <1>5, <1>6

(* Where a fetch that stays with its capture has been answered.             *)
LEMMA AnswersAreNoted ==
  ASSUME TriedInv, FetchNext, UNCHANGED current
  PROVE  /\ pc' \in {"reading", "looking up"} => current \in asked'
         /\ pc' = "switching" /\ failure' = "body" => current \in asked'
<1>0. asked \subseteq asked' /\ (Asks => current \in asked') /\ Next
  BY DEF FetchNext
<1>1. CASE Served \/ DeclaredTooLarge \/ Missing \/ Rejected
  BY <1>0, <1>1 DEF Served, DeclaredTooLarge, Missing, Rejected, Finish, LookForAlternate, Asks
<1>2. ASSUME NEW why \in {"429", "5xx", "connect", "403"}, RetryableStatus(why) \/ Unreached(why)
      PROVE  pc' \in {"switching", "sleeping"} /\ failure' # "body"
  BY <1>2 DEF RetryableStatus, Unreached, TrySwitching, RetryIn
<1>3. CASE BodyArrives \/ BodyTooLarge \/ BodyFails \/ WriteFails
  BY <1>0, <1>3 DEF BodyArrives, BodyTooLarge, BodyFails, WriteFails, Finish, TrySwitching, TriedInv
<1>4. CASE LookupAnswers \/ LookupFails
  BY <1>4 DEF LookupAnswers, LookupFails, NoAlternate, SwitchTo, Finish, RetryIn
<1>5. CASE SwitchAnswered
  BY <1>0, <1>5 DEF SwitchAnswered, Finish, RetryIn, LookForAlternate, TriedInv
<1>6. CASE WakeUp \/ InterruptSleep
  BY <1>6 DEF WakeUp, InterruptSleep, Finish
<1>7. CASE RouteSearch \/ LookupSwitchesRoute \/ Tick \/ Cancel
  <2>1. UNCHANGED <<pc, failure>>
    BY <1>7 DEF RouteSearch, LookupSwitchesRoute, Tick, Cancel, fetchVars
  <2> QED
    BY <1>0, <2>1 DEF TriedInv
<1> QED
  BY <1>0, <1>1, <1>2, <1>3, <1>4, <1>5, <1>6, <1>7 DEF Next, Steady, Answer, Program

LEMMA OnlyLookupsGiveUp ==
  ASSUME Next, outcome = "none", outcome' = "unavailable"
  PROVE  LookupAnswers /\ (cancelled \/ OpenTargets = {}) /\ pc = "looking up"
<1>1. CASE Served \/ DeclaredTooLarge \/ Missing \/ Rejected \/ BodyArrives \/ BodyTooLarge
           \/ BodyFails \/ WriteFails \/ LookupFails \/ SwitchAnswered
  BY <1>1 DEF Served, DeclaredTooLarge, Missing, Rejected, BodyArrives, BodyTooLarge, BodyFails,
              WriteFails, LookupFails, SwitchAnswered, Finish, LookForAlternate, TrySwitching, RetryIn
<1>2. ASSUME NEW why, RetryableStatus(why) \/ Unreached(why) PROVE FALSE
  BY <1>2 DEF RetryableStatus, Unreached, TrySwitching, RetryIn
<1>3. CASE LookupAnswers
  BY <1>3 DEF LookupAnswers, SwitchTo
<1>4. CASE RouteSearch \/ WakeUp \/ InterruptSleep \/ LookupSwitchesRoute \/ Tick \/ Cancel
  BY <1>4 DEF RouteSearch, WakeUp, InterruptSleep, LookupSwitchesRoute, Tick, Cancel, Finish, fetchVars
<1> QED
  BY <1>1, <1>2, <1>3, <1>4 DEF Next, Steady, Answer, Program

LEMMA FetchKeepsTried == IInv /\ TriedInv /\ FetchNext => TriedInv'
<1> SUFFICES ASSUME IInv, TriedInv, FetchNext PROVE TriedInv'
  OBVIOUS
<1>1. Next /\ asked \subseteq asked' /\ current \in Captures /\ outcome = "none" /\ mode' = mode
  BY DoneIsOver DEF FetchNext, IInv, DiskInv, CaptureInv, Next, Steady, Cancel
<1>2. \A c : Eligible(c)' <=> Eligible(c)
  BY <1>1 DEF Eligible
<1>3. CASE UNCHANGED <<current, seen>>
  <2>1. UnavailableMeansAllTried'
    <3> SUFFICES ASSUME outcome' = "unavailable", ~ cancelled', NEW c \in ListedFor(Selected), Eligible(c)
                 PROVE  c \in asked'
      BY <1>2 DEF UnavailableMeansAllTried, ListedFor
    <3>1. LookupAnswers /\ (cancelled \/ OpenTargets = {}) /\ pc = "looking up"
      BY <1>1, OnlyLookupsGiveUp
    <3>2. ~ cancelled
      BY DEF FetchNext, Next, Steady, Cancel
    <3>3. c \in seen
      BY <3>1, <3>2, NothingOpen DEF TriedInv
    <3> QED
      BY <1>1, <3>1, <3>3 DEF TriedInv
  <2>2. ListedFor(current)' = ListedFor(current) /\ ListedFor(Selected)' = ListedFor(Selected)
    BY <1>3 DEF ListedFor
  <2>3. (\A c \in ListedFor(Selected) : Eligible(c) => c \in seen \/ c \in ListedFor(current))'
    BY <1>2, <1>3, <2>2 DEF TriedInv
  <2>4. seen' \subseteq asked' \cup {current'}
    BY <1>1, <1>3 DEF TriedInv
  <2> QED
    BY <1>3, <2>1, <2>3, <2>4, AnswersAreNoted DEF TriedInv
<1>4. CASE ~ UNCHANGED <<current, seen>>
  <2>1. PICK next : NewCapture(next)
    BY <1>1, <1>4, StepKeepsCapture
  <2>2. /\ current' = next /\ seen' = seen \cup {next} /\ pc' = "request" /\ outcome' = "none"
        /\ current \in asked /\ current' # current
    BY <1>1, <2>1 DEF NewCapture, SwitchTo, TriedInv, IInv, AskedInv
  <2>3. LookupAnswers
    BY <1>1, <2>1, <2>2, DoneIsOver DEF NewCapture, Next, Steady, Answer, Program, Served,
       DeclaredTooLarge, Missing, RetryableStatus, Unreached, Rejected, BodyArrives, BodyTooLarge,
       BodyFails, WriteFails, LookupFails, Finish, RetryIn, RouteSearch, SwitchAnswered, WakeUp,
       InterruptSleep, LookupSwitchesRoute, Tick, Cancel, fetchVars
  <2>4. \A c \in ListedFor(Selected) : Eligible(c) => c \in seen' \/ c \in ListedFor(current')
    BY <1>1, <2>2, <2>3, SwitchLosesNothing DEF TriedInv
  <2> QED
    BY <1>1, <1>2, <2>2, <2>4 DEF TriedInv, UnavailableMeansAllTried, ListedFor
<1> QED
  BY <1>3, <1>4

LEMMA TriedNextPreserves == IInv /\ TriedInv /\ [MCNext]_mcVars => TriedInv'
<1> SUFFICES ASSUME IInv, TriedInv, [MCNext]_mcVars PROVE TriedInv'
  OBVIOUS
<1>1. CASE FetchNext
  BY <1>1, FetchKeepsTried
<1>2. CASE ~ FetchNext
  <2>1. UNCHANGED <<fetchVars, mode, asked>> /\ (cancelled => cancelled')
    BY <1>2 DEF MCNext, HuntNext, CancelHunt, mcVars, usableVars, vars
  <2>2. UNCHANGED <<current, seen, pc, failure, outcome, mode, asked>>
    BY <2>1 DEF fetchVars
  <2>3. UnavailableMeansAllTried'
    BY <2>1, <2>2 DEF TriedInv, UnavailableMeansAllTried, ListedFor, Eligible
  <2>4. (\A c \in ListedFor(Selected) : Eligible(c) => c \in seen \/ c \in ListedFor(current))'
    <3>1. ListedFor(current)' = ListedFor(current) /\ \A c : Eligible(c)' <=> Eligible(c)
      BY <2>2 DEF ListedFor, Eligible
    <3>2. ListedFor(Selected)' = ListedFor(Selected)
      BY DEF ListedFor
    <3> QED
      BY <2>2, <3>1, <3>2 DEF TriedInv
  <2> QED
    BY <2>2, <2>3, <2>4 DEF TriedInv
<1> QED
  BY <1>1, <1>2

(* For any captures and URLs whose spellings the index answers alike, a     *)
(* fetch that was not cancelled gives a file up only after Wayback has      *)
(* answered for every capture that may stand in for it                      *)
(* (find_alternate_snapshot_record, fallback_capture_targets).              *)
THEOREM UnavailableOnlyAfterAll == MCSpec => []UnavailableMeansAllTried
<1>1. TriedInv => UnavailableMeansAllTried
  BY DEF TriedInv
<1> QED
  BY <1>1, InitEstablishes, NextPreserves, TriedInitial, TriedNextPreserves, PTL DEF MCSpec

-----------------------------------------------------------------------------
LEMMA FetchIsRouteStep == [MCNext]_mcVars => [RouteNext]_routeVars
<1> SUFFICES ASSUME [MCNext]_mcVars PROVE [RouteNext]_routeVars
  OBVIOUS
<1>1. CASE Served \/ DeclaredTooLarge \/ Missing \/ Rejected \/ BodyArrives \/ BodyTooLarge
           \/ WriteFails \/ LookupAnswers \/ LookupFails \/ SwitchAnswered \/ WakeUp \/ InterruptSleep
  BY <1>1 DEF Served, DeclaredTooLarge, Missing, Rejected, BodyArrives, BodyTooLarge, WriteFails,
              LookupAnswers, LookupFails, SwitchAnswered, WakeUp, InterruptSleep
<1>2. ASSUME NEW why, RetryableStatus(why) \/ Unreached(why) PROVE [RouteNext]_routeVars
  BY <1>2 DEF RetryableStatus, Unreached, TrySwitching, RouteNext
<1>3. CASE BodyFails
  BY <1>3 DEF BodyFails, TrySwitching, RouteNext
<1>4. CASE RouteSearch \/ LookupSwitchesRoute \/ Tick
  BY <1>4 DEF RouteSearch, LookupSwitchesRoute, Tick, RouteNext
<1>5. CASE Cancel \/ HuntNext \/ CancelHunt \/ UNCHANGED mcVars
  BY <1>5 DEF Cancel, HuntNext, CancelHunt, mcVars, usableVars, vars, routeVars
<1> QED
  BY <1>1, <1>2, <1>3, <1>4, <1>5 DEF MCNext, FetchNext, Next, Steady, Answer, Program

(* Fetches use the routes as the client provides them: what holds of the    *)
(* routes under any use holds while files are fetched                       *)
(* (try_activate_ssh_client).                                               *)
THEOREM FetchesUseTheRoutes == MCSpec => RouteInit /\ [][RouteNext]_routeVars
<1>1. MCInit => RouteInit
  BY DEF MCInit, Init
<1> QED
  BY <1>1, FetchIsRouteStep, PTL DEF MCSpec

LEMMA DelaysBounded ==
  \A attempts : /\ Backoff(attempts) \in 0 .. MaxRetryDelay
                /\ \A delay \in StatusDelays(attempts) : delay \in 0 .. MaxRetryDelay
<1>1. \A attempts : Backoff(attempts) \in 0 .. MaxRetryDelay
  BY RetryAssumption DEF Backoff
<1>2. \A seconds \in RetryAfters : RetryAfter(seconds) \in 0 .. MaxRetryDelay
  BY RetryAssumption DEF RetryAfter
<1> QED
  BY <1>1, <1>2 DEF StatusDelays

LEMMA CountersTyped ==
  ASSUME attempt \in 0 .. MaxRetryShift, sleepIn \in 0 .. MaxRetryDelay
  PROVE  /\ Bump(attempt) \in 0 .. MaxRetryShift
         /\ 0 \in 0 .. MaxRetryShift
         /\ Elapse(sleepIn) \in 0 .. MaxRetryDelay
         /\ 0 \in 0 .. MaxRetryDelay
BY RetryAssumption DEF Bump, Elapse

Steps == {"request", "reading", "switching", "looking up", "sleeping", "done"}

FetchTypeOK ==
  /\ mode \in Modes
  /\ pc \in Steps
  /\ seen \in CaptureSets
  /\ attempt \in 0 .. MaxRetryShift
  /\ sleepIn \in 0 .. MaxRetryDelay
  /\ failure \in Failures
  /\ outcome \in Outcomes

LEMMA RetryTyped ==
  ASSUME FetchTypeOK, UNCHANGED mode, NEW delay \in 0 .. MaxRetryDelay, RetryIn(delay)
  PROVE  FetchTypeOK'
BY CountersTyped DEF FetchTypeOK, RetryIn, Steps, Failures

LEMMA FinishTyped ==
  ASSUME FetchTypeOK, UNCHANGED mode, NEW how \in Outcomes, Finish(how)
  PROVE  FetchTypeOK'
BY DEF FetchTypeOK, Finish, Steps, Failures

LEMMA FailureTyped ==
  ASSUME FetchTypeOK, UNCHANGED mode, NEW why \in Failures, TrySwitching(why) \/ LookForAlternate(why)
  PROVE  FetchTypeOK'
BY DEF FetchTypeOK, TrySwitching, LookForAlternate, Steps

LEMMA FetchTyped == IInv /\ FetchTypeOK /\ FetchNext => FetchTypeOK'
<1> SUFFICES ASSUME IInv, FetchTypeOK, Next PROVE FetchTypeOK'
  BY DEF FetchNext
<1>1. UNCHANGED mode
  BY DEF Next, Steady, Cancel
<1>2. CASE Served
  BY <1>1, <1>2 DEF Served, FetchTypeOK, Steps
<1>3. CASE DeclaredTooLarge \/ Rejected \/ BodyArrives \/ BodyTooLarge \/ WriteFails \/ InterruptSleep
  BY <1>1, <1>3, FinishTyped
     DEF DeclaredTooLarge, Rejected, BodyArrives, BodyTooLarge, WriteFails, InterruptSleep, Outcomes
<1>4. CASE Missing \/ BodyFails
  BY <1>1, <1>4, FailureTyped DEF Missing, BodyFails, Failures
<1>5. ASSUME NEW why \in {"429", "5xx"}, RetryableStatus(why) PROVE FetchTypeOK'
  BY <1>1, <1>5, FailureTyped, RetryTyped, DelaysBounded DEF RetryableStatus, Failures
<1>6. ASSUME NEW why \in {"connect", "403"}, Unreached(why) PROVE FetchTypeOK'
  BY <1>1, <1>6, FailureTyped DEF Unreached, Failures
<1>7. CASE NoAlternate
  BY <1>1, <1>7, FinishTyped, RetryTyped, DelaysBounded DEF NoAlternate, Outcomes
<1>8. CASE LookupAnswers
  <2>1. CASE \E next : NewCapture(next)
    BY <1>1, <2>1, CountersTyped DEF NewCapture, SwitchTo, FetchTypeOK, CaptureSets, Steps, Failures
  <2>2. CASE ~ \E next : NewCapture(next)
    <3>1. \A i \in First(OpenTargets) : \A j \in First(Candidates(Targets[current][i])) :
            ~ SwitchTo(Listing[Targets[current][i]][j])
      <4> SUFFICES ASSUME NEW i \in First(OpenTargets), NEW j \in First(Candidates(Targets[current][i])),
                          SwitchTo(Listing[Targets[current][i]][j])
                   PROVE  FALSE
        OBVIOUS
      <4>1. \E next : NewCapture(next)
        BY <1>8, OpenIsNew DEF IInv, CaptureInv, LookupAnswers
      <4> QED
        BY <2>2, <4>1
    <3> QED
      BY <1>7, <1>8, <3>1 DEF LookupAnswers
  <2> QED
    BY <2>1, <2>2
<1>9. CASE LookupFails
  BY <1>1, <1>9, FinishTyped, RetryTyped, DelaysBounded DEF LookupFails, Outcomes
<1>10. CASE SwitchAnswered
  <2>1. CASE switched
    BY <1>1, <1>10, <2>1, CountersTyped DEF SwitchAnswered, FetchTypeOK, Steps, Failures
  <2>2. CASE ~ switched
    BY <1>1, <1>10, <2>2, FinishTyped, FailureTyped, RetryTyped, DelaysBounded
       DEF SwitchAnswered, Outcomes, Failures
  <2> QED
    BY <2>1, <2>2
<1>11. CASE WakeUp
  BY <1>1, <1>11 DEF WakeUp, FetchTypeOK, Steps
<1>12. CASE Tick
  BY <1>1, <1>12, CountersTyped DEF Tick, FetchTypeOK
<1>13. CASE RouteSearch \/ LookupSwitchesRoute \/ Cancel
  BY <1>1, <1>13 DEF RouteSearch, LookupSwitchesRoute, Cancel, fetchVars, FetchTypeOK
<1> QED
  BY <1>2, <1>3, <1>4, <1>5, <1>6, <1>8, <1>9, <1>10, <1>11, <1>12, <1>13
     DEF Next, Steady, Answer, Program

HuntTypeOK == hunt.phase \in Phases /\ hunt.kept \in Captures

LEMMA HuntTyped == IInv /\ HuntInv /\ HuntTypeOK /\ HuntStep => HuntTypeOK'
<1> SUFFICES ASSUME IInv, HuntInv, HuntTypeOK, HuntStep PROVE HuntTypeOK'
  OBVIOUS
<1>1. current \in Captures
  BY DEF IInv, CaptureInv
<1>2. CASE Inspect \/ ListCandidates \/ ListingFails \/ HuntCancelled \/ NothingUsable
  BY <1>1, <1>2
     DEF Inspect, ListCandidates, ListingFails, HuntCancelled, NothingUsable, Over, Hunt, HuntTypeOK, Phases
<1>3. ASSUME hunt' = [hunt EXCEPT !.queue = hunt'.queue, !.digests = hunt'.digests] PROVE HuntTypeOK'
  BY <1>3 DEF HuntInv, Hunt, HuntTypeOK
<1>4. CASE PassOver \/ CandidateFails \/ CandidateServed
  <2>1. CASE Tries /\ Over(Candidate)
    <3>1. hunt.queue \in Seq(Captures) /\ hunt.queue # <<>>
      BY <2>1 DEF Tries, Hunting, HuntInv
    <3>2. Candidate \in Captures
      BY <3>1 DEF Candidate
    <3> QED
      BY <2>1, <3>2 DEF Over, Hunt, HuntTypeOK, Phases
  <2>2. CASE ~ (Tries /\ Over(Candidate))
    BY <1>4, <2>2
       DEF PassOver, CandidateFails, CandidateServed, NextCandidate, HuntInv, Hunt, HuntTypeOK
  <2> QED
    BY <2>1, <2>2
<1> QED
  BY <1>2, <1>4 DEF HuntStep

TInv == RouteInv /\ FetchTypeOK /\ HuntTypeOK

LEMMA TypedNext == IInv /\ HuntInv /\ TInv /\ [MCNext]_mcVars => TInv'
<1> SUFFICES ASSUME IInv, HuntInv, TInv, [MCNext]_mcVars PROVE TInv'
  OBVIOUS
<1>1. RouteInv'
  BY FetchIsRouteStep, RouteStep DEF TInv
<1>2. FetchTypeOK'
  <2>1. CASE FetchNext
    BY <2>1, FetchTyped DEF TInv
  <2>2. CASE ~ FetchNext
    <3>1. UNCHANGED <<fetchVars, mode>>
      BY <2>2 DEF MCNext, HuntNext, CancelHunt, mcVars, usableVars, vars
    <3> QED
      BY <3>1 DEF fetchVars, TInv, FetchTypeOK
  <2> QED
    BY <2>1, <2>2
<1>3. HuntTypeOK'
  <2>1. CASE HuntNext
    BY <2>1, HuntTyped DEF HuntNext, TInv
  <2>2. CASE ~ HuntNext
    <3>1. hunt' = hunt
      BY <2>2 DEF MCNext, FetchNext, CancelHunt, mcVars, usableVars
    <3> QED
      BY <3>1 DEF TInv, HuntTypeOK
  <2> QED
    BY <2>1, <2>2
<1> QED
  BY <1>1, <1>2, <1>3 DEF TInv

(* For any delays, captures and failures: the attempts and waits of a fetch *)
(* stay in range over any number of retries, and it is always at a capture  *)
(* of the file (retry_snapshot_after_status, snapshot_retry_after_delay).   *)
THEOREM FetchesStayInRange == MCSpec => []TypeOK
<1>1. MCInit => TInv
  <2> SUFFICES ASSUME MCInit PROVE TInv
    OBVIOUS
  <2>1. FetchTypeOK
    BY CapturesAssumption, RetryAssumption
       DEF MCInit, Init, FetchTypeOK, Steps, CaptureSets, Failures, Outcomes
  <2>2. HuntTypeOK
    BY CapturesAssumption DEF MCInit, HuntInit, Hunt, HuntTypeOK, Phases
  <2> QED
    BY <2>1, <2>2, RouteInitial DEF MCInit, Init, TInv
<1>2. IInv /\ TInv => TypeOK
  BY DEF IInv, DiskInv, CaptureInv, TInv, RouteInv, FetchTypeOK, HuntTypeOK, Steps, TypeOK
<1> QED
  BY <1>1, <1>2, InitEstablishes, NextPreserves, HuntInitial, UsableNextPreserves, TypedNext, PTL
     DEF MCSpec
=============================================================================
