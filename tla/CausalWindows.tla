--------------------------- MODULE CausalWindows ---------------------------
(***************************************************************************)
(* The assembler's choice of what the temporal model may be asked: for a   *)
(* target record, the frames of the window that ends at it                 *)
(* (_select_windows in assembler/core.py), and the request made of it.     *)
(* Pure operators on a sequence of perception records.                     *)
(***************************************************************************)
EXTENDS InferenceRequests, Ranking, SequencesExt

CONSTANTS
  Window,              \* window_ms
  MaxTargets,          \* MAX_ASSEMBLED_TARGETS
  MaxFrameEntries      \* MAX_SELECTED_FRAME_ENTRIES

ASSUME WindowAssumption == Window \in Nat /\ MaxTargets \in Nat /\ MaxFrameEntries \in Nat

SoleCat(record) == CHOOSE t \in Cats(record) : TRUE

\* timestamp_to_ordinal: the position with that capture time, 0 for none.
PositionAt(records, time) ==
  LET found == {i \in DOMAIN records : records[i].at = time}
  IN IF found = {} THEN 0 ELSE CHOOSE i \in found : \A j \in found : j <= i

\* Slip: a window may begin with the first frame inside it.
FirstWithin(records, target) ==
  Min({i \in DOMAIN records : records[i].at >= records[target].at - Window})

FirstOf(records, target) == PositionAt(records, records[target].at - Window)

\* Slip: a frame with two cats is passed over, one with another cat is not.
OffendsByNumber(record, cat) == Cardinality(Cats(record)) > 1

\* A frame that a window of this cat must not contain.
Offends(record, cat) ==
  \/ Cardinality(Cats(record)) > 1
  \/ Cardinality(Cats(record)) = 1 /\ SoleCat(record).id # cat.id

\* Why a record is no target, or "" when it is one; a record without a cat
\* is passed over without a word.
Suppression(records, target) ==
  LET record == records[target]
      cat == SoleCat(record)
      first == FirstOf(records, target)
  IN IF Cats(record) = {} THEN "NO_CAT"
     ELSE IF Cardinality(Cats(record)) > 1 THEN "MULTI_CAT_AMBIGUOUS"
     ELSE IF cat.region["approach"] <= 0 THEN "NO_APPROACH_EVIDENCE"
     ELSE IF record.at < Window THEN "TARGET_PRECEDES_WINDOW_MS"
     ELSE IF first = 0 \/ first > target THEN "NO_EXACT_CAUSAL_WINDOW_START"
     ELSE IF \E i \in first .. target : Offends(records[i], cat) THEN "WINDOW_OFFENDED"
     ELSE ""

IsTarget(records, target) == Suppression(records, target) = ""
Targets(records) == {i \in DOMAIN records : IsTarget(records, i)}

WindowLength(records, target) == target - FirstOf(records, target) + 1

\* _Window: the target, its only cat and the frames first .. last.
WindowOf(records, target) ==
  [target |-> records[target], track |-> SoleCat(records[target]).id,
   first |-> FirstOf(records, target), last |-> target,
   times |-> [k \in 1 .. WindowLength(records, target) |->
                records[FirstOf(records, target) + k - 1].at]]

Windows(records) ==
  LET targets == Ascending(Targets(records))
  IN [k \in DOMAIN targets |-> WindowOf(records, targets[k])]

\* The frames that all windows repeat between them.
FrameEntries(records) ==
  MapThenSumSet(LAMBDA i : WindowLength(records, i), Targets(records))

\* The selection succeeds: there is a target, and the limits hold.
Selectable(records) ==
  /\ Targets(records) # {}
  /\ Cardinality(Targets(records)) <= MaxTargets
  /\ FrameEntries(records) <= MaxFrameEntries

-----------------------------------------------------------------------------
(* The requests: one per window, numbered from 0.  A clip is the footage of *)
(* its frames.                                                             *)

Clip(footage) == [footage |-> footage, frames |-> Len(footage), shape |-> "valid"]

RequestFor(number, record, track, times, footage) ==
  [sequence |-> number, key |-> <<record.observation, track>>, at |-> record.at,
   predictedAt |-> record.at + LogicalLatency, times |-> times,
   windowStart |-> times[1], windowEnd |-> record.at, shape |-> "valid",
   clip |-> Clip(footage)]

\* footage is the incident's, one entry per record.
WindowRequest(windows, k, footage) ==
  RequestFor(k - 1, windows[k].target, windows[k].track, windows[k].times,
             SubSeq(footage, windows[k].first, windows[k].last))

Selected(windows) == [k \in DOMAIN windows |-> windows[k].target]
=============================================================================
