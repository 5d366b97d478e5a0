----------------------------- MODULE Perception -----------------------------
(***************************************************************************)
(* The observe-only perception process (perception/): one frame after the  *)
(* other is read, detected, tracked, related to the scene's zones and      *)
(* written as one JSON line.  The image is a line of pixels, a box or a    *)
(* zone an interval of it: intersection over union and its ties are        *)
(* computed exactly, in integers.  The network itself is left open: what   *)
(* it answers for a frame is any member of RowSets.                        *)
(***************************************************************************)
EXTENDS ShadowStreams

CONSTANTS
  RowSets,           \* the sets of decoded rows a frame may give
  CatConfidence, PersonConfidence,
  NmsIou,            \* [num, den]: overlaps above it are suppressed
  TrackerIou,        \* [num, den]: overlaps from it on are candidates
  MaxMissed,         \* max_missed_frames
  ImageWidth,        \* boxes are clipped to 0 .. ImageWidth
  Zones,             \* [id, type, box] of the scene
  TicksPerSecond, Fps,
  SourceKinds,       \* subset of {"image", "video", "camera"}
  MaxFrames,         \* bound: no source gives more frames
  Camera

ASSUME RowsAssumption ==
  /\ \A rows \in RowSets : IsFiniteSet(rows)
  /\ \A rows \in RowSets : \A r, s \in rows : r.index = s.index => r = s
  /\ \A rows \in RowSets : \A r \in rows :
        r = [index |-> r.index, class |-> r.class, score |-> r.score, box |-> r.box]
  /\ \A rows \in RowSets : \A r \in rows : r.index \in Int /\ r.score \in Int
ASSUME TrackerAssumption == MaxMissed \in Nat /\ MaxFrames \in Nat
ASSUME ClockAssumption == TicksPerSecond \in Nat \ {0} /\ Fps \in Nat \ {0}

VARIABLES
  source,    \* which source is open, "closed" at the end
  frame,     \* index of the source's next frame
  tracks,    \* IouTracker._states: number |-> track
  nextId,    \* IouTracker._next_id
  lines,     \* the records written and flushed so far
  torn,      \* the file ends in the middle of a line
  pipeline   \* "running" or "ended"

perceptionVars == <<source, frame, tracks, nextId, lines, torn, pipeline>>

AtMost(a, b) == IF a <= b THEN a ELSE b
AtLeast(a, b) == IF a >= b THEN a ELSE b

\* Python's round: to the nearest, a tie to the even neighbour.
RoundDiv(n, d) ==
  LET q == n \div d
      r == n % d
  IN IF 2 * r > d \/ (2 * r = d /\ q % 2 = 1) THEN q + 1 ELSE q

-----------------------------------------------------------------------------
(* Boxes: NormalizedBox.iou, class_aware_nms and decode_yolox. *)

Positive(box) == box.l < box.r
Length(box) == box.r - box.l
Shared(a, b) == AtLeast(0, AtMost(a.r, b.r) - AtLeast(a.l, b.l))
Joined(a, b) == Length(a) + Length(b) - Shared(a, b)
IouFrom(a, b, bound) == Shared(a, b) * bound.den >= bound.num * Joined(a, b)
IouAbove(a, b, bound) == Shared(a, b) * bound.den > bound.num * Joined(a, b)

Confident(row) ==
  \/ row.class = "PERSON" /\ row.score >= PersonConfidence
  \/ row.class = "CAT" /\ row.score >= CatConfidence

Outranks(r, s) == r.score > s.score \/ (r.score = s.score /\ r.index < s.index)

\* The rows that non-maximum suppression keeps: those that no kept row of
\* their class with a better rank overlaps too far.
Kept(rows) ==
  CHOOSE kept \in SUBSET rows :
    \A r \in rows : r \in kept <=>
      ~\E k \in kept : /\ k.class = r.class
                       /\ Outranks(k, r)
                       /\ IouAbove(k.box, r.box, NmsIou)

Clipped(box) == [l |-> AtLeast(0, AtMost(box.l, ImageWidth)),
                 r |-> AtLeast(0, AtMost(box.r, ImageWidth))]

Detections(rows) ==
  LET confident == {r \in rows : Confident(r) /\ Positive(r.box)}
      visible == {r \in confident \intersect Kept(confident) : Positive(Clipped(r.box))}
  IN {[r EXCEPT !.box = Clipped(@)] : r \in visible}

-----------------------------------------------------------------------------
(* The tracker: IouTracker.update. *)

\* The order in which new identities are given out.
Before(d, e) ==
  \/ d.class = "CAT" /\ e.class = "PERSON"
  \/ d.class = e.class /\ Outranks(d, e)

Candidates(detected) ==
  {p \in (DOMAIN tracks) \X detected :
     tracks[p[1]].class = p[2].class /\ IouFrom(tracks[p[1]].box, p[2].box, TrackerIou)}

Rivals(p, q) == p # q /\ (p[1] = q[1] \/ p[2] = q[2])

\* candidate_pairs in their order: a larger overlap first, then the older
\* track, then the earlier detection.
Better(p, q) ==
  LET a == tracks[p[1]].box
      b == tracks[q[1]].box
      left == Shared(a, p[2].box) * Joined(b, q[2].box)
      right == Shared(b, q[2].box) * Joined(a, p[2].box)
  IN \/ left > right
     \/ left = right /\ p[1] < q[1]
     \/ left = right /\ p[1] = q[1] /\ Outranks(p[2], q[2])

\* What the greedy pass over the pairs assigns: a pair is taken unless a
\* better rival was.
Assigned(pairs, detected) ==
  LET all == Candidates(detected)
  IN /\ pairs \subseteq all
     /\ \A p \in all : p \in pairs <=> ~\E q \in pairs : Rivals(p, q) /\ Better(q, p)

\* Slip: only a track that two detections claim is called ambiguous.
AmbiguousForTrackOnly(p, detected) ==
  \E q \in Candidates(detected) : q[1] = p[1] /\ q[2] # p[2]

Ambiguous(p, detected) ==
  \/ \E q \in Candidates(detected) : q[1] = p[1] /\ q[2] # p[2]
  \/ \E q \in Candidates(detected) : q[2] = p[2] /\ q[1] # p[1]

Unassigned(detected, pairs) == {d \in detected : \A p \in pairs : p[2] # d}

\* Slip: numbers go on from the tracks that are left.
NumberingsFromLiving(fresh) ==
  {number \in [fresh -> Cardinality(DOMAIN tracks) + 1 .. Cardinality(DOMAIN tracks) + Cardinality(fresh)] :
     \A d, e \in fresh : Before(d, e) => number[d] < number[e]}

\* Numbers for the detections nobody claimed, in the tracker's order.
Numberings(fresh) ==
  {number \in [fresh -> nextId .. nextId + Cardinality(fresh) - 1] :
     \A d, e \in fresh : Before(d, e) => number[d] < number[e]}

Survives(n, pairs) == tracks[n].missed < MaxMissed \/ \E p \in pairs : p[1] = n

Born(d, at) ==
  [class |-> d.class, box |-> d.box, firstFrame |-> frame, firstAt |-> at, missed |-> 0]

\* The tracks after a frame: continued, missed once more, dropped or new.
TracksAfter(pairs, number, at) ==
  LET old == {n \in DOMAIN tracks : Survives(n, pairs)}
      new == {number[d] : d \in DOMAIN number}
      Of(n) == CHOOSE d \in DOMAIN number : number[d] = n
      Seen(n) == CHOOSE p \in pairs : p[1] = n
  IN [n \in old \union new |->
        IF n \in new THEN Born(Of(n), at)
        ELSE IF \E p \in pairs : p[1] = n
             THEN [tracks[n] EXCEPT !.box = Seen(n)[2].box, !.missed = 0]
             ELSE [tracks[n] EXCEPT !.missed = @ + 1]]

\* TrackedDetection, for a continued and for a new track.
Continued(p, detected, at) ==
  [id |-> p[1], class |-> p[2].class, box |-> p[2].box,
   ageFrames |-> frame - tracks[p[1]].firstFrame + 1,
   ageMs |-> at - tracks[p[1]].firstAt, ambiguous |-> Ambiguous(p, detected)]

\* A new number is not among the candidates' tracks; only several candidate
\* tracks, all claimed by others, make a new identity ambiguous.
Started(d, n, detected) ==
  [id |-> n, class |-> d.class, box |-> d.box, ageFrames |-> 1, ageMs |-> 0,
   ambiguous |-> \E p, q \in Candidates(detected) : p[2] = d /\ q[2] = d /\ p # q]

Tracked(detected, pairs, number, at) ==
  {Continued(p, detected, at) : p \in pairs}
    \union {Started(d, number[d], detected) : d \in DOMAIN number}

-----------------------------------------------------------------------------
(* Zones: evidence_for_box and its rounding on the wire. *)

Wire(box, shared) == RoundDiv(shared * WireSteps, Length(box))

Largest(box, type) ==
  LET shares == {Shared(z.box, box) : z \in {y \in Zones : y.type = type}} \union {0}
  IN CHOOSE s \in shares : \A t \in shares : t <= s

ApproachZone(box) ==
  LET touched == {z \in Zones : z.type = "approach" /\ Shared(z.box, box) > 0}
      Ahead(y, z) == \/ Shared(y.box, box) > Shared(z.box, box)
                     \/ Shared(y.box, box) = Shared(z.box, box) /\ y.id <= z.id
  IN IF touched = {} THEN NoZone
     ELSE (CHOOSE y \in touched : \A z \in touched : Ahead(y, z)).id

\* to_dict: origin and size are rounded on their own.
WireBox(box) == [x |-> RoundDiv(box.l * WireSteps, ImageWidth),
                 w |-> RoundDiv(Length(box) * WireSteps, ImageWidth)]

\* The policy's view of a cat: chosen from the exact ratios.
PolicyTrack(t) ==
  [id |-> t.id, class |-> t.class, box |-> WireBox(t.box), ageMs |-> t.ageMs,
   ambiguous |-> t.ambiguous, behavior |-> "UNKNOWN",
   zone |-> ApproachZone(t.box), noFire |-> Largest(t.box, "no_fire") > 0,
   region |-> [type \in {"approach", "foliage", "soil"} |-> Wire(t.box, Largest(t.box, type))]]

\* The diagnostic view: every zone, rounded.
EvidenceRecord(t) ==
  [track |-> t.id, noFire |-> Wire(t.box, Largest(t.box, "no_fire")),
   overlaps |-> {[zone |-> z.id, type |-> z.type, overlap |-> Wire(t.box, Shared(z.box, t.box))]
                   : z \in Zones}]

ObservationRecord(tracked, at) ==
  [sequence |-> frame, index |-> frame, at |-> at, camera |-> Camera,
   observation |-> <<Camera, frame>>, shape |-> "valid",
   tracks |-> {PolicyTrack(t) : t \in tracked},
   catCount |-> Cardinality({t \in tracked : t.class = "CAT"}),
   person |-> \E t \in tracked : t.class = "PERSON",
   evidence |-> {EvidenceRecord(t) : t \in tracked}]

-----------------------------------------------------------------------------
(* The pipeline: run_pipeline over _CaptureSource or ImageSource. *)

\* A frame's time is computed from its index, not read from a clock.
CapturedAt(index) == RoundDiv(index * TicksPerSecond, Fps)

Init ==
  /\ source \in SourceKinds
  /\ frame = 0
  /\ tracks = <<>>
  /\ nextId = 1
  /\ lines = <<>>
  /\ torn = FALSE
  /\ pipeline = "running"

HasFrame ==
  /\ pipeline = "running"
  /\ frame < (IF source = "image" THEN 1 ELSE MaxFrames)

\* Detect and track one frame: the state the record is built from.
Track(rows, pairs, number) ==
  LET detected == Detections(rows)
      at == CapturedAt(frame)
  IN /\ Assigned(pairs, detected)
     /\ number \in Numberings(Unassigned(detected, pairs))
     /\ tracks' = TracksAfter(pairs, number, at)
     /\ nextId' = nextId + Cardinality(Unassigned(detected, pairs))

RecordOf(rows, pairs, number) ==
  ObservationRecord(Tracked(Detections(rows), pairs, number, CapturedAt(frame)),
                    CapturedAt(frame))

\* What the tracker may do with a frame's rows: the greedy assignment and
\* the numbering are unique, \E only names them.
Associations(rows) ==
  LET detected == Detections(rows)
  IN UNION {{pairs} \X Numberings(Unassigned(detected, pairs)) :
              pairs \in {ps \in SUBSET Candidates(detected) : Assigned(ps, detected)}}

\* One turn of the loop that ends with the flushed line.
EmitFrame(rows) ==
  /\ HasFrame
  /\ \E a \in Associations(rows) :
        /\ Track(rows, a[1], a[2])
        /\ lines' = Append(lines, RecordOf(rows, a[1], a[2]))
  /\ frame' = frame + 1
  /\ UNCHANGED <<source, torn, pipeline>>

\* Every way out of the loop closes the source.
Leave == pipeline' = "ended" /\ source' = "closed"

\* The source ends, the requested frames are written, no first frame comes,
\* the camera stops, or the detector raises.
Stop ==
  /\ pipeline = "running"
  /\ Leave
  /\ UNCHANGED <<frame, tracks, nextId, lines, torn>>

\* Writing or flushing raises, or the process is killed, within a line.
TearLine ==
  /\ HasFrame
  /\ torn' = TRUE
  /\ Leave
  /\ UNCHANGED <<frame, tracks, nextId, lines>>

PerceptionNext ==
  \/ \E rows \in RowSets : EmitFrame(rows)
  \/ Stop
  \/ TearLine

-----------------------------------------------------------------------------
(* Properties. *)

\* A number names one animal's life: wherever it appears, it has the same
\* class and the age counts from the same moment, so a dropped track never
\* lends its number to another one (IouTracker.update).
OneBirthPerIdentity ==
  \A i, j \in DOMAIN lines : \A s \in lines[i].tracks, t \in lines[j].tracks :
    s.id = t.id => /\ s.class = t.class
                   /\ lines[i].at - s.ageMs = lines[j].at - t.ageMs

IsMatching(pairs) == \A p, q \in pairs : ~Rivals(p, q)

\* The assignments some other order of the pairs could have made.
OtherAssignments(detected) ==
  {pairs \in SUBSET Candidates(detected) :
     /\ IsMatching(pairs)
     /\ \A p \in Candidates(detected) \ pairs : \E q \in pairs : Rivals(p, q)}

\* A continued identity that is not reported as ambiguous is forced: every
\* assignment that leaves no candidate pair open gives the same identity.
\* It is not said of a new identity: a detection whose one candidate track
\* went to another detection starts one, without a mark.
UnambiguousIsForced ==
  \A rows \in RowSets : \A a \in Associations(rows) : \A p \in a[1] :
    Ambiguous(p, Detections(rows))
      \/ \A other \in OtherAssignments(Detections(rows)) : p \in other
=============================================================================
