---------------------------- MODULE ShadowProofs ----------------------------
(***************************************************************************)
(* The shadow chain, for every image, network, source, model, clip, stream *)
(* and number of frames.  First the tracker's identities: a number stays   *)
(* with the animal it was given to, and an unambiguous continuation is a   *)
(* forced one.  Then what a published prediction names: each file is read  *)
(* once, and what was checked is what is used.  Last the replay: when it   *)
(* shows a frame, what it shows of a behaviour, what it says of each       *)
(* prediction, and that its own loader accepts what it assembles.          *)
(***************************************************************************)
EXTENDS ShadowChain, SharedLemmas

-----------------------------------------------------------------------------
(* What a frame's detections are. *)

LEMMA DetectionsAreRows ==
  ASSUME NEW rows \in RowSets
  PROVE  /\ IsFiniteSet(Detections(rows))
         /\ \A d \in Detections(rows) :
              d.class \in {"CAT", "PERSON"} /\ d.score \in Int /\ d.index \in Int
         /\ \A d, e \in Detections(rows) : d.index = e.index => d = e
<1> DEFINE confident == {r \in rows : Confident(r) /\ Positive(r.box)}
           visible == {r \in confident \intersect Kept(confident) : Positive(Clipped(r.box))}
           Shown(r) == [r EXCEPT !.box = Clipped(@)]
           show == [r \in visible |-> Shown(r)]
<1>1. Detections(rows) = {Shown(r) : r \in visible}
  BY DEF Detections
<1>2. visible \subseteq rows
  OBVIOUS
<1>3. IsFiniteSet(visible)
  BY <1>2, FS_Subset, RowsAssumption
<1>4. show \in Surjection(visible, Detections(rows))
  BY <1>1 DEF Surjection
<1>5. IsFiniteSet(Detections(rows))
  BY <1>3, <1>4, FS_Surjection
<1>6. \A r \in visible :
        /\ Shown(r).class = r.class /\ Shown(r).score = r.score /\ Shown(r).index = r.index
        /\ r.class \in {"CAT", "PERSON"} /\ r.score \in Int /\ r.index \in Int
  BY <1>2, RowsAssumption DEF Confident
<1>7. \A r, s \in visible : r.index = s.index => r = s
  BY <1>2, RowsAssumption
<1>8. \A d \in Detections(rows) : \E r \in visible :
        /\ d = Shown(r) /\ d.class \in {"CAT", "PERSON"} /\ d.score \in Int
        /\ d.index \in Int /\ d.index = r.index
  <2> HIDE DEF visible, Shown
  <2> QED BY <1>1, <1>6
<1> HIDE DEF visible, Shown
<1> QED BY <1>5, <1>7, <1>8

\* The order of new identities is total on a frame's detections.
LEMMA NumbersAreDistinct ==
  ASSUME NEW rows \in RowSets, NEW fresh \in SUBSET Detections(rows),
         nextId \in Nat, NEW number \in Numberings(fresh)
  PROVE  /\ Cardinality(fresh) \in Nat
         /\ DOMAIN number = fresh
         /\ \A d \in fresh : number[d] \in nextId .. nextId + Cardinality(fresh) - 1
         /\ \A d, e \in fresh : number[d] = number[e] => d = e
<1>1. Cardinality(fresh) \in Nat
  BY DetectionsAreRows, FS_Subset, FS_CardinalityType
<1>2. number \in [fresh -> nextId .. nextId + Cardinality(fresh) - 1]
  BY DEF Numberings
<1>3. \A d, e \in fresh : Before(d, e) => number[d] < number[e]
  BY DEF Numberings
<1>4. \A d, e \in fresh : d # e => Before(d, e) \/ Before(e, d)
  BY DetectionsAreRows DEF Before, Outranks
<1>5. \A d \in fresh : number[d] \in Int
  BY <1>1, <1>2
<1>6. \A d, e \in fresh : number[d] = number[e] => d = e
  BY <1>3, <1>4, <1>5
<1> QED BY <1>1, <1>2, <1>6

-----------------------------------------------------------------------------
(* One frame. *)

IsTrack(t) == t = [class |-> t.class, box |-> t.box, firstFrame |-> t.firstFrame,
                   firstAt |-> t.firstAt, missed |-> t.missed]

\* What a record says of an identity is what the tracker holds of it, and no
\* identity is given out again.
Identities ==
  /\ frame \in Nat /\ nextId \in Nat
  /\ IsSeq(lines)
  /\ \A n \in DOMAIN tracks :
        n \in Nat /\ n < nextId /\ tracks[n].firstAt \in Int /\ IsTrack(tracks[n])
  /\ \A i \in DOMAIN lines : \A t \in lines[i].tracks :
        /\ lines[i].at \in Int /\ t.ageMs \in Int
        /\ t.id \in Nat /\ t.id < nextId
        /\ t.id \in DOMAIN tracks => /\ t.class = tracks[t.id].class
                                     /\ lines[i].at - t.ageMs = tracks[t.id].firstAt

LEMMA CaptureTimes == \A k \in Nat : CapturedAt(k) \in Int
BY ClockAssumption DEF CapturedAt, RoundDiv

\* Of the tracks after a frame, each one is an old one, of the same class and
\* birth, or is born in this frame.
LEMMA TracksGoOn ==
  ASSUME NEW rows \in RowSets, NEW pairs, NEW number, Identities,
         Track(rows, pairs, number)
  PROVE  LET fresh == Unassigned(Detections(rows), pairs)
         IN /\ nextId' \in Nat /\ nextId <= nextId'
            /\ \A d \in fresh : number[d] \in Nat /\ nextId <= number[d] /\ number[d] < nextId'
            /\ \A d, e \in fresh : number[d] = number[e] => d = e
            /\ \A n \in DOMAIN tracks' :
                 \/ /\ n \in DOMAIN tracks /\ n < nextId
                    /\ tracks'[n].class = tracks[n].class
                    /\ tracks'[n].firstAt = tracks[n].firstAt
                    /\ IsTrack(tracks'[n])
                 \/ \E d \in fresh : /\ n = number[d]
                                     /\ tracks'[n].class = d.class
                                     /\ tracks'[n].firstAt = CapturedAt(frame)
                                     /\ IsTrack(tracks'[n])
<1> DEFINE fresh == Unassigned(Detections(rows), pairs)
           at == CapturedAt(frame)
           old == {n \in DOMAIN tracks : Survives(n, pairs)}
           new == {number[d] : d \in DOMAIN number}
           Of(n) == CHOOSE d \in DOMAIN number : number[d] = n
           Seen(n) == CHOOSE p \in pairs : p[1] = n
<1>1. fresh \in SUBSET Detections(rows) /\ number \in Numberings(fresh)
  BY DEF Unassigned, Track
<1>2. /\ Cardinality(fresh) \in Nat /\ DOMAIN number = fresh
      /\ \A d \in fresh : number[d] \in nextId .. nextId + Cardinality(fresh) - 1
      /\ \A d, e \in fresh : number[d] = number[e] => d = e
  <2> HIDE DEF fresh
  <2> QED BY <1>1, NumbersAreDistinct DEF Identities
<1>3. nextId' = nextId + Cardinality(fresh)
  BY DEF Track
<1>4. /\ nextId' \in Nat /\ nextId <= nextId'
      /\ \A d \in fresh : number[d] \in Nat /\ nextId <= number[d] /\ number[d] < nextId'
  <2> HIDE DEF fresh
  <2> QED BY <1>2, <1>3 DEF Identities
<1>5. tracks' = [n \in old \union new |->
        IF n \in new THEN Born(Of(n), at)
        ELSE IF \E p \in pairs : p[1] = n
             THEN [tracks[n] EXCEPT !.box = Seen(n)[2].box, !.missed = 0]
             ELSE [tracks[n] EXCEPT !.missed = @ + 1]]
  BY DEF Track, TracksAfter
<1>6. ASSUME NEW n \in DOMAIN tracks', n \in new
      PROVE  \E d \in fresh : /\ n = number[d]
                              /\ tracks'[n].class = d.class
                              /\ tracks'[n].firstAt = at
                              /\ IsTrack(tracks'[n])
  <2>1. PICK d \in fresh : n = number[d]
    BY <1>2, <1>6
  <2>2. Of(n) = d
    BY <1>2, <2>1
  <2>3. tracks'[n] = Born(d, at)
    BY <1>5, <1>6, <2>2
  <2> QED BY <2>1, <2>3 DEF Born, IsTrack
<1>7. ASSUME NEW n \in DOMAIN tracks', n \notin new
      PROVE  /\ n \in DOMAIN tracks /\ n < nextId
             /\ tracks'[n].class = tracks[n].class
             /\ tracks'[n].firstAt = tracks[n].firstAt
             /\ IsTrack(tracks'[n])
  <2>1. n \in DOMAIN tracks /\ n < nextId /\ IsTrack(tracks[n])
    BY <1>5, <1>7 DEF Identities
  <2>2. \/ tracks'[n] = [tracks[n] EXCEPT !.box = Seen(n)[2].box, !.missed = 0]
        \/ tracks'[n] = [tracks[n] EXCEPT !.missed = @ + 1]
    <3> HIDE DEF Seen, old, new, Of
    <3> QED BY <1>5, <1>7
  <2> HIDE DEF Seen
  <2> QED BY <2>1, <2>2 DEF IsTrack
<1> QED BY <1>2, <1>4, <1>6, <1>7

\* Each track of the record is a continued one, with the tracker's class and
\* birth, or a new one.
LEMMA RecordIsTracked ==
  ASSUME NEW rows \in RowSets, NEW pairs, NEW number, Identities,
         Track(rows, pairs, number),
         NEW t \in RecordOf(rows, pairs, number).tracks
  PROVE  \/ /\ t.id \in DOMAIN tracks
            /\ t.class = tracks[t.id].class
            /\ t.ageMs = CapturedAt(frame) - tracks[t.id].firstAt
         \/ \E d \in Unassigned(Detections(rows), pairs) :
              t.id = number[d] /\ t.class = d.class /\ t.ageMs = 0
<1>1. PICK u \in Tracked(Detections(rows), pairs, number, CapturedAt(frame)) :
        t.id = u.id /\ t.class = u.class /\ t.ageMs = u.ageMs
  BY DEF RecordOf, ObservationRecord, PolicyTrack
<1>2. CASE \E p \in pairs : u = Continued(p, Detections(rows), CapturedAt(frame))
  <2>1. PICK p \in pairs : u = Continued(p, Detections(rows), CapturedAt(frame))
    BY <1>2
  <2>2. p[1] \in DOMAIN tracks /\ tracks[p[1]].class = p[2].class
    BY DEF Track, Assigned, Candidates
  <2> QED BY <1>1, <2>1, <2>2 DEF Continued
<1>3. CASE \E d \in DOMAIN number : u = Started(d, number[d], Detections(rows))
  <2>1. DOMAIN number = Unassigned(Detections(rows), pairs)
    BY DEF Track, Numberings
  <2> QED BY <1>1, <1>3, <2>1 DEF Started
<1> QED BY <1>2, <1>3 DEF Tracked

-----------------------------------------------------------------------------
(* A frame keeps the identities. *)

\* What TracksGoOn and RecordIsTracked say of one step, the new line included.
LEMMA FrameKeepsIdentities ==
  ASSUME Identities, OneBirthPerIdentity, NEW rows \in RowSets, EmitFrame(rows)
  PROVE  Identities' /\ OneBirthPerIdentity'
<1>1. PICK a \in Associations(rows) :
        Track(rows, a[1], a[2]) /\ lines' = Append(lines, RecordOf(rows, a[1], a[2]))
  BY DEF EmitFrame
<1> DEFINE record == RecordOf(rows, a[1], a[2])
           fresh == Unassigned(Detections(rows), a[1])
           at == CapturedAt(frame)
           last == Len(lines) + 1
<1>2. /\ nextId' \in Nat /\ nextId <= nextId'
      /\ \A d \in fresh : a[2][d] \in Nat /\ nextId <= a[2][d] /\ a[2][d] < nextId'
      /\ \A d, e \in fresh : a[2][d] = a[2][e] => d = e
  BY <1>1, TracksGoOn
<1>3. \A n \in DOMAIN tracks' :
        \/ /\ n \in DOMAIN tracks /\ n < nextId
           /\ tracks'[n].class = tracks[n].class
           /\ tracks'[n].firstAt = tracks[n].firstAt
           /\ IsTrack(tracks'[n])
        \/ \E d \in fresh : /\ n = a[2][d]
                            /\ tracks'[n].class = d.class
                            /\ tracks'[n].firstAt = at
                            /\ IsTrack(tracks'[n])
  BY <1>1, TracksGoOn
<1>4. \A t \in record.tracks :
        \/ /\ t.id \in DOMAIN tracks
           /\ t.class = tracks[t.id].class
           /\ t.ageMs = at - tracks[t.id].firstAt
        \/ \E d \in fresh : t.id = a[2][d] /\ t.class = d.class /\ t.ageMs = 0
  BY <1>1, RecordIsTracked
<1>5. at \in Int /\ record.at = at
  BY CaptureTimes DEF Identities, RecordOf, ObservationRecord
<1>6. /\ IsSeq(lines') /\ DOMAIN lines = 1 .. Len(lines) /\ Len(lines) \in Nat
      /\ DOMAIN lines' = 1 .. last
      /\ \A i \in DOMAIN lines : lines'[i] = lines[i]
      /\ lines'[last] = record
  <2>1. lines' = Append(lines, record) /\ IsSeq(lines)
    BY <1>1 DEF Identities
  <2> HIDE DEF record
  <2> QED BY <2>1, AppendOne
<1> HIDE DEF record, fresh, at, last
<1>7. \A i \in DOMAIN lines' : i \in DOMAIN lines \/ i = last
  BY <1>6 DEF last
\* An identity of an earlier line is old, and the tracker keeps it as it was.
<1>8. ASSUME NEW i \in DOMAIN lines, NEW t \in lines[i].tracks
      PROVE  /\ lines'[i].at \in Int /\ t.ageMs \in Int /\ t.id \in Nat /\ t.id < nextId
             /\ t.id \in DOMAIN tracks' => /\ t.class = tracks'[t.id].class
                                           /\ lines'[i].at - t.ageMs = tracks'[t.id].firstAt
  <2>1. /\ lines[i].at \in Int /\ t.ageMs \in Int /\ t.id \in Nat /\ t.id < nextId
        /\ t.id \in DOMAIN tracks => /\ t.class = tracks[t.id].class
                                     /\ lines[i].at - t.ageMs = tracks[t.id].firstAt
    BY <1>8 DEF Identities
  <2>2. \A d \in fresh : t.id # a[2][d]
    BY <1>2, <2>1 DEF Identities
  <2> QED BY <1>3, <1>6, <1>8, <2>1, <2>2
\* So is a continued one; a new one is born in this frame.
<1>9. ASSUME NEW t \in record.tracks
      PROVE  /\ t.ageMs \in Int /\ t.id \in Nat /\ t.id < nextId'
             /\ t.id \in DOMAIN tracks' => /\ t.class = tracks'[t.id].class
                                           /\ at - t.ageMs = tracks'[t.id].firstAt
  <2>1. CASE /\ t.id \in DOMAIN tracks /\ t.class = tracks[t.id].class
             /\ t.ageMs = at - tracks[t.id].firstAt
    <3>1. t.id \in Nat /\ t.id < nextId /\ tracks[t.id].firstAt \in Int
      BY <2>1 DEF Identities
    <3>2. \A d \in fresh : t.id # a[2][d]
      BY <1>2, <3>1 DEF Identities
    <3>3. t.id \in DOMAIN tracks' => /\ tracks'[t.id].class = tracks[t.id].class
                                    /\ tracks'[t.id].firstAt = tracks[t.id].firstAt
      BY <1>3, <3>2
    <3> QED BY <1>2, <1>5, <2>1, <3>1, <3>3 DEF Identities
  <2>2. CASE \E d \in fresh : t.id = a[2][d] /\ t.class = d.class /\ t.ageMs = 0
    <3>1. PICK d \in fresh : t.id = a[2][d] /\ t.class = d.class /\ t.ageMs = 0
      BY <2>2
    <3>2. t.id \in DOMAIN tracks' => /\ tracks'[t.id].class = d.class
                                    /\ tracks'[t.id].firstAt = at
      BY <1>2, <1>3, <3>1 DEF Identities
    <3> QED BY <1>2, <1>5, <3>1, <3>2
  <2> QED BY <1>4, <2>1, <2>2
<1>10. Identities'
  <2>1. frame' \in Nat
    BY DEF EmitFrame, Identities
  <2>2. \A n \in DOMAIN tracks' :
          n \in Nat /\ n < nextId' /\ tracks'[n].firstAt \in Int /\ IsTrack(tracks'[n])
    BY <1>2, <1>3, <1>5 DEF Identities
  <2>3. \A i \in DOMAIN lines' : \A t \in lines'[i].tracks :
          /\ lines'[i].at \in Int /\ t.ageMs \in Int
          /\ t.id \in Nat /\ t.id < nextId'
          /\ t.id \in DOMAIN tracks' => /\ t.class = tracks'[t.id].class
                                        /\ lines'[i].at - t.ageMs = tracks'[t.id].firstAt
    BY <1>2, <1>5, <1>6, <1>7, <1>8, <1>9 DEF Identities
  <2> QED BY <1>2, <1>6, <2>1, <2>2, <2>3 DEF Identities, IsTrack
<1>11. OneBirthPerIdentity'
  <2>1. ASSUME NEW i \in DOMAIN lines, NEW s \in lines[i].tracks, NEW t \in record.tracks,
               s.id = t.id
        PROVE  s.class = t.class /\ lines[i].at - s.ageMs = at - t.ageMs
    <3>1. s.id \in Nat /\ s.id < nextId
      BY <1>8
    <3>2. /\ t.id \in DOMAIN tracks /\ t.class = tracks[t.id].class
          /\ t.ageMs = at - tracks[t.id].firstAt
      BY <1>2, <1>4, <2>1, <3>1 DEF Identities
    <3>3. /\ s.class = tracks[t.id].class /\ lines[i].at - s.ageMs = tracks[t.id].firstAt
          /\ tracks[t.id].firstAt \in Int
      BY <2>1, <3>2 DEF Identities
    <3> QED BY <1>5, <3>2, <3>3
  <2>2. ASSUME NEW s \in record.tracks, NEW t \in record.tracks, s.id = t.id
        PROVE  s.class = t.class /\ at - s.ageMs = at - t.ageMs
    <3>1. s.id \in DOMAIN tracks => s.id < nextId /\ s.id \in Nat
      BY DEF Identities
    <3> QED BY <1>2, <1>4, <2>2, <3>1 DEF Identities
  <2>3. \A i, j \in DOMAIN lines : \A s \in lines[i].tracks, t \in lines[j].tracks :
          s.id = t.id => s.class = t.class /\ lines[i].at - s.ageMs = lines[j].at - t.ageMs
    BY DEF OneBirthPerIdentity
  <2> QED BY <1>5, <1>6, <1>7, <2>1, <2>2, <2>3 DEF OneBirthPerIdentity
<1> QED BY <1>10, <1>11

LEMMA OtherStepsKeepIdentities ==
  ASSUME Identities, OneBirthPerIdentity, UNCHANGED <<frame, tracks, nextId, lines>>
  PROVE  Identities' /\ OneBirthPerIdentity'
BY DEF Identities, OneBirthPerIdentity, IsTrack, IsSeq

LEMMA StepKeepsIdentities ==
  Identities /\ OneBirthPerIdentity /\ [Next]_chainVars => Identities' /\ OneBirthPerIdentity'
<1> SUFFICES ASSUME Identities, OneBirthPerIdentity, [Next]_chainVars
             PROVE  Identities' /\ OneBirthPerIdentity'
  OBVIOUS
<1>1. CASE \E rows \in RowSets : EmitFrame(rows)
  BY <1>1, FrameKeepsIdentities
<1>2. CASE UNCHANGED perceptionVars
  BY <1>2, OtherStepsKeepIdentities DEF perceptionVars
<1>3. CASE Stop \/ TearLine
  BY <1>3, OtherStepsKeepIdentities DEF Stop, TearLine, HasFrame
<1>4. \/ \E rows \in RowSets : EmitFrame(rows)
      \/ UNCHANGED perceptionVars
      \/ Stop \/ TearLine
  BY DEF Next, chainVars, PerceptionNext, HandOver, AskForSelected, AskForAll, Inferring,
         DeliverPredictions, AnswerElsewhere, BeginReplay, RejectReplay, Replaying
<1> QED BY <1>1, <1>2, <1>3, <1>4

\* A number names one animal's life, in every record of every run
\* (IouTracker.update): numbers are never given out again and ages count from
\* the birth that the tracker remembers.
THEOREM IdentitiesAreNeverReused == Spec => []OneBirthPerIdentity
<1>1. ChainInit => Identities /\ OneBirthPerIdentity
  BY EmptySeq DEF ChainInit, Init, Identities, OneBirthPerIdentity, IsSeq
<1> QED BY <1>1, StepKeepsIdentities, PTL DEF Spec

\* Whoever leaves the order of the pairs open still gets every continuation
\* that is not marked ambiguous: no rival pair is there to displace it.
THEOREM UnambiguousIsAlwaysForced == Spec => []UnambiguousIsForced
<1>1. UnambiguousIsForced
  <2> SUFFICES ASSUME NEW rows \in RowSets, NEW a \in Associations(rows), NEW p \in a[1],
                      ~Ambiguous(p, Detections(rows)),
                      NEW other \in OtherAssignments(Detections(rows)), p \notin other
               PROVE  FALSE
    BY DEF UnambiguousIsForced
  <2>1. p \in Candidates(Detections(rows))
    BY DEF Associations, Assigned
  <2>2. PICK q \in other : Rivals(p, q)
    BY <2>1 DEF OtherAssignments
  <2>3. q \in Candidates(Detections(rows))
    BY DEF OtherAssignments
  <2>4. p = <<p[1], p[2]>> /\ q = <<q[1], q[2]>>
    BY <2>1, <2>3 DEF Candidates
  <2> QED BY <2>2, <2>3, <2>4 DEF Rivals, Ambiguous
<1> QED BY <1>1, PTL

-----------------------------------------------------------------------------
(* What the command holds while it infers. *)

\* An answer was computed by the model it names and from the clip that its
\* request names.
Names(answer, request) ==
  /\ answer.by = ExpectedModel /\ answer.model = ExpectedModel
  /\ answer.from = request.clip

\* Up to its publication the output is not there; the model that was verified
\* is the one in memory, and no answer comes before it.
Evidence ==
  /\ IsSeq(answers)
  /\ infer # "done" => predictions = Nothing
  /\ infer \in {"idle", "reading", "bound", "hashed", "verified"} => answers = <<>>
  /\ infer \in {"verified", "inferring"} => held = ExpectedModel
  /\ infer = "inferring" => session = ExpectedModel
  /\ \A i \in DOMAIN answers : Names(answers[i], requests[i])
  /\ predictions # Nothing => predictions = answers

LEMMA NoAnswers == IsSeq(<<>>) /\ DOMAIN <<>> = {}
BY EmptySeq DEF IsSeq

-----------------------------------------------------------------------------
(* The steps. *)

\* A manifest replaces another one only while nothing is answered.
LEMMA StartingIsClean ==
  ASSUME Evidence, NEW stream, NEW manifest, NEW clips,
         StartInference(stream, manifest, clips)
  PROVE  Evidence'
<1>1. answers = <<>> /\ answers' = <<>> /\ DOMAIN answers' = {} /\ IsSeq(answers')
  BY NoAnswers DEF Evidence, StartInference
<1> QED BY <1>1 DEF Evidence, StartInference

\* One more answer: by the session, from the bytes whose hash was compared.
LEMMA AnswerNamesItsEvidence ==
  ASSUME Evidence, InferOne
  PROVE  Evidence'
<1> DEFINE r == requests[Len(answers) + 1]
<1>1. PICK probs \in NetProbabilities :
        /\ Loads(r, clipFile[r.key])
        /\ answers' = Append(answers, Answer(r, clipFile[r.key], probs))
  BY DEF InferOne
<1> DEFINE answer == Answer(r, clipFile[r.key], probs)
<1>2. Names(answer, r)
  BY <1>1 DEF Evidence, InferOne, Answer, Names, Loads
<1>3. answers' = Append(answers, answer) /\ IsSeq(answers)
  BY <1>1 DEF Evidence
<1> HIDE DEF answer
<1>4. /\ IsSeq(answers') /\ Len(answers) \in Nat /\ DOMAIN answers = 1 .. Len(answers)
      /\ DOMAIN answers' = 1 .. Len(answers) + 1
      /\ \A i \in 1 .. Len(answers) : answers'[i] = answers[i]
      /\ answers'[Len(answers) + 1] = answer
  BY <1>3, AppendOne
<1>5. \A i \in DOMAIN answers' : Names(answers'[i], requests[i])
  BY <1>2, <1>4 DEF Evidence
<1>6. /\ requests' = requests /\ infer = "inferring" /\ infer' = "inferring"
      /\ held' = held /\ session' = session /\ predictions' = predictions
  BY DEF InferOne
<1> QED BY <1>4, <1>5, <1>6 DEF Evidence, Names

\* The checks before the first answer, the publication, an abort, and whatever
\* somebody does to the files.
LEMMA OtherInferenceSteps ==
  ASSUME Evidence,
         \/ BindRequests \/ ReadModel \/ AcceptSidecar \/ BuildSession
         \/ Publish \/ StopInference
         \/ ReplaceModel \/ ReplaceSidecar \/ ReplaceClip
  PROVE  Evidence'
<1>1. answers' = answers /\ requests' = requests
  BY DEF BindRequests, ReadModel, AcceptSidecar, BuildSession, Publish, StopInference,
         ReplaceModel, ReplaceSidecar, ReplaceClip
<1>2. /\ IsSeq(answers')
      /\ \A i \in DOMAIN answers' : Names(answers'[i], requests'[i])
  BY <1>1 DEF Evidence, Names
<1>3. CASE BindRequests \/ ReadModel
  BY <1>1, <1>2, <1>3 DEF Evidence, BindRequests, ReadModel, disk, Names
<1>4. CASE AcceptSidecar \/ BuildSession
  BY <1>1, <1>2, <1>4 DEF Evidence, AcceptSidecar, BuildSession, disk, Names
<1>5. CASE Publish \/ StopInference
  BY <1>1, <1>2, <1>5 DEF Evidence, Publish, StopInference, disk, Names
<1>6. CASE ReplaceModel \/ ReplaceSidecar \/ ReplaceClip
  BY <1>1, <1>2, <1>6 DEF Evidence, ReplaceModel, ReplaceSidecar, ReplaceClip, Names
<1> QED BY <1>3, <1>4, <1>5, <1>6

LEMMA StepKeepsEvidence == Evidence /\ [Next]_chainVars => Evidence'
<1> SUFFICES ASSUME Evidence, [Next]_chainVars PROVE Evidence'
  OBVIOUS
<1>1. CASE \E stream, manifest, clips : StartInference(stream, manifest, clips)
  BY <1>1, StartingIsClean
<1>2. CASE InferenceNext
  BY <1>2, AnswerNamesItsEvidence, OtherInferenceSteps DEF InferenceNext
<1>3. CASE UNCHANGED inferenceVars
  BY <1>3 DEF Evidence, inferenceVars, Names, IsSeq
<1>4. \/ \E stream, manifest, clips : StartInference(stream, manifest, clips)
      \/ InferenceNext
      \/ UNCHANGED inferenceVars
  BY DEF Next, chainVars, Perceiving, HandOver, AskForSelected, AskForAll, Ask,
         DeliverPredictions, AnswerElsewhere, BeginReplay, RejectReplay, Replaying
<1> QED BY <1>1, <1>2, <1>3, <1>4

-----------------------------------------------------------------------------

\* Whatever is done to the model, its sidecar and the clips while the command
\* runs, a published prediction was computed by the expected model, which it
\* names, from the bytes its request names (infer_behavior_predictions).
THEOREM PredictionsAlwaysNameTheirEvidence == Spec => []PredictionsNameTheirEvidence
<1>1. ChainInit => Evidence
  BY NoAnswers DEF ChainInit, Idle, Evidence
<1>2. Evidence => PredictionsNameTheirEvidence
  BY DEF Evidence, PredictionsNameTheirEvidence, Names
<1> QED BY <1>1, <1>2, StepKeepsEvidence, PTL DEF Spec

-----------------------------------------------------------------------------
(* The perception file stays a sequence on its way. *)

\* A line lost, repeated or exchanged leaves at most one line more.
LEMMA OnTheWayIsSeq ==
  ASSUME NEW s, IsSeq(s), NEW r \in OnTheWay(s)
  PROVE  IsSeq(r) /\ Len(r) <= Len(s) + 1
<1>1. PICK S : s \in Seq(S)
  BY DEF IsSeq
<1>2. Len(s) \in Nat /\ DOMAIN s = 1 .. Len(s) /\ \A i \in 1 .. Len(s) : s[i] \in S
  BY <1>1, LenProperties, ElementOfSeq
<1>3. ASSUME NEW m \in 1 .. Len(s) + 1, NEW n \in 0 .. Len(s)
      PROVE  /\ SubSeq(s, m, n) \in Seq(S)
             /\ Len(SubSeq(s, m, n)) = IF m <= n THEN n - m + 1 ELSE 0
  <2>1. \A i \in m .. n : s[i] \in S
    BY <1>2, <1>3
  <2> QED BY <1>2, <1>3, <2>1, SubSeqProperties
<1>4. CASE r = s
  BY <1>2, <1>4 DEF IsSeq
<1>5. CASE \E i \in DOMAIN s : r = RemoveAt(s, i)
  <2>1. PICK i \in DOMAIN s : r = RemoveAt(s, i)
    BY <1>5
  <2> DEFINE a == SubSeq(s, 1, i - 1)
             b == SubSeq(s, i + 1, Len(s))
  <2>2. /\ a \in Seq(S) /\ Len(a) = i - 1 /\ b \in Seq(S) /\ Len(b) = Len(s) - i
    BY <1>2, <1>3
  <2>3. r = a \o b
    BY <2>1 DEF RemoveAt
  <2> HIDE DEF a, b
  <2> QED BY <1>2, <2>2, <2>3, ConcatProperties DEF IsSeq
<1>6. CASE \E i \in DOMAIN s : r = InsertAt(s, i, s[i])
  <2>1. PICK i \in DOMAIN s : r = InsertAt(s, i, s[i])
    BY <1>6
  <2> DEFINE a == SubSeq(s, 1, i - 1)
             b == SubSeq(s, i, Len(s))
             e == <<s[i]>>
  <2>2. /\ a \in Seq(S) /\ Len(a) = i - 1 /\ b \in Seq(S) /\ Len(b) = Len(s) - i + 1
    BY <1>2, <1>3
  <2>3. e \in Seq(S) /\ Len(e) = 1
    BY <1>2
  <2>4. r = (a \o e) \o b
    BY <2>1 DEF InsertAt
  <2> HIDE DEF a, b, e
  <2>5. a \o e \in Seq(S) /\ Len(a \o e) = Len(a) + Len(e)
    BY <2>2, <2>3, ConcatProperties
  <2>6. r \in Seq(S) /\ Len(r) = Len(a \o e) + Len(b)
    BY <2>2, <2>4, <2>5, ConcatProperties
  <2>7. Len(r) <= Len(s) + 1
    <3>1. i \in 1 .. Len(s)
      BY <1>2
    <3>2. Len(r) = (i - 1) + 1 + (Len(s) - i + 1)
      BY <2>2, <2>3, <2>5, <2>6
    <3> QED BY <1>2, <3>1, <3>2
  <2> QED BY <2>6, <2>7 DEF IsSeq
<1>7. CASE \E i \in 1 .. Len(s) - 1 : r = Swapped(s, i)
  <2>1. PICK i \in 1 .. Len(s) - 1 : r = Swapped(s, i)
    BY <1>7
  <2>2. i \in 1 .. Len(s) /\ i + 1 \in 1 .. Len(s) /\ s[i] \in S /\ s[i + 1] \in S
    BY <1>2
  <2> DEFINE once == [s EXCEPT ![i] = s[i + 1]]
  <2>3. once \in Seq(S) /\ Len(once) = Len(s)
    BY <1>1, <2>2, ExceptSeq
  <2>4. Swapped(s, i) = [once EXCEPT ![i + 1] = s[i]]
    BY DEF Swapped
  <2> HIDE DEF once
  <2>5. Swapped(s, i) \in Seq(S) /\ Len(Swapped(s, i)) = Len(s)
    BY <2>2, <2>3, <2>4, ExceptSeq
  <2> QED BY <1>2, <2>1, <2>5 DEF IsSeq
<1> QED BY <1>4, <1>5, <1>6, <1>7 DEF OnTheWay

-----------------------------------------------------------------------------
(* What the loop over the records keeps. *)

\* The streams are what their contracts accept.
Streams ==
  /\ IsSeq(given)
  /\ \A i \in DOMAIN given : given[i].at \in Nat
  /\ \A k \in DOMAIN told : told[k].at \in Nat /\ told[k].predictedAt \in Nat
  /\ OrderedObservations(given)

\* The frame of a record is shown no earlier than the record and no later than
\* the timeout, and what it says of a behaviour is known by then.
Shows(f, record) ==
  /\ f.observation = record.observation /\ f.at = record.at
  /\ f.deliverAt \in Int
  /\ record.at <= f.deliverAt /\ f.deliverAt <= record.at + Timeout
  /\ \A t \in f.tracks : t.behavior # "UNKNOWN" =>
       \E k \in DOMAIN told :
         /\ told[k].key = <<record.observation, t.id>>
         /\ told[k].at = record.at
         /\ told[k].predictedAt <= f.deliverAt
         /\ PolicyLabel(told[k].label) = t.behavior

\* The frames are the first records', in order, and no record that is still to
\* come is made to wait past its own timeout.
Fused ==
  /\ IsSeq(frames) /\ previousDelivery \in Int
  /\ \A i \in DOMAIN frames :
       i \in DOMAIN given /\ Shows(frames[i], given[i]) /\ frames[i].deliverAt <= previousDelivery
  /\ \A i, j \in DOMAIN frames : i < j => frames[i].deliverAt <= frames[j].deliverAt
  /\ \A i \in DOMAIN given : i > Len(frames) => previousDelivery <= given[i].at + Timeout

FusionInv ==
  /\ IsSeq(lines)
  /\ handed # Absent => IsSeq(handed.records)
  /\ Streams /\ Fused
  /\ replay = "idle" => frames = <<>> /\ previousDelivery = 0

\* A cat whose prediction counts waits for it, everything else at most for the
\* timeout.
LEMMA WaitsEnd ==
  ASSUME Streams, NEW record, record.at \in Nat, NEW at \in Waits(record)
  PROVE  at \in Int /\ at <= record.at + Timeout
<1>1. Timeout \in Nat
  BY FusionAssumption
<1>2. CASE at = record.at
  BY <1>1, <1>2
<1>3. CASE \E t \in Cats(record) : at = Deadline(record, t)
  <2>1. PICK t \in Cats(record) : at = Deadline(record, t)
    BY <1>3
  <2>2. CASE Status(record, t) \in {"LATE", "FUSED"}
    <3>1. Predicted(KeyOf(record, t)) /\ ~(Latency(record, t) > Timeout)
      BY <2>2 DEF Status
    <3>2. PredictionOf(KeyOf(record, t)).predictedAt \in Nat
      BY <3>1 DEF Predicted, PredictionOf, Streams
    <3>3. at = PredictionOf(KeyOf(record, t)).predictedAt
      BY <2>1, <2>2 DEF Deadline
    <3> QED BY <1>1, <3>1, <3>2, <3>3 DEF Latency
  <2>3. CASE Status(record, t) \notin {"LATE", "FUSED"}
    BY <1>1, <2>1, <2>3 DEF Deadline
  <2> QED BY <2>2, <2>3
<1> QED BY <1>2, <1>3 DEF Waits

\* What is fused was predicted for this very track and capture.
LEMMA BehaviorIsPredicted ==
  ASSUME NEW record, NEW u \in record.tracks,
         FusedTrack(record, u).behavior # "UNKNOWN"
  PROVE  /\ u \in Cats(record)
         /\ Deadline(record, u) = PredictionOf(KeyOf(record, u)).predictedAt
         /\ \E k \in DOMAIN told :
              /\ told[k] = PredictionOf(KeyOf(record, u))
              /\ told[k].key = <<record.observation, u.id>>
              /\ told[k].at = record.at
              /\ PolicyLabel(told[k].label) = FusedTrack(record, u).behavior
<1>1. u.class = "CAT" /\ Status(record, u) = "FUSED"
  BY DEF FusedTrack, FusedBehavior
<1>2. /\ Predicted(KeyOf(record, u))
      /\ PredictionOf(KeyOf(record, u)).at = record.at
  BY <1>1 DEF Status
<1>3. FusedTrack(record, u).behavior = PolicyLabel(PredictionOf(KeyOf(record, u)).label)
  BY <1>1 DEF FusedTrack, FusedBehavior
<1>4. PICK k \in DOMAIN told :
        told[k].key = KeyOf(record, u) /\ told[k] = PredictionOf(KeyOf(record, u))
  BY <1>2 DEF Predicted, PredictionOf
<1> QED BY <1>1, <1>2, <1>3, <1>4 DEF Cats, Deadline, KeyOf

-----------------------------------------------------------------------------
(* The steps. *)

LEMMA SafeIntegersAreNat == \A n \in SafeInteger : n \in Nat
BY WireAssumption DEF SafeInteger

LEMMA StartIsFresh ==
  ASSUME FusionInv, NEW perceptions, NEW behavior, StartReplay(perceptions, behavior),
         IsSeq(perceptions.records)
  PROVE  Streams' /\ Fused' /\ replay' # "idle"
<1>1. /\ frames' = <<>> /\ previousDelivery' = 0 /\ replay' = "parsed"
      /\ given' = perceptions.records /\ told' = behavior.records
  BY DEF StartReplay, FusionInv
<1>2. \A i \in DOMAIN given' : given'[i].at \in Nat
  BY <1>1, SafeIntegersAreNat DEF StartReplay, ValidPerceptions, ValidObservation
<1>3. \A k \in DOMAIN told' : told'[k].at \in Nat /\ told'[k].predictedAt \in Nat
  BY <1>1, SafeIntegersAreNat DEF StartReplay, ValidPredictions, ValidPrediction
<1>4. OrderedObservations(given')
  BY <1>1 DEF StartReplay, ValidPerceptions
<1>5. IsSeq(<<>>) /\ DOMAIN <<>> = {}
  BY EmptySeq DEF IsSeq
<1>6. Streams'
  BY <1>1, <1>2, <1>3, <1>4 DEF Streams, OrderedObservations, IsSeq
<1>7. Timeout \in Nat
  BY FusionAssumption
<1>8. IsSeq(frames') /\ DOMAIN frames' = {}
  BY <1>1, <1>5
<1>9. \A i \in DOMAIN given' : previousDelivery' <= given'[i].at + Timeout
  BY <1>1, <1>2, <1>7
<1> QED BY <1>1, <1>6, <1>8, <1>9 DEF Fused, IsSeq

LEMMA FusingKeepsOrder ==
  ASSUME Streams, Fused, FuseOne
  PROVE  Fused'
<1> DEFINE last == Len(frames) + 1
           record == given[last]
<1>1. PICK at \in DeliveryTimes(record) :
        /\ Latest(at, DeliveryTimes(record))
        /\ frames' = Append(frames,
             [deliverAt |-> at, at |-> record.at, sequence |-> record.sequence,
              observation |-> record.observation, camera |-> record.camera,
              tracks |-> {FusedTrack(record, t) : t \in record.tracks}])
        /\ previousDelivery' = at
  BY DEF FuseOne
<1> DEFINE f == [deliverAt |-> at, at |-> record.at, sequence |-> record.sequence,
                 observation |-> record.observation, camera |-> record.camera,
                 tracks |-> {FusedTrack(record, t) : t \in record.tracks}]
<1>2. Len(frames) \in Nat /\ last \in DOMAIN given /\ record.at \in Nat
  <2>1. PICK S : given \in Seq(S)
    BY DEF Streams, IsSeq
  <2>2. Len(given) \in Nat /\ DOMAIN given = 1 .. Len(given)
    BY <2>1, LenProperties
  <2>3. Len(frames) \in Nat
    BY AppendOne DEF Fused
  <2>4. last \in DOMAIN given
    BY <2>2, <2>3 DEF FuseOne
  <2> QED BY <2>3, <2>4 DEF Streams
<1>3. \A e \in DeliveryTimes(record) : e \in Int /\ e <= record.at + Timeout
  <2> HIDE DEF record
  <2>1. previousDelivery \in Int /\ previousDelivery <= record.at + Timeout
    BY <1>2 DEF Fused, record
  <2> QED BY <1>2, <2>1, WaitsEnd DEF DeliveryTimes
<1>4. /\ at \in Int /\ record.at <= at /\ at <= record.at + Timeout /\ previousDelivery <= at
      /\ \A t \in Cats(record) : Deadline(record, t) <= at
  BY <1>1, <1>3 DEF Latest, DeliveryTimes, Waits
<1>5. Shows(f, record)
  <2>1. ASSUME NEW t \in f.tracks, t.behavior # "UNKNOWN"
        PROVE  \E k \in DOMAIN told :
                 /\ told[k].key = <<record.observation, t.id>>
                 /\ told[k].at = record.at
                 /\ told[k].predictedAt <= at
                 /\ PolicyLabel(told[k].label) = t.behavior
    <3>1. PICK u \in record.tracks : t = FusedTrack(record, u)
      BY DEF FusedTrack
    <3>2. t.id = u.id
      BY <3>1 DEF FusedTrack
    <3> HIDE DEF record
    <3> QED BY <1>4, <2>1, <3>1, <3>2, BehaviorIsPredicted
  <2> QED BY <1>4, <2>1 DEF Shows
<1> HIDE DEF f
<1>6. frames' = Append(frames, f) /\ IsSeq(frames)
  BY <1>1 DEF f, Fused
<1>7. f.deliverAt = at
  BY DEF f
<1>8. /\ IsSeq(frames') /\ DOMAIN frames = 1 .. Len(frames)
      /\ Len(frames') = last /\ DOMAIN frames' = 1 .. last
      /\ \A i \in DOMAIN frames : frames'[i] = frames[i]
      /\ frames'[last] = f
  BY <1>6, AppendOne
<1>9. given' = given /\ told' = told
  BY DEF FuseOne
<1> HIDE DEF record
<1>10. \A i \in DOMAIN frames' :
         i \in DOMAIN given /\ Shows(frames'[i], given[i]) /\ frames'[i].deliverAt <= at
  <2>1. ASSUME NEW i \in DOMAIN frames
        PROVE  i \in DOMAIN given /\ Shows(frames'[i], given[i]) /\ frames'[i].deliverAt <= at
    <3>1. /\ i \in DOMAIN given /\ Shows(frames[i], given[i])
          /\ frames[i].deliverAt <= previousDelivery /\ frames[i].deliverAt \in Int
      BY DEF Fused, Shows
    <3> QED BY <1>4, <1>8, <3>1 DEF Fused
  <2>2. \A i : i \in DOMAIN frames' => i \in DOMAIN frames \/ i = last
    BY <1>2, <1>8
  <2> QED BY <1>2, <1>4, <1>5, <1>7, <1>8, <2>1 DEF record
<1>11. \A i, j \in DOMAIN frames' : i < j => frames'[i].deliverAt <= frames'[j].deliverAt
  <2>1. ASSUME NEW i \in DOMAIN frames', NEW j \in DOMAIN frames', i < j
        PROVE  frames'[i].deliverAt <= frames'[j].deliverAt
    <3>1. CASE j \in DOMAIN frames
      <4>1. i \in DOMAIN frames
        BY <1>2, <1>8, <2>1, <3>1
      <4> QED BY <1>8, <2>1, <3>1, <4>1 DEF Fused
    <3>2. CASE j = last
      BY <1>7, <1>8, <1>10, <3>2
    <3> QED BY <1>2, <1>8, <3>1, <3>2
  <2> QED BY <2>1
<1>12. \A i \in DOMAIN given : i > last => at <= given[i].at + Timeout
  <2>1. ASSUME NEW i \in DOMAIN given, i > last
        PROVE  at <= given[i].at + Timeout
    <3>1. given[last].at <= given[i].at
      BY <1>2, <2>1 DEF Streams, OrderedObservations
    <3>2. given[i].at \in Nat /\ Timeout \in Nat
      BY FusionAssumption DEF Streams
    <3> QED BY <1>2, <1>4, <3>1, <3>2 DEF record
  <2> QED BY <2>1
<1>13. \A i \in DOMAIN frames' : Shows(frames[i], given[i])'
  BY <1>9, <1>10 DEF Shows, PolicyLabel
<1> QED BY <1>1, <1>4, <1>8, <1>9, <1>10, <1>11, <1>12, <1>13 DEF Fused

LEMMA OthersKeepFusion ==
  ASSUME Streams, Fused, UNCHANGED <<given, told, frames, previousDelivery>>
  PROVE  Streams' /\ Fused'
<1>1. Streams'
  BY DEF Streams, IsSeq, OrderedObservations
<1>2. \A i \in DOMAIN frames : Shows(frames[i], given[i]) => Shows(frames[i], given[i])'
  BY DEF Shows, PolicyLabel
<1> QED BY <1>1, <1>2 DEF Fused, IsSeq

LEMMA StepKeepsFusion == Identities /\ Identities' /\ FusionInv /\ [Next]_chainVars => FusionInv'
<1> SUFFICES ASSUME Identities, Identities', FusionInv, [Next]_chainVars PROVE FusionInv'
  OBVIOUS
<1>1. IsSeq(lines')
  BY DEF Identities
<1>2. handed' # Absent => IsSeq(handed'.records)
  <2>1. CASE HandOver
    <3>1. PICK r \in OnTheWay(lines) : handed' = [records |-> r, torn |-> torn]
      BY <2>1 DEF HandOver
    <3>2. IsSeq(r)
      BY OnTheWayIsSeq DEF FusionInv
    <3> QED BY <3>1, <3>2
  <2>2. CASE handed' = handed
    BY <2>2 DEF FusionInv
  <2>3. HandOver \/ handed' = handed
    BY DEF Next, chainVars, Perceiving, AskForSelected, AskForAll, Inferring,
           DeliverPredictions, AnswerElsewhere, BeginReplay, RejectReplay, Replaying
  <2> QED BY <2>1, <2>2, <2>3
<1>3. /\ Streams' /\ Fused'
      /\ replay' = "idle" => frames' = <<>> /\ previousDelivery' = 0
  <2>1. CASE BeginReplay
    BY <2>1, StartIsFresh DEF BeginReplay, FusionInv
  <2>2. CASE FuseOne
    <3>1. given' = given /\ told' = told /\ replay' = replay /\ replay = "fusing"
      BY <2>2 DEF FuseOne
    <3>2. Streams'
      BY <3>1 DEF FusionInv, Streams, IsSeq, OrderedObservations
    <3> QED BY <2>2, <3>1, <3>2, FusingKeepsOrder DEF FusionInv
  <2>3. CASE /\ UNCHANGED <<given, told, frames, previousDelivery>>
             /\ replay' = "idle" => replay = "idle"
    BY <2>3, OthersKeepFusion DEF FusionInv
  <2>4. CASE RejectReplay
    BY <2>4, <2>3 DEF RejectReplay, RejectStreams
  <2>5. CASE FusionNext
    BY <2>5, <2>2, <2>3 DEF FusionNext, CheckConfig, Assemble, Simulate, WriteOutput,
                            StopReplay, EditConfig
  <2>6. CASE UNCHANGED fusionVars
    BY <2>6, <2>3 DEF fusionVars
  <2> QED BY <2>1, <2>4, <2>5, <2>6
          DEF Next, chainVars, Perceiving, HandOver, AskForSelected, AskForAll, Inferring,
              DeliverPredictions, AnswerElsewhere
<1> QED BY <1>1, <1>2, <1>3 DEF FusionInv

-----------------------------------------------------------------------------
(* The theorems. *)

LEMMA FusionInvHolds == Spec => []FusionInv
<1>1. ChainInit => FusionInv
  <2>1. IsSeq(<<>>) /\ DOMAIN <<>> = {}
    BY EmptySeq DEF IsSeq
  <2> QED BY <2>1 DEF ChainInit, Init, ReplayIdle, FusionInv, Streams, Fused, OrderedObservations
<1>2. ChainInit => Identities /\ OneBirthPerIdentity
  BY EmptySeq DEF ChainInit, Init, Identities, OneBirthPerIdentity, IsSeq
<1> QED BY <1>1, <1>2, StepKeepsIdentities, StepKeepsFusion, PTL DEF Spec

\* The replay shows the captures in their order, none before it was taken and
\* none later than the timeout after it, whichever prediction it waits for and
\* however late the record before it was (fuse_streams).
THEOREM FramesAreDeliveredInOrderAndInTime == Spec => []DeliveredInOrderAndInTime
<1>1. FusionInv => DeliveredInOrderAndInTime
  BY DEF FusionInv, Fused, Shows, DeliveredInOrderAndInTime
<1> QED BY <1>1, FusionInvHolds, PTL

\* The policy never learns of a behaviour before it was predicted, nor from
\* another track's or another capture's prediction (fuse_streams).
THEOREM FramesHaveNoForesight == Spec => []NoForesight
<1>1. FusionInv => NoForesight
  BY DEF FusionInv, Fused, Shows, NoForesight
<1> QED BY <1>1, FusionInvHolds, PTL

-----------------------------------------------------------------------------
(* The account of the predictions. *)

\* What the loop has said of the first n records, and what the end says of the
\* predictions that none of them waited for.
Diagnosed(n) ==
  UNION {{Diagnosis(given[i], t) : t \in Cats(given[i])} : i \in 1 .. n}

Left == {j \in DOMAIN told : \A d \in Diagnosed(Len(given)) : d.key # told[j].key}

Note(j) ==
  [status |-> "UNMATCHED_PREDICTION", key |-> told[j].key, perception |-> NoSequence,
   prediction |-> told[j].sequence]

Notes == {Note(j) : j \in Left}

Made == {"assembled", "writing", "done"}

\* The streams, as their contracts left them.
Parsed ==
  /\ IsSeq(given) /\ OrderedObservations(given)
  /\ \A i \in DOMAIN given : ValidObservation(given[i])
  /\ IsSeq(told) /\ OrderedPredictions(told)
  /\ \A k \in DOMAIN told : told[k].sequence \in Nat
  /\ \A k \in DOMAIN told :
       told[k].probs \in [BehaviorLabels -> Ratio] /\ Near(ProbabilitySum(told[k].probs), SumSlack)

Account ==
  /\ Parsed
  /\ replay = "idle" => frames = <<>> /\ diagnostics = {}
  /\ replay \in {"parsed", "fusing"} => diagnostics = Diagnosed(Len(frames))
  /\ replay \in Made => diagnostics = Diagnosed(Len(given)) \union Notes

-----------------------------------------------------------------------------
\* A key names one prediction, a sequence number too.
LEMMA PredictionsAreDistinct ==
  ASSUME Parsed, NEW j \in DOMAIN told, NEW k \in DOMAIN told,
         told[j].key = told[k].key \/ told[j].sequence = told[k].sequence
  PROVE  j = k
<1>1. j \in Nat /\ k \in Nat
  BY SeqPositions DEF Parsed
<1>2. told[j].sequence \in Nat /\ told[k].sequence \in Nat
  BY DEF Parsed
<1>3. ~(j < k) /\ ~(k < j)
  BY <1>2 DEF Parsed, OrderedPredictions
<1> QED BY <1>1, <1>3

\* A key names one track of one record.
LEMMA KeysAreDistinct ==
  ASSUME Parsed, NEW i \in DOMAIN given, NEW j \in DOMAIN given,
         NEW s \in Cats(given[i]), NEW t \in Cats(given[j]),
         KeyOf(given[i], s) = KeyOf(given[j], t)
  PROVE  i = j /\ s = t
<1>1. given[i].observation = given[j].observation /\ s.id = t.id
  BY DEF KeyOf
<1>2. i \in Nat /\ j \in Nat
  BY SeqPositions DEF Parsed
<1>3. ~(i < j) /\ ~(j < i)
  BY <1>1 DEF Parsed, OrderedObservations
<1>4. i = j
  BY <1>2, <1>3
<1>5. s = t
  BY <1>1, <1>4 DEF Parsed, ValidObservation, Cats
<1> QED BY <1>4, <1>5

\* What the loop says of one cat.
LEMMA DiagnosisFacts ==
  ASSUME Parsed, NEW i \in DOMAIN given, NEW t \in Cats(given[i])
  PROVE  /\ Diagnosis(given[i], t).key = KeyOf(given[i], t)
         /\ Diagnosis(given[i], t).perception # NoSequence
         /\ \A k \in DOMAIN told :
              Diagnosis(given[i], t).prediction = told[k].sequence
                <=> KeyOf(given[i], t) = told[k].key
<1> DEFINE key == KeyOf(given[i], t)
<1>1. NoSequence \notin Nat
  BY FusionAssumption
<1>2. given[i].sequence \in Nat
  BY SafeIntegersAreNat DEF Parsed, ValidObservation
<1>3. Diagnosis(given[i], t).key = key /\ Diagnosis(given[i], t).perception = given[i].sequence
  BY DEF Diagnosis
<1>4. ASSUME NEW k \in DOMAIN told
      PROVE  Diagnosis(given[i], t).prediction = told[k].sequence <=> key = told[k].key
  <2>1. CASE Predicted(key)
    <3>1. PICK j \in DOMAIN told : told[j].key = key /\ told[j] = PredictionOf(key)
      BY <2>1 DEF Predicted, PredictionOf
    <3>2. Diagnosis(given[i], t).prediction = told[j].sequence
      BY <2>1, <3>1 DEF Diagnosis
    <3> HIDE DEF key
    <3>3. told[j].sequence = told[k].sequence => j = k
      BY PredictionsAreDistinct
    <3>4. told[j].key = told[k].key => j = k
      BY PredictionsAreDistinct
    <3> QED BY <3>1, <3>2, <3>3, <3>4
  <2>2. CASE ~Predicted(key)
    <3>1. Diagnosis(given[i], t).prediction = NoSequence
      BY <2>2 DEF Diagnosis
    <3>2. told[k].sequence \in Nat /\ key # told[k].key
      BY <2>2 DEF Parsed, Predicted
    <3> QED BY <1>1, <3>1, <3>2
  <2> QED BY <2>1, <2>2
<1> QED BY <1>1, <1>2, <1>3, <1>4

LEMMA DiagnosedFacts ==
  ASSUME Parsed, NEW d \in Diagnosed(Len(given))
  PROVE  \E i \in DOMAIN given : \E t \in Cats(given[i]) : d = Diagnosis(given[i], t)
<1>1. DOMAIN given = 1 .. Len(given)
  BY SeqPositions DEF Parsed
<1> QED BY <1>1 DEF Diagnosed

\* One diagnostic for each prediction.
LEMMA PredictionIsTold ==
  ASSUME Parsed, NEW k \in DOMAIN told
  PROVE  \E e : {d \in Diagnosed(Len(given)) \union Notes : d.prediction = told[k].sequence} = {e}
<1> DEFINE J == Diagnosed(Len(given))
           All == {d \in J \union Notes : d.prediction = told[k].sequence}
<1>1. \A d \in J : \E i \in DOMAIN given : \E t \in Cats(given[i]) : d = Diagnosis(given[i], t)
  BY DiagnosedFacts
<1>2. \A d \in J : d.prediction = told[k].sequence <=> d.key = told[k].key
  <2> HIDE DEF J
  <2> QED BY <1>1, DiagnosisFacts
<1>3. \A j \in Left : Note(j).prediction = told[k].sequence <=> j = k
  <2> SUFFICES ASSUME NEW j \in Left
               PROVE  Note(j).prediction = told[k].sequence <=> j = k
    OBVIOUS
  <2>1. j \in DOMAIN told /\ Note(j).prediction = told[j].sequence
    BY DEF Left, Note
  <2> QED BY <2>1, PredictionsAreDistinct
<1>4. CASE k \in Left
  <2>1. \A d \in J : d.key # told[k].key
    BY <1>4 DEF Left
  <2> HIDE DEF J
  <2>2. All = {Note(k)}
    BY <1>2, <1>3, <1>4, <2>1 DEF Notes
  <2> QED BY <2>2 DEF J
<1>5. CASE k \notin Left
  <2>1. PICK e \in J : e.key = told[k].key
    BY <1>5 DEF Left
  <2>2. \A d \in J : d.key = told[k].key => d = e
    <3> SUFFICES ASSUME NEW d \in J, d.key = told[k].key PROVE d = e
      OBVIOUS
    <3>1. PICK i \in DOMAIN given : \E s \in Cats(given[i]) : d = Diagnosis(given[i], s)
      BY <1>1
    <3>2. PICK s \in Cats(given[i]) : d = Diagnosis(given[i], s)
      BY <3>1
    <3>4. PICK j \in DOMAIN given : \E t \in Cats(given[j]) : e = Diagnosis(given[j], t)
      BY <1>1
    <3>5. PICK t \in Cats(given[j]) : e = Diagnosis(given[j], t)
      BY <3>4
    <3> HIDE DEF J
    <3>3. KeyOf(given[i], s) = KeyOf(given[j], t)
      BY <2>1, <3>2, <3>5, DiagnosisFacts
    <3> QED BY <3>2, <3>3, <3>5, KeysAreDistinct
  <2> HIDE DEF J
  <2>3. All = {e}
    BY <1>2, <1>3, <1>5, <2>1, <2>2 DEF Notes
  <2> QED BY <2>3 DEF J
<1> QED BY <1>4, <1>5

\* One diagnostic for each cat.
LEMMA CatIsTold ==
  ASSUME Parsed, NEW key \in Keys(given)
  PROVE  \E e : {d \in Diagnosed(Len(given)) \union Notes :
                   d.key = key /\ d.perception # NoSequence} = {e}
<1> DEFINE J == Diagnosed(Len(given))
<1>1. \A d \in J : \E i \in DOMAIN given : \E t \in Cats(given[i]) : d = Diagnosis(given[i], t)
  BY DiagnosedFacts
<1>0. PICK i \in DOMAIN given : \E t \in Cats(given[i]) : key = KeyOf(given[i], t)
  BY DEF Keys
<1>2. PICK t \in Cats(given[i]) : key = KeyOf(given[i], t)
  BY <1>0
<1>3. DOMAIN given = 1 .. Len(given)
  BY SeqPositions DEF Parsed
<1>4. Diagnosis(given[i], t) \in J
  BY <1>2, <1>3 DEF Diagnosed
<1>5. \A n \in Notes : n.perception = NoSequence
  BY DEF Notes, Note
<1>6. \A d \in J : d.key = key => d = Diagnosis(given[i], t)
  <2> SUFFICES ASSUME NEW d \in J, d.key = key PROVE d = Diagnosis(given[i], t)
    OBVIOUS
  <2>3. PICK j \in DOMAIN given : \E s \in Cats(given[j]) : d = Diagnosis(given[j], s)
    BY <1>1
  <2>1. PICK s \in Cats(given[j]) : d = Diagnosis(given[j], s)
    BY <2>3
  <2> HIDE DEF J
  <2>2. KeyOf(given[j], s) = KeyOf(given[i], t)
    BY <1>2, <2>1, DiagnosisFacts
  <2> QED BY <1>2, <2>1, <2>2, KeysAreDistinct
<1>7. /\ Diagnosis(given[i], t).key = key
      /\ Diagnosis(given[i], t).perception # NoSequence
  BY <1>2, DiagnosisFacts
<1> HIDE DEF J
<1>8. {d \in J \union Notes : d.key = key /\ d.perception # NoSequence} = {Diagnosis(given[i], t)}
  BY <1>4, <1>5, <1>6, <1>7
<1> QED BY <1>8 DEF J

LEMMA AccountCounts == Account => EveryPredictionIsAccountedFor
<1> SUFFICES ASSUME Account, replay \in Made
             PROVE  /\ \A k \in DOMAIN told :
                         Cardinality({d \in diagnostics : d.prediction = told[k].sequence}) = 1
                    /\ \A key \in Keys(given) :
                         Cardinality({d \in diagnostics :
                                        d.key = key /\ d.perception # NoSequence}) = 1
  BY DEF EveryPredictionIsAccountedFor, Made
<1>1. Parsed /\ diagnostics = Diagnosed(Len(given)) \union Notes
  BY DEF Account
<1>2. ASSUME NEW k \in DOMAIN told
      PROVE  Cardinality({d \in diagnostics : d.prediction = told[k].sequence}) = 1
  BY <1>1, PredictionIsTold, FS_Singleton
<1>3. ASSUME NEW key \in Keys(given)
      PROVE  Cardinality({d \in diagnostics : d.key = key /\ d.perception # NoSequence}) = 1
  BY <1>1, CatIsTold, FS_Singleton
<1> QED BY <1>2, <1>3

-----------------------------------------------------------------------------
(* The account grows record by record. *)

\* What the replay was given stays what it said of it.
LEMMA SameStreamsSameAccount ==
  ASSUME given' = given, told' = told
  PROVE  /\ Parsed => Parsed'
         /\ \A n : Diagnosed(n)' = Diagnosed(n)
         /\ Notes' = Notes
<1>1. Parsed => Parsed'
  BY DEF Parsed, IsSeq, OrderedObservations, OrderedPredictions
<1>2. \A r, t : Diagnosis(r, t)' = Diagnosis(r, t)
  BY DEF Diagnosis, Status, Latency, Predicted, PredictionOf, KeyOf
<1>3. \A n : Diagnosed(n)' = Diagnosed(n)
  BY <1>2 DEF Diagnosed, Cats
<1>4. Left' = Left
  BY <1>3 DEF Left
<1>5. \A j : Note(j)' = Note(j)
  BY DEF Note
<1>6. Notes' = Notes
  BY <1>4, <1>5 DEF Notes
<1> QED BY <1>1, <1>3, <1>6

\* One more record, one more diagnostic for each of its cats.
LEMMA DiagnosedGrows ==
  ASSUME NEW n \in Nat
  PROVE  Diagnosed(n + 1) = Diagnosed(n)
           \union {Diagnosis(given[n + 1], t) : t \in Cats(given[n + 1])}
<1>1. 1 .. n + 1 = (1 .. n) \union {n + 1}
  OBVIOUS
<1> QED BY <1>1 DEF Diagnosed

LEMMA NothingDiagnosed == Diagnosed(0) = {}
<1>1. 1 .. 0 = {}
  OBVIOUS
<1> QED BY <1>1 DEF Diagnosed

LEMMA FusingKeepsAccount ==
  ASSUME FusionInv, Account, FuseOne
  PROVE  Account'
<1> DEFINE n == Len(frames)
<1>1. n \in Nat /\ Len(frames') = n + 1
  BY AppendOne DEF FusionInv, Fused, FuseOne
<1>2. diagnostics' = diagnostics \union {Diagnosis(given[n + 1], t) : t \in Cats(given[n + 1])}
  BY DEF FuseOne
<1>3. given' = given /\ told' = told /\ replay = "fusing" /\ replay' = "fusing"
  BY DEF FuseOne
<1>4. diagnostics = Diagnosed(n)
  BY <1>3 DEF Account
<1> HIDE DEF n
<1>5. diagnostics' = Diagnosed(n + 1)
  BY <1>1, <1>2, <1>4, DiagnosedGrows
<1>6. diagnostics' = Diagnosed(Len(frames))'
  <2>1. \A m : Diagnosed(m)' = Diagnosed(m)
    BY <1>3, SameStreamsSameAccount
  <2>2. Diagnosed(Len(frames))' = Diagnosed(n + 1)
    BY <1>1, <1>3, <2>1 DEF Diagnosed
  <2> QED BY <1>5, <2>2
<1> QED
  BY <1>3, <1>6, SameStreamsSameAccount DEF Account, Made

LEMMA StartIsAccounted ==
  ASSUME FusionInv, Account, NEW perceptions, NEW predicted, StartReplay(perceptions, predicted),
         IsSeq(perceptions.records), IsSeq(predicted.records)
  PROVE  Account'
<1>1. /\ frames' = <<>> /\ diagnostics' = {} /\ replay' = "parsed"
      /\ given' = perceptions.records /\ told' = predicted.records
  BY DEF StartReplay, Account
<1>2. OrderedObservations(given') /\ \A i \in DOMAIN given' : ValidObservation(given'[i])
  BY <1>1 DEF StartReplay, ValidPerceptions
<1>3. /\ OrderedPredictions(told') /\ \A k \in DOMAIN told' : told'[k].sequence \in Nat
      /\ \A k \in DOMAIN told' :
           told'[k].probs \in [BehaviorLabels -> Ratio] /\ Near(ProbabilitySum(told'[k].probs), SumSlack)
  BY <1>1, SafeIntegersAreNat DEF StartReplay, ValidPredictions, ValidPrediction
<1>4. Parsed'
  BY <1>1, <1>2, <1>3 DEF Parsed, IsSeq, OrderedObservations, OrderedPredictions
<1>5. Len(frames') = 0
  BY <1>1
<1>6. Diagnosed(Len(frames))' = {}
  <2>1. 1 .. 0 = {}
    OBVIOUS
  <2> QED BY <1>5, <2>1 DEF Diagnosed
<1> QED BY <1>1, <1>4, <1>6 DEF Account, Made

LEMMA AssemblingTellsTheRest ==
  ASSUME FusionInv, Account, Assemble
  PROVE  Account'
<1>1. /\ given' = given /\ told' = told /\ replay = "fusing" /\ replay' = "assembled"
      /\ Len(frames) = Len(given)
  BY DEF Assemble
<1>2. diagnostics = Diagnosed(Len(given))
  BY <1>1 DEF Account
<1>3. {j \in DOMAIN told : Unmatched(told[j])} = Left
  BY <1>2 DEF Unmatched, Left
<1>4. diagnostics' = diagnostics \union Notes
  BY <1>3 DEF Assemble, Notes, Note
<1>5. Diagnosed(Len(given))' = Diagnosed(Len(given)) /\ Notes' = Notes /\ Parsed'
  <2>1. \A m : Diagnosed(m)' = Diagnosed(m)
    BY <1>1, SameStreamsSameAccount
  <2>2. Diagnosed(Len(given))' = Diagnosed(Len(given))
    BY <1>1, <2>1 DEF Diagnosed
  <2> QED BY <1>1, <2>2, SameStreamsSameAccount DEF Account
<1> QED BY <1>1, <1>2, <1>4, <1>5 DEF Account, Made

LEMMA OthersKeepAccount ==
  ASSUME Account, UNCHANGED <<given, told, frames, diagnostics>>,
         replay' \in {replay, "failed"} \/ (replay = "parsed" /\ replay' = "fusing")
           \/ (replay \in Made /\ replay' \in Made)
  PROVE  Account'
<1>1. Diagnosed(Len(given))' = Diagnosed(Len(given)) /\ Diagnosed(Len(frames))' = Diagnosed(Len(frames))
  <2>1. \A m : Diagnosed(m)' = Diagnosed(m)
    BY SameStreamsSameAccount
  <2> QED BY <2>1 DEF Diagnosed
<1>2. Notes' = Notes /\ Parsed'
  BY SameStreamsSameAccount DEF Account
<1> QED BY <1>1, <1>2 DEF Account, Made

\* The behaviour file is a sequence, whoever answered.
Answered ==
  /\ infer = "done" => IsSeq(predictions)
  /\ behaviors # Absent => IsSeq(behaviors.records)

LEMMA AnswersAreSeq ==
  ASSUME NEW S, IsFiniteSet(S)
  PROVE  IsSeq(ByCompletion(S))
<1> DEFINE s == ByCompletion(S)
<1>1. Cardinality(S) \in Nat
  BY FS_CardinalityType
<1>2. DOMAIN s = 1 .. Cardinality(S) /\ s = [k \in 1 .. Cardinality(S) |-> s[k]]
  BY DEF ByCompletion, Ranked
<1> HIDE DEF s
<1> QED BY <1>1, <1>2, ListIsSeq DEF s

LEMMA FinishedIsSeq ==
  ASSUME NEW s, IsSeq(s), NEW r \in Finished(s)
  PROVE  IsSeq(r)
<1>1. CASE r = s
  BY <1>1
<1>2. CASE s # <<>> /\ \E e : r = Append(s, e)
  BY <1>2, AppendOne
<1>3. CASE r = [s EXCEPT ![Len(s)].model = OtherModel]
  <2>1. Len(s) \in Nat /\ DOMAIN s = 1 .. Len(s)
    BY SeqPositions
  <2>2. DOMAIN r = 1 .. Len(s) /\ r = [k \in 1 .. Len(s) |-> r[k]]
    BY <1>3, <2>1
  <2> QED BY <2>1, <2>2, ListIsSeq
<1> QED BY <1>1, <1>2, <1>3 DEF Finished

LEMMA ElsewhereIsSeq ==
  ASSUME AnswerElsewhere
  PROVE  IsSeq(behaviors'.records)
<1>1. PICK answered : IsFiniteSet(answered) /\
        \E fate \in [answered -> Fates] :
          \E stream \in Finished(ByCompletion({LiveAnswer(handed.records, p, fate[p]) : p \in answered})) :
            behaviors' = File(stream)
  BY DEF AnswerElsewhere
<1>2. PICK fate \in [answered -> Fates] :
        \E stream \in Finished(ByCompletion({LiveAnswer(handed.records, p, fate[p]) : p \in answered})) :
          behaviors' = File(stream)
  BY <1>1
<1> DEFINE all == {LiveAnswer(handed.records, p, fate[p]) : p \in answered}
           give == [p \in answered |-> LiveAnswer(handed.records, p, fate[p])]
<1>3. PICK stream \in Finished(ByCompletion(all)) : behaviors' = File(stream)
  BY <1>2
<1>4. give \in Surjection(answered, all)
  BY DEF Surjection
<1>5. IsFiniteSet(all)
  BY <1>1, <1>4, FS_Surjection
<1> HIDE DEF all, give
<1>6. IsSeq(stream)
  BY <1>3, <1>5, AnswersAreSeq, FinishedIsSeq
<1> QED BY <1>3, <1>6 DEF File

LEMMA StepKeepsAnswered == Evidence /\ Answered /\ [Next]_chainVars => Answered'
<1> SUFFICES ASSUME Evidence, Answered, [Next]_chainVars PROVE Answered'
  OBVIOUS
<1>1. infer' = "done" => IsSeq(predictions')
  <2>1. CASE Publish
    BY <2>1 DEF Publish, Evidence, IsSeq
  <2>2. CASE infer' = "done" => infer = "done" /\ predictions' = predictions
    BY <2>2 DEF Answered, IsSeq
  <2>3. CASE InferenceNext /\ ~Publish
    BY <2>3, <2>2 DEF InferenceNext, BindRequests, ReadModel, AcceptSidecar, BuildSession,
       InferOne, StopInference, ReplaceModel, ReplaceSidecar, ReplaceClip, disk, MayReplace
  <2>4. CASE AskForSelected \/ AskForAll
    BY <2>4, <2>2 DEF AskForSelected, AskForAll, Ask, StartInference
  <2>5. CASE UNCHANGED inferenceVars
    BY <2>5, <2>2 DEF inferenceVars
  <2> QED BY <2>1, <2>3, <2>4, <2>5
          DEF Next, chainVars, Perceiving, HandOver, DeliverPredictions, AnswerElsewhere,
              BeginReplay, RejectReplay, Replaying
<1>2. behaviors' # Absent => IsSeq(behaviors'.records)
  <2>1. CASE DeliverPredictions
    BY <2>1 DEF DeliverPredictions, Answered, File
  <2>2. CASE AnswerElsewhere
    BY <2>2, ElsewhereIsSeq
  <2>3. CASE behaviors' = behaviors
    BY <2>3 DEF Answered, IsSeq
  <2> QED BY <2>1, <2>2, <2>3
          DEF Next, chainVars, Perceiving, HandOver, AskForSelected, AskForAll, Inferring,
              BeginReplay, RejectReplay, Replaying
<1> QED BY <1>1, <1>2 DEF Answered

LEMMA StepKeepsAccount == FusionInv /\ Answered /\ Account /\ [Next]_chainVars => Account'
<1> SUFFICES ASSUME FusionInv, Answered, Account, [Next]_chainVars PROVE Account'
  OBVIOUS
<1>1. CASE BeginReplay
  BY <1>1, StartIsAccounted DEF BeginReplay, FusionInv, Answered
<1>2. CASE FuseOne
  BY <1>2, FusingKeepsAccount
<1>3. CASE Assemble
  BY <1>3, AssemblingTellsTheRest
<1>4. CASE CheckConfig \/ Simulate \/ WriteOutput \/ StopReplay \/ EditConfig
  BY <1>4, OthersKeepAccount
     DEF CheckConfig, Simulate, WriteOutput, StopReplay, EditConfig, Made
<1>5. CASE RejectReplay
  BY <1>5, OthersKeepAccount DEF RejectReplay, RejectStreams
<1>6. CASE UNCHANGED fusionVars
  BY <1>6, OthersKeepAccount DEF fusionVars
<1> QED BY <1>1, <1>2, <1>3, <1>4, <1>5, <1>6
        DEF Next, chainVars, FusionNext, Perceiving, HandOver, AskForSelected, AskForAll, Inferring,
            DeliverPredictions, AnswerElsewhere

\* Each prediction and each cat is in exactly one diagnostic of a finished
\* replay, whatever the streams hold (fuse_streams).
THEOREM EveryPredictionIsAccounted == Spec => []EveryPredictionIsAccountedFor
<1>1. ChainInit => Account /\ Answered
  <2>1. IsSeq(<<>>) /\ DOMAIN <<>> = {}
    BY EmptySeq DEF IsSeq
  <2> QED BY <2>1 DEF ChainInit, ReplayIdle, Idle, Account, Answered, Parsed, OrderedObservations, OrderedPredictions, Made
<1>2. ChainInit => Evidence
  BY NoAnswers DEF ChainInit, Idle, Evidence
<1>3. Account => EveryPredictionIsAccountedFor
  BY AccountCounts
<1> QED BY <1>1, <1>2, <1>3, FusionInvHolds, StepKeepsEvidence, StepKeepsAnswered, StepKeepsAccount, PTL DEF Spec

-----------------------------------------------------------------------------
(* A sequence that is in order is what sorting it gives. *)

\* Stated for each of the two orders: a proof cannot be reused for an operator.
LEMMA SoonerStays ==
  ASSUME NEW s, IsSeq(s),
         \A i \in DOMAIN s : s[i].deliverAt \in Int /\ s[i].sequence \in Int,
         \A i, j \in DOMAIN s : i < j => Sooner(s[i], s[j])
  PROVE  Sorted(s, Sooner) = s
<1> DEFINE n == Len(s)
           S == {s[i] : i \in DOMAIN s}
           Ahead(x) == {y \in S : Sooner(y, x)}
<1>0. s = [i \in 1 .. n |-> s[i]]
  <2>1. PICK T : s \in Seq(T)
    BY DEF IsSeq
  <2> QED BY <2>1
<1>1. n \in Nat /\ DOMAIN s = 1 .. n
  BY SeqPositions
<1> HIDE DEF n
<1>2. \A i, j \in 1 .. n : Sooner(s[i], s[j]) <=> i < j
  BY <1>1 DEF Sooner
<1>3. Distinct(s, n)
  BY <1>1, <1>2 DEF Distinct
<1>4. ASSUME NEW k \in 1 .. n PROVE Cardinality(Ahead(s[k])) = k - 1
  <2>1. AreBefore(Ahead(s[k]), s, n, k)
    BY <1>1, <1>2 DEF AreBefore
  <2> HIDE DEF Ahead
  <2> QED BY <1>1, <1>3, <2>1, RankOfPlace
<1>5. Cardinality(S) = n
  <2>1. [i \in 1 .. n |-> s[i]] \in Bijection(1 .. n, S)
    BY <1>1, <1>3 DEF Distinct, Bijection, Injection, IsInjective, Surjection
  <2>2. IsFiniteSet(1 .. n) /\ Cardinality(1 .. n) = n
    BY <1>1, FS_Interval
  <2> HIDE DEF S
  <2> QED BY <2>1, <2>2, FS_Bijection DEF ExistsBijection
<1>6. Sorted(s, Sooner) = [k \in 1 .. n |-> CHOOSE x \in S : Cardinality(Ahead(x)) = k - 1]
  BY <1>5 DEF Sorted, Ranked
<1>7. ASSUME NEW k \in 1 .. n
      PROVE  (CHOOSE x \in S : Cardinality(Ahead(x)) = k - 1) = s[k]
  <2>1. s[k] \in S /\ Cardinality(Ahead(s[k])) = k - 1
    BY <1>1, <1>4
  <2>2. \A x \in S : Cardinality(Ahead(x)) = k - 1 => x = s[k]
    <3> SUFFICES ASSUME NEW m \in 1 .. n, Cardinality(Ahead(s[m])) = k - 1 PROVE s[m] = s[k]
      BY <1>1
    <3>1. Cardinality(Ahead(s[m])) = m - 1
      BY <1>4
    <3> HIDE DEF Ahead
    <3> QED BY <1>1, <3>1
  <2> HIDE DEF Ahead, S
  <2> QED BY <2>1, <2>2
<1> HIDE DEF Ahead, S, n
<1> QED BY <1>0, <1>6, <1>7

LEMMA PrecedesStays ==
  ASSUME NEW s, IsSeq(s),
         \A i \in DOMAIN s : s[i].at \in Int /\ s[i].sequence \in Int,
         \A i, j \in DOMAIN s : i < j => Precedes(s[i], s[j])
  PROVE  Sorted(s, Precedes) = s
<1> DEFINE n == Len(s)
           S == {s[i] : i \in DOMAIN s}
           Ahead(x) == {y \in S : Precedes(y, x)}
<1>0. s = [i \in 1 .. n |-> s[i]]
  <2>1. PICK T : s \in Seq(T)
    BY DEF IsSeq
  <2> QED BY <2>1
<1>1. n \in Nat /\ DOMAIN s = 1 .. n
  BY SeqPositions
<1> HIDE DEF n
<1>2. \A i, j \in 1 .. n : Precedes(s[i], s[j]) <=> i < j
  BY <1>1 DEF Precedes
<1>3. Distinct(s, n)
  BY <1>1, <1>2 DEF Distinct
<1>4. ASSUME NEW k \in 1 .. n PROVE Cardinality(Ahead(s[k])) = k - 1
  <2>1. AreBefore(Ahead(s[k]), s, n, k)
    BY <1>1, <1>2 DEF AreBefore
  <2> HIDE DEF Ahead
  <2> QED BY <1>1, <1>3, <2>1, RankOfPlace
<1>5. Cardinality(S) = n
  <2>1. [i \in 1 .. n |-> s[i]] \in Bijection(1 .. n, S)
    BY <1>1, <1>3 DEF Distinct, Bijection, Injection, IsInjective, Surjection
  <2>2. IsFiniteSet(1 .. n) /\ Cardinality(1 .. n) = n
    BY <1>1, FS_Interval
  <2> HIDE DEF S
  <2> QED BY <2>1, <2>2, FS_Bijection DEF ExistsBijection
<1>6. Sorted(s, Precedes) = [k \in 1 .. n |-> CHOOSE x \in S : Cardinality(Ahead(x)) = k - 1]
  BY <1>5 DEF Sorted, Ranked
<1>7. ASSUME NEW k \in 1 .. n
      PROVE  (CHOOSE x \in S : Cardinality(Ahead(x)) = k - 1) = s[k]
  <2>1. s[k] \in S /\ Cardinality(Ahead(s[k])) = k - 1
    BY <1>1, <1>4
  <2>2. \A x \in S : Cardinality(Ahead(x)) = k - 1 => x = s[k]
    <3> SUFFICES ASSUME NEW m \in 1 .. n, Cardinality(Ahead(s[m])) = k - 1 PROVE s[m] = s[k]
      BY <1>1
    <3>1. Cardinality(Ahead(s[m])) = m - 1
      BY <1>4
    <3> HIDE DEF Ahead
    <3> QED BY <1>1, <3>1
  <2> HIDE DEF Ahead, S
  <2> QED BY <2>1, <2>2
<1> HIDE DEF Ahead, S, n
<1> QED BY <1>0, <1>6, <1>7

-----------------------------------------------------------------------------
(* The scenario that is assembled from the frames. *)

Arming == [at |-> 0, sequence |-> 0, type |-> "CONTROL", event |-> 0]
Delivery(s, k) ==
  [at |-> s[k].deliverAt, sequence |-> k, type |-> "OBSERVATION", event |-> k, record |-> s[k]]
LastTick(s) ==
  [at |-> s[Len(s)].deliverAt + 10, sequence |-> Len(s) + 1, type |-> "TICK", event |-> Len(s) + 1]

\* The three parts of the timeline, by their places.
LEMMA TimelineIs ==
  ASSUME NEW s, IsSeq(s)
  PROVE  /\ IsSeq(Timeline(s)) /\ Len(s) \in Nat /\ DOMAIN Timeline(s) = 1 .. Len(s) + 2
         /\ Timeline(s)[1] = Arming
         /\ \A k \in 1 .. Len(s) : Timeline(s)[k + 1] = Delivery(s, k)
         /\ Timeline(s)[Len(s) + 2] = LastTick(s)
<1> DEFINE n == Len(s)
           body == [k \in 1 .. n |-> Delivery(s, k)]
           A == {Arming, LastTick(s)} \union {Delivery(s, k) : k \in 1 .. n}
<1>1. n \in Nat
  BY SeqPositions
<1>2. Timeline(s) = (<<Arming>> \o body) \o <<LastTick(s)>>
  BY DEF Timeline, Arming, Delivery, LastTick
<1>3. body \in [1 .. n -> A] /\ \A k \in 1 .. n : body[k] = Delivery(s, k)
  OBVIOUS
<1>4. Arming \in A /\ LastTick(s) \in A
  OBVIOUS
<1> HIDE DEF n, A, body
<1>5. body \in Seq(A) /\ Len(body) = n
  BY <1>1, <1>3
<1>6. <<Arming>> \in Seq(A) /\ <<LastTick(s)>> \in Seq(A)
  BY <1>4
<1>7. /\ <<Arming>> \o body \in Seq(A)
      /\ Len(<<Arming>> \o body) = n + 1
      /\ (<<Arming>> \o body)[1] = Arming
      /\ \A k \in 1 .. n : (<<Arming>> \o body)[k + 1] = body[k]
  BY <1>1, <1>5, <1>6, ConcatProperties
<1> DEFINE first == <<Arming>> \o body
<1> HIDE DEF first
<1>8. /\ first \o <<LastTick(s)>> \in Seq(A)
      /\ Len(first \o <<LastTick(s)>>) = n + 2
      /\ \A i \in 1 .. n + 1 : (first \o <<LastTick(s)>>)[i] = first[i]
      /\ (first \o <<LastTick(s)>>)[n + 2] = LastTick(s)
  BY <1>1, <1>6, <1>7, ConcatProperties DEF first
<1> QED BY <1>1, <1>2, <1>3, <1>7, <1>8 DEF first, IsSeq, n

-----------------------------------------------------------------------------
(* What a frame takes over from its record. *)

SomeOverfull == \E k \in DOMAIN told : Overfull(told[k])

\* A track that passes; a score above 1.0 is a sum that a prediction gave.
Passes(t) ==
  /\ InsideImage(t.box) /\ ValidScenarioTrack(t)
  /\ t.scores \in [PolicyScores -> Ratio] \/ SomeOverfull

Carries(f, r) ==
  /\ f.observation = r.observation /\ f.sequence = r.sequence /\ f.camera = r.camera
  /\ f.at \in SafeInteger /\ f.deliverAt \in Int
  /\ f.at <= f.deliverAt /\ f.deliverAt - f.at <= MaxAuditAge
  /\ \A s, t \in f.tracks : s.id = t.id => s = t
  /\ Cardinality(f.tracks) <= 64
  /\ \A t \in f.tracks : Passes(t)

\* The four scores add up to what the six probabilities did.
LEMMA ScoresAddUp ==
  ASSUME NEW probs \in [BehaviorLabels -> Ratio], Near(ProbabilitySum(probs), SumSlack)
  PROVE  LET s == Scores(probs)
         IN /\ Near(s["CLEAR"] + s["DIGGING"] + s["EATING"] + s["UNKNOWN"], ScoreSlack)
            /\ \/ probs["PASSING"] + probs["SNIFFING"] > WireSteps
               \/ probs["OTHER"] + probs["UNKNOWN"] > WireSteps
               \/ s \in [PolicyScores -> Ratio]
<1>1. \A l \in BehaviorLabels : probs[l] \in Int /\ 0 <= probs[l] /\ probs[l] <= WireSteps
  BY WireAssumption DEF Ratio
<1>2. /\ probs["PASSING"] \in Nat /\ probs["SNIFFING"] \in Nat /\ probs["EATING"] \in Nat
      /\ probs["DIGGING"] \in Nat /\ probs["OTHER"] \in Nat /\ probs["UNKNOWN"] \in Nat
      /\ probs["EATING"] <= WireSteps /\ probs["DIGGING"] <= WireSteps
  BY <1>1 DEF BehaviorLabels
<1>3. Near(Scores(probs)["CLEAR"] + Scores(probs)["DIGGING"] + Scores(probs)["EATING"]
             + Scores(probs)["UNKNOWN"], ScoreSlack)
  <2>1. Scores(probs)["CLEAR"] + Scores(probs)["DIGGING"] + Scores(probs)["EATING"]
          + Scores(probs)["UNKNOWN"] = ProbabilitySum(probs)
    BY <1>2 DEF Scores, ProbabilitySum
  <2>2. ProbabilitySum(probs) \in Int
    BY <1>2 DEF ProbabilitySum
  <2> QED BY <2>1, <2>2, WireAssumption, SumAssumption, ScenarioAssumption, FusionAssumption DEF Near
<1>4. ASSUME /\ probs["PASSING"] + probs["SNIFFING"] <= WireSteps
             /\ probs["OTHER"] + probs["UNKNOWN"] <= WireSteps
      PROVE  Scores(probs) \in [PolicyScores -> Ratio]
  BY <1>2, <1>4, WireAssumption DEF Scores, PolicyScores, Ratio
<1> QED BY <1>2, <1>3, <1>4, WireAssumption

LEMMA FusedTrackPasses ==
  ASSUME Parsed, NEW record, ValidObservation(record), NEW u \in record.tracks
  PROVE  Passes(FusedTrack(record, u))
<1> DEFINE t == FusedTrack(record, u)
<1>1. InsideImage(t.box)
  BY DEF FusedTrack, ValidObservation, ValidTrack
<1>2. t.scores = UnknownScores \/ \E k \in DOMAIN told : t.scores = Scores(told[k].probs)
  <2>1. CASE u.class = "CAT" /\ Status(record, u) = "FUSED"
    <3>1. Predicted(KeyOf(record, u))
      BY <2>1 DEF Status
    <3>2. PICK k \in DOMAIN told : told[k] = PredictionOf(KeyOf(record, u))
      BY <3>1 DEF Predicted, PredictionOf
    <3> QED BY <2>1, <3>2 DEF FusedTrack, FusedScores
  <2>2. CASE ~(u.class = "CAT" /\ Status(record, u) = "FUSED")
    BY <2>2 DEF FusedTrack, FusedScores
  <2> QED BY <2>1, <2>2
<1> HIDE DEF t
<1>5. t.box.x + t.box.w <= WireSteps
  BY <1>1 DEF InsideImage
<1>3. ASSUME t.scores = UnknownScores PROVE Passes(t)
  <2>1. UnknownScores \in [PolicyScores -> Ratio]
    BY WireAssumption DEF UnknownScores, PolicyScores, Ratio
  <2>2. Near(UnknownScores["CLEAR"] + UnknownScores["DIGGING"] + UnknownScores["EATING"]
               + UnknownScores["UNKNOWN"], ScoreSlack)
    BY WireAssumption, ScenarioAssumption DEF UnknownScores, Near
  <2> QED BY <1>1, <1>3, <1>5, <2>1, <2>2 DEF Passes, ValidScenarioTrack
<1>4. ASSUME \E k \in DOMAIN told : t.scores = Scores(told[k].probs) PROVE Passes(t)
  <2>1. PICK k \in DOMAIN told : t.scores = Scores(told[k].probs)
    BY <1>4
  <2>2. told[k].probs \in [BehaviorLabels -> Ratio] /\ Near(ProbabilitySum(told[k].probs), SumSlack)
    BY DEF Parsed
  <2>3. /\ Near(t.scores["CLEAR"] + t.scores["DIGGING"] + t.scores["EATING"]
                 + t.scores["UNKNOWN"], ScoreSlack)
        /\ Overfull(told[k]) \/ t.scores \in [PolicyScores -> Ratio]
    BY <2>1, <2>2, ScoresAddUp DEF Overfull
  <2> QED BY <1>1, <1>5, <2>3 DEF Passes, ValidScenarioTrack, SomeOverfull
<1> QED BY <1>2, <1>3, <1>4 DEF t

\* No stream is longer than what perception wrote and one repeated line.
Short(s) == Len(s) <= MaxFrames + 2

Assembling ==
  /\ Len(lines) = frame /\ frame <= MaxFrames + 1
  /\ handed # Absent => Short(handed.records)
  /\ Short(given)
  /\ replay \notin {"idle", "failed"} => given # <<>>
  /\ \A i \in DOMAIN frames : Carries(frames[i], given[i])
  /\ replay \in {"fusing"} \union Made =>
       ValidRuntime(config) /\ \A i \in DOMAIN given : given[i].camera = config.camera
  /\ replay \in Made =>
       /\ Len(frames) = Len(given)
       /\ scenario = [timeline |-> Timeline(frames), seed |-> 1, reference |-> ReferenceLength]

\* The frames are in the order that sorting gives them, no two of one capture.
LEMMA FramesAreInOrder ==
  ASSUME FusionInv, Parsed, Assembling
  PROVE  /\ \A i, j \in DOMAIN frames : i < j =>
              /\ Sooner(frames[i], frames[j])
              /\ frames[i].deliverAt <= frames[j].deliverAt
              /\ frames[i].observation # frames[j].observation
         /\ \A i \in DOMAIN frames :
              /\ frames[i].deliverAt \in Nat /\ frames[i].sequence \in Nat
              /\ i \in DOMAIN given /\ Carries(frames[i], given[i])
<1>1. \A i \in DOMAIN frames : i \in DOMAIN given /\ Carries(frames[i], given[i])
  BY DEF FusionInv, Fused, Assembling
<1>2. \A i \in DOMAIN frames : frames[i].sequence \in Nat /\ frames[i].deliverAt \in Nat
  BY <1>1, SafeIntegersAreNat DEF Parsed, ValidObservation, Carries
<1>3. ASSUME NEW i \in DOMAIN frames, NEW j \in DOMAIN frames, i < j
      PROVE  /\ Sooner(frames[i], frames[j])
             /\ frames[i].deliverAt <= frames[j].deliverAt
             /\ frames[i].observation # frames[j].observation
  <2>1. frames[i].deliverAt <= frames[j].deliverAt
    BY <1>3 DEF FusionInv, Fused
  <2>2. /\ given[i].sequence < given[j].sequence
        /\ given[i].observation # given[j].observation
    BY <1>1, <1>3 DEF Parsed, OrderedObservations
  <2>3. frames[i].sequence < frames[j].sequence /\ frames[i].observation # frames[j].observation
    BY <1>1, <2>2 DEF Carries
  <2> QED BY <1>2, <2>1, <2>3 DEF Sooner
<1> QED BY <1>1, <1>2, <1>3

\* An arming, the frames, a last tick: each entry is later than the one before.
LEMMA TimelineIsInOrder ==
  ASSUME FusionInv, Parsed, Assembling, frames # <<>>,
         NEW i \in DOMAIN Timeline(frames), NEW j \in DOMAIN Timeline(frames), i < j
  PROVE  /\ Timeline(frames)[i].event # Timeline(frames)[j].event
         /\ Precedes(Timeline(frames)[i], Timeline(frames)[j])
         /\ Timeline(frames)[i].at \in Nat /\ Timeline(frames)[j].at \in Nat
<1> DEFINE T == Timeline(frames)
           n == Len(frames)
<1>1. /\ IsSeq(T) /\ n \in Nat /\ DOMAIN T = 1 .. n + 2 /\ T[1] = Arming
      /\ \A k \in 1 .. n : T[k + 1] = Delivery(frames, k)
      /\ T[n + 2] = LastTick(frames)
  BY TimelineIs DEF FusionInv, Fused
<1>2. DOMAIN frames = 1 .. n /\ n > 0
  <2>1. PICK S : frames \in Seq(S)
    BY DEF FusionInv, Fused, IsSeq
  <2> QED BY <2>1
<1>3. /\ \A k, m \in 1 .. n : k < m => frames[k].deliverAt <= frames[m].deliverAt
      /\ \A k \in 1 .. n : frames[k].deliverAt \in Nat
  BY <1>2, FramesAreInOrder
<1> HIDE DEF T, n
\* The key of the k-th entry is its place less one.
<1>4. \A k \in 1 .. n + 2 : T[k].event = k - 1 /\ T[k].sequence = k - 1
  <2>1. ASSUME NEW k \in 1 .. n + 2 PROVE T[k].event = k - 1 /\ T[k].sequence = k - 1
    <3>1. CASE k = 1
      BY <1>1, <3>1 DEF Arming
    <3>2. CASE k = n + 2
      BY <1>1, <3>2 DEF LastTick, n
    <3>3. CASE k - 1 \in 1 .. n
      <4>1. T[(k - 1) + 1] = Delivery(frames, k - 1) /\ (k - 1) + 1 = k
        BY <1>1, <3>3
      <4> QED BY <4>1 DEF Delivery
    <3> QED BY <1>1, <2>1, <3>1, <3>2, <3>3
  <2> QED BY <2>1
<1>5. T[1].at = 0 /\ T[n + 2].at = frames[n].deliverAt + 10
  BY <1>1 DEF Arming, LastTick, n
<1>6. \A k \in 2 .. n + 1 : T[k].at = frames[k - 1].deliverAt
  <2>1. ASSUME NEW k \in 2 .. n + 1 PROVE T[k].at = frames[k - 1].deliverAt
    <3>1. k - 1 \in 1 .. n /\ (k - 1) + 1 = k
      BY <1>1
    <3>2. T[k] = Delivery(frames, k - 1)
      BY <1>1, <3>1
    <3> QED BY <3>2 DEF Delivery
  <2> QED BY <2>1
<1>7. \A k \in 1 .. n + 2 : T[k].at \in Nat
  <2>1. ASSUME NEW k \in 2 .. n + 1 PROVE T[k].at \in Nat
    <3>1. k - 1 \in 1 .. n
      BY <1>1
    <3> QED BY <1>3, <1>6, <3>1
  <2> QED BY <1>1, <1>2, <1>3, <1>5, <2>1
<1>8. i \in 1 .. n + 2 /\ j \in 1 .. n + 2 /\ i < j
  BY <1>1 DEF T
<1>9. T[i].at <= T[j].at
  <2>1. CASE i = 1
    BY <1>5, <1>7, <1>8, <2>1
  <2>2. CASE i \in 2 .. n + 1 /\ j \in 2 .. n + 1
    <3>1. i - 1 \in 1 .. n /\ j - 1 \in 1 .. n /\ i - 1 < j - 1
      BY <1>1, <1>8, <2>2
    <3>2. T[i].at = frames[i - 1].deliverAt /\ T[j].at = frames[j - 1].deliverAt
      BY <1>6, <2>2
    <3> QED BY <1>3, <3>1, <3>2
  <2>3. CASE i \in 2 .. n + 1 /\ j = n + 2
    <3>1. i - 1 \in 1 .. n /\ n \in 1 .. n /\ (i - 1 < n \/ i - 1 = n)
      BY <1>1, <1>2, <2>3
    <3>2. frames[i - 1].deliverAt <= frames[n].deliverAt
      BY <1>3, <3>1
    <3>3. T[i].at = frames[i - 1].deliverAt
      BY <1>6, <2>3
    <3> QED BY <1>3, <1>5, <2>3, <3>1, <3>2, <3>3
  <2> QED BY <1>1, <1>8, <2>1, <2>2, <2>3
<1>10. /\ T[i].event # T[j].event /\ Precedes(T[i], T[j]) /\ T[i].at \in Nat /\ T[j].at \in Nat
  BY <1>4, <1>7, <1>8, <1>9 DEF Precedes
<1> QED BY <1>10 DEF T

-----------------------------------------------------------------------------

\* The loader asks for nothing that the assembly does not give, the unchecked
\* things aside.
LEMMA AssemblyIsLoadable ==
  ASSUME FusionInv, Parsed, Assembling, replay \in Made, ~Unchecked
  PROVE  Loadable(scenario, config)
<1> DEFINE T == Timeline(frames)
           n == Len(frames)
<1>1. /\ scenario = [timeline |-> T, seed |-> 1, reference |-> ReferenceLength]
      /\ Len(given) = n /\ given # <<>>
  BY DEF Assembling, Made
<1>2. n \in Nat /\ DOMAIN frames = 1 .. n /\ n > 0 /\ frames # <<>>
  <2>1. PICK S : frames \in Seq(S)
    BY DEF FusionInv, Fused, IsSeq
  <2>2. PICK G : given \in Seq(G)
    BY DEF Parsed, IsSeq
  <2> QED BY <1>1, <2>1, <2>2
<1>3. /\ IsSeq(T) /\ DOMAIN T = 1 .. n + 2 /\ T[1] = Arming
      /\ \A k \in 1 .. n : T[k + 1] = Delivery(frames, k)
      /\ T[n + 2] = LastTick(frames)
  BY TimelineIs DEF FusionInv, Fused
<1>4. /\ \A i, j \in DOMAIN T : i < j => T[i].event # T[j].event /\ Precedes(T[i], T[j])
      /\ \A i, j \in DOMAIN T : i < j => T[i].at \in Nat /\ T[j].at \in Nat
  BY <1>2, TimelineIsInOrder
<1> HIDE DEF T, n
\* The observations are the frames, one place later.
<1>5. \A i \in DOMAIN T : IsObservation(T[i]) =>
        i - 1 \in 1 .. n /\ T[i].record = frames[i - 1] /\ T[i].at = frames[i - 1].deliverAt
  <2>1. ASSUME NEW i \in DOMAIN T, IsObservation(T[i])
        PROVE  i - 1 \in 1 .. n /\ T[i].record = frames[i - 1]
               /\ T[i].at = frames[i - 1].deliverAt
    <3>1. i # 1 /\ i # n + 2
      BY <1>2, <1>3, <2>1 DEF IsObservation, Arming, LastTick
    <3>2. i - 1 \in 1 .. n /\ (i - 1) + 1 = i
      BY <1>2, <1>3, <3>1
    <3>3. T[i] = Delivery(frames, i - 1)
      BY <1>3, <3>2
    <3> QED BY <3>2, <3>3 DEF Delivery
  <2> QED BY <2>1
<1>6. \A k \in 1 .. n :
        /\ Carries(frames[k], given[k]) /\ k \in DOMAIN given
        /\ frames[k].deliverAt \in Nat
  BY <1>2, FramesAreInOrder
<1>7. 1 + 2 * Cardinality({i \in DOMAIN T : IsObservation(T[i])}) <= MaxSafeInteger
  <2>1. {i \in DOMAIN T : IsObservation(T[i])} \subseteq 2 .. n + 1
    BY <1>2, <1>3, <1>5
  <2>2. IsFiniteSet(2 .. n + 1) /\ Cardinality(2 .. n + 1) = n
    BY <1>2, FS_Interval
  <2>3. /\ Cardinality({i \in DOMAIN T : IsObservation(T[i])}) \in Nat
        /\ Cardinality({i \in DOMAIN T : IsObservation(T[i])}) <= n
    BY <2>1, <2>2, FS_Subset, FS_CardinalityType
  <2>4. n <= MaxFrames + 2 /\ MaxFrames \in Nat
    BY <1>1, TrackerAssumption DEF Assembling, Short
  <2> QED BY <1>2, <2>3, <2>4, ChainAssumption, WireAssumption
<1>8. \A i \in DOMAIN T : IsObservation(T[i]) =>
        /\ T[i].record.at <= T[i].at
        /\ T[i].at - T[i].record.at <= MaxAuditAge
        /\ \A s, t \in T[i].record.tracks : s.id = t.id => s = t
        /\ \A t \in T[i].record.tracks : ValidScenarioTrack(t)
        /\ T[i].record.camera = config.camera
  <2>1. \A k \in DOMAIN given : given[k].camera = config.camera
    BY DEF Assembling
  <2> QED BY <1>5, <1>6, <2>1 DEF Carries, Passes
<1>9. ValidTimeline(T, 1)
  BY <1>4, <1>7, <1>8 DEF ValidTimeline
<1>10. Sorted(T, Precedes) = T
  <2>1. \A i \in DOMAIN T : T[i].at \in Int /\ T[i].sequence \in Int
    <3>1. ASSUME NEW i \in DOMAIN T PROVE T[i].at \in Int /\ T[i].sequence \in Int
      <4>1. CASE i = 1
        BY <1>3, <4>1 DEF Arming
      <4>2. CASE i = n + 2
        BY <1>2, <1>3, <1>6, <4>2 DEF LastTick, n
      <4>3. CASE i - 1 \in 1 .. n
        <5>1. T[(i - 1) + 1] = Delivery(frames, i - 1) /\ (i - 1) + 1 = i
          BY <1>2, <1>3, <4>3
        <5> QED BY <1>2, <1>6, <4>3, <5>1 DEF Delivery
      <4> QED BY <1>2, <1>3, <4>1, <4>2, <4>3
    <3> QED BY <3>1
  <2> QED BY <1>3, <1>4, <2>1, PrecedesStays
<1>11. ValidExpansion(T)
  <2>1. ASSUME NEW i \in DOMAIN T, NEW j \in DOMAIN T, i < j, IsObservation(T[i]), IsObservation(T[j])
        PROVE  T[i].record.observation # T[j].record.observation
    <3>1. /\ i - 1 \in 1 .. n /\ T[i].record = frames[i - 1]
          /\ j - 1 \in 1 .. n /\ T[j].record = frames[j - 1]
      BY <1>5, <2>1
    <3>2. i - 1 < j - 1
      BY <1>3, <2>1, <1>2
    <3>3. frames[i - 1].observation # frames[j - 1].observation
      BY <1>2, <3>1, <3>2, FramesAreInOrder
    <3> QED BY <3>1, <3>3
  <2> QED BY <1>10, <2>1 DEF ValidExpansion, Expanded
<1>12. ValidRuntime(config)
  BY DEF Assembling
\* The numbers are within the schema: nothing is later than the last tick.
<1>13. /\ config.shape = "valid" /\ ReferenceLength <= MaxReference
       /\ n + 2 <= MaxTimeline /\ previousDelivery + 10 <= MaxSafeInteger
       /\ ~SomeOverfull
  <2>1. /\ config.shape = "valid" /\ ~(ReferenceLength > MaxReference)
        /\ ~(n + 2 > MaxTimeline) /\ ~(previousDelivery + 10 > MaxSafeInteger)
        /\ ~SomeOverfull
    BY <1>1 DEF Unchecked, SomeOverfull
  <2>2. previousDelivery \in Int
    BY DEF FusionInv, Fused
  <2> QED BY <1>2, <2>1, <2>2, WireAssumption, ScenarioAssumption, FusionAssumption
<1>14. \A k \in 1 .. n : frames[k].deliverAt <= previousDelivery
  BY <1>2 DEF FusionInv, Fused
<1>15. Len(T) = n + 2
  BY <1>2, <1>3, SeqPositions
<1>16. \A i \in DOMAIN T : T[i].at \in SafeInteger /\ T[i].sequence \in 0 .. MaxSequence
  <2>1. previousDelivery \in Int /\ MaxSafeInteger \in Nat /\ n + 1 <= MaxSequence
    BY <1>2, <1>13, WireAssumption, ScenarioAssumption DEF FusionInv, Fused
  <2>2. ASSUME NEW i \in DOMAIN T
        PROVE  T[i].at \in SafeInteger /\ T[i].sequence \in 0 .. MaxSequence
    <3>1. CASE i = 1
      BY <1>2, <1>3, <2>1, <3>1, ScenarioAssumption DEF Arming, SafeInteger
    <3>2. CASE i = n + 2
      <4>1. n \in 1 .. n
        BY <1>2
      <4>2. T[i].at = frames[n].deliverAt + 10 /\ T[i].sequence = n + 1
        BY <1>3, <3>2 DEF LastTick, n
      <4>3. frames[n].deliverAt \in Nat /\ frames[n].deliverAt <= previousDelivery
        BY <1>6, <1>14, <4>1
      <4>4. T[i].at \in SafeInteger
        BY <1>13, <2>1, <4>2, <4>3 DEF SafeInteger
      <4>5. T[i].sequence \in 0 .. MaxSequence
        BY <1>2, <2>1, <4>2, ScenarioAssumption
      <4> QED BY <4>4, <4>5
    <3>3. CASE i - 1 \in 1 .. n
      <4>1. T[(i - 1) + 1] = Delivery(frames, i - 1) /\ (i - 1) + 1 = i
        BY <1>2, <1>3, <3>3
      <4>2. T[i].at = frames[i - 1].deliverAt /\ T[i].sequence = i - 1
        BY <4>1 DEF Delivery
      <4>3. frames[i - 1].deliverAt \in Nat /\ frames[i - 1].deliverAt <= previousDelivery
        BY <1>6, <1>14, <3>3
      <4>4. T[i].at \in SafeInteger
        BY <1>13, <2>1, <4>2, <4>3 DEF SafeInteger
      <4>5. T[i].sequence \in 0 .. MaxSequence
        BY <1>2, <2>1, <3>3, <4>2, ScenarioAssumption
      <4> QED BY <4>4, <4>5
    <3> QED BY <1>2, <1>3, <2>2, <3>1, <3>2, <3>3
  <2> QED BY <2>2
<1>17. \A i \in DOMAIN T : IsObservation(T[i]) =>
         /\ T[i].record.at \in SafeInteger
         /\ Cardinality(T[i].record.tracks) <= 64
         /\ \A t \in T[i].record.tracks :
              t.box.x \in Ratio /\ t.box.w \in Ratio \ {0} /\ t.scores \in [PolicyScores -> Ratio]
  BY <1>5, <1>6, <1>13, WireAssumption DEF Carries, Passes, InsideImage, Ratio
<1>18. ScenarioSchema(scenario)
  <2>1. 1 \in 1 .. MaxSafeInteger
    BY WireAssumption, ChainAssumption, TrackerAssumption
  <2>2. n + 2 \in 1 .. MaxTimeline
    BY <1>2, <1>13, ScenarioAssumption
  <2> QED BY <1>1, <1>13, <1>15, <1>16, <1>17, <2>1, <2>2 DEF ScenarioSchema
<1> QED BY <1>1, <1>8, <1>9, <1>11, <1>12, <1>13, <1>18 DEF Loadable

\* One more frame takes over its record; no wait was longer than the audit allows.
LEMMA FusedFrameCarries ==
  ASSUME FusionInv, Parsed, Assembling, FuseOne
  PROVE  \A i \in DOMAIN frames' : Carries(frames'[i], given[i])
<1> DEFINE last == Len(frames) + 1
           record == given[last]
<1>1. PICK at \in DeliveryTimes(record) :
        /\ Latest(at, DeliveryTimes(record))
        /\ at - record.at <= MaxAuditAge
        /\ frames' = Append(frames,
             [deliverAt |-> at, at |-> record.at, sequence |-> record.sequence,
              observation |-> record.observation, camera |-> record.camera,
              tracks |-> {FusedTrack(record, t) : t \in record.tracks}])
        /\ previousDelivery' = at
  BY DEF FuseOne
<1> DEFINE f == [deliverAt |-> at, at |-> record.at, sequence |-> record.sequence,
                 observation |-> record.observation, camera |-> record.camera,
                 tracks |-> {FusedTrack(record, t) : t \in record.tracks}]
<1>2. Len(frames) \in Nat /\ last \in DOMAIN given
  <2>1. PICK S : given \in Seq(S)
    BY DEF Parsed, IsSeq
  <2>2. Len(frames) \in Nat
    BY SeqPositions DEF FusionInv, Fused
  <2> QED BY <2>1, <2>2 DEF FuseOne
<1>3. ValidObservation(record)
  BY <1>2 DEF Parsed
<1> HIDE DEF record
<1>4. /\ record.at \in SafeInteger /\ record.at \in Nat
      /\ \A s, t \in record.tracks : s.id = t.id => s = t
      /\ IsFiniteSet(record.tracks) /\ Cardinality(record.tracks) <= 64
  BY <1>3, SafeIntegersAreNat DEF ValidObservation
<1>5. at \in Int /\ record.at <= at
  <2>1. previousDelivery \in Int
    BY DEF FusionInv, Fused
  <2>2. at \in Int
    BY <1>4, <2>1, WaitsEnd DEF DeliveryTimes, FusionInv
  <2> QED BY <1>1, <2>2 DEF Latest, DeliveryTimes, Waits
<1>6. \A s, t \in f.tracks : s.id = t.id => s = t
  <2>1. \A u : FusedTrack(record, u).id = u.id
    BY DEF FusedTrack
  <2> QED BY <1>4, <2>1
<1>7. Cardinality(f.tracks) <= 64 /\ \A t \in f.tracks : Passes(t)
  <2> DEFINE fused == {FusedTrack(record, t) : t \in record.tracks}
             fuse == [t \in record.tracks |-> FusedTrack(record, t)]
  <2>1. f.tracks = fused
    OBVIOUS
  <2>2. fuse \in Surjection(record.tracks, fused)
    BY DEF Surjection
  <2>3. /\ Cardinality(fused) <= Cardinality(record.tracks)
        /\ Cardinality(fused) \in Nat /\ Cardinality(record.tracks) \in Nat
    <3> HIDE DEF fuse, fused
    <3> QED BY <1>4, <2>2, FS_Surjection, FS_CardinalityType
  <2>4. \A t \in fused : Passes(t)
    BY <1>3, FusedTrackPasses
  <2> HIDE DEF fused, f
  <2> QED BY <1>4, <2>1, <2>3, <2>4
<1>11. Carries(f, record)
  BY <1>1, <1>4, <1>5, <1>6, <1>7 DEF Carries
<1> HIDE DEF f
<1>8. frames' = Append(frames, f) /\ IsSeq(frames)
  BY <1>1 DEF f, FusionInv, Fused
<1>9. /\ DOMAIN frames' = 1 .. last /\ frames'[last] = f /\ DOMAIN frames = 1 .. Len(frames)
      /\ \A i \in DOMAIN frames : frames'[i] = frames[i]
  BY <1>8, AppendOne
<1>10. \A i \in DOMAIN frames' : i \in DOMAIN frames \/ i = last
  BY <1>2, <1>9
<1> QED BY <1>9, <1>10, <1>11 DEF Assembling, record

LEMMA PerceptionStaysShort ==
  ASSUME Identities, Assembling, [Next]_chainVars
  PROVE  Len(lines') = frame' /\ frame' <= MaxFrames + 1
<1>1. MaxFrames \in Nat /\ frame \in Nat
  BY TrackerAssumption DEF Identities
<1>2. CASE \E rows \in RowSets : EmitFrame(rows)
  <2>1. /\ frame < (IF source = "image" THEN 1 ELSE MaxFrames) /\ frame' = frame + 1
        /\ \E e : lines' = Append(lines, e)
    BY <1>2 DEF EmitFrame, HasFrame
  <2>2. Len(lines') = Len(lines) + 1
    BY <2>1, AppendOne DEF Identities
  <2> QED BY <1>1, <2>1, <2>2 DEF Assembling
<1>3. CASE UNCHANGED <<lines, frame>>
  BY <1>3 DEF Assembling
<1>4. \/ \E rows \in RowSets : EmitFrame(rows)
      \/ UNCHANGED <<lines, frame>>
  BY DEF Next, chainVars, PerceptionNext, HandOver, AskForSelected, AskForAll, Inferring,
         DeliverPredictions, AnswerElsewhere, BeginReplay, RejectReplay, Replaying,
         perceptionVars, Stop, TearLine, HasFrame
<1> QED BY <1>2, <1>3, <1>4

LEMMA StepKeepsAssembling ==
  ASSUME Identities, FusionInv, Account, Assembling, [Next]_chainVars
  PROVE  Assembling'
<1>1. Len(lines') = frame' /\ frame' <= MaxFrames + 1
  BY PerceptionStaysShort
<1>2. handed' # Absent => Short(handed'.records)
  <2>1. CASE HandOver
    <3>1. PICK r \in OnTheWay(lines) : handed' = [records |-> r, torn |-> torn]
      BY <2>1 DEF HandOver
    <3>2. Len(r) <= Len(lines) + 1 /\ IsSeq(r)
      BY OnTheWayIsSeq DEF FusionInv
    <3>3. Len(r) \in Nat /\ frame \in Nat /\ MaxFrames \in Nat
      BY <3>2, SeqPositions, TrackerAssumption DEF Identities
    <3> QED BY <3>1, <3>2, <3>3 DEF Assembling, Short
  <2>2. CASE handed' = handed
    BY <2>2 DEF Assembling, Short
  <2>3. HandOver \/ handed' = handed
    BY DEF Next, chainVars, Perceiving, AskForSelected, AskForAll, Inferring,
           DeliverPredictions, AnswerElsewhere, BeginReplay, RejectReplay, Replaying
  <2> QED BY <2>1, <2>2, <2>3
<1> DEFINE Rest ==
      /\ Short(given)
      /\ replay \notin {"idle", "failed"} => given # <<>>
      /\ \A i \in DOMAIN frames : Carries(frames[i], given[i])
      /\ replay \in {"fusing"} \union Made =>
           ValidRuntime(config) /\ \A i \in DOMAIN given : given[i].camera = config.camera
      /\ replay \in Made =>
           /\ Len(frames) = Len(given)
           /\ scenario = [timeline |-> Timeline(frames), seed |-> 1, reference |-> ReferenceLength]
<1>3. Rest
  BY DEF Assembling
<1>4. CASE BeginReplay
  <2>1. /\ given' = handed.records /\ Short(handed.records) /\ replay' = "parsed" /\ given' # <<>>
        /\ frames' = <<>>
    BY <1>4 DEF BeginReplay, StartReplay, ValidPerceptions, Assembling, Account
  <2> QED BY <1>1, <1>2, <2>1 DEF Assembling, Short, Made
<1>5. CASE FuseOne
  <2>1. /\ given' = given /\ told' = told /\ config' = config /\ scenario' = scenario
        /\ replay = "fusing" /\ replay' = "fusing"
    BY <1>5 DEF FuseOne
  <2>2. (\A i \in DOMAIN frames : Carries(frames[i], given[i]))'
    <3>1. \A i \in DOMAIN frames' : Carries(frames'[i], given[i])
      BY <1>5, FusedFrameCarries DEF Account
    <3> QED BY <2>1, <3>1 DEF Carries, Passes, SomeOverfull
  <2> QED BY <1>1, <1>2, <1>3, <2>1, <2>2 DEF Assembling, Short, Made
<1>6. CASE Assemble
  <2>1. /\ given' = given /\ told' = told /\ config' = config /\ frames' = frames
        /\ Len(frames) = Len(given)
        /\ replay = "fusing" /\ replay' = "assembled"
        /\ scenario' = [timeline |-> Timeline(Sorted(frames, Sooner)), seed |-> 1,
                        reference |-> ReferenceLength]
    BY <1>6 DEF Assemble
  <2>2. Sorted(frames, Sooner) = frames
    <3>1. IsSeq(frames)
      BY DEF FusionInv, Fused
    <3>2. /\ \A i \in DOMAIN frames : frames[i].deliverAt \in Int /\ frames[i].sequence \in Int
          /\ \A i, j \in DOMAIN frames : i < j => Sooner(frames[i], frames[j])
      BY FramesAreInOrder DEF Account
    <3> QED BY <3>1, <3>2, SoonerStays
  <2>3. scenario' = [timeline |-> Timeline(frames'), seed |-> 1, reference |-> ReferenceLength]
    BY <2>1, <2>2
  <2> QED BY <1>1, <1>2, <1>3, <2>1, <2>3 DEF Assembling, Short, Made, Carries, Passes, SomeOverfull
<1>7. CASE CheckConfig
  BY <1>1, <1>2, <1>3, <1>7
     DEF Assembling, Short, CheckConfig, Made, Carries, Passes, SomeOverfull
<1>8. CASE /\ UNCHANGED <<given, told, frames, config, scenario>>
           /\ replay' \in {replay, "failed"} \/ (replay \in Made /\ replay' \in Made)
  BY <1>1, <1>2, <1>3, <1>8 DEF Assembling, Short, Made, Carries, Passes, SomeOverfull
<1>9. CASE Simulate \/ WriteOutput \/ StopReplay \/ EditConfig
  BY <1>8, <1>9 DEF Simulate, WriteOutput, StopReplay, EditConfig, Made
<1>10. CASE RejectReplay
  BY <1>8, <1>10 DEF RejectReplay, RejectStreams
<1>11. CASE UNCHANGED fusionVars
  BY <1>8, <1>11 DEF fusionVars
<1> QED BY <1>4, <1>5, <1>6, <1>7, <1>9, <1>10, <1>11
        DEF Next, chainVars, FusionNext, Perceiving, HandOver, AskForSelected, AskForAll, Inferring,
            DeliverPredictions, AnswerElsewhere

\* What the command assembles, the simulator's loader accepts, whatever the
\* streams, the configuration and their edits; only the things the command
\* leaves unchecked, named in Unchecked, may be refused (execute_shadow,
\* load_contracts).
THEOREM AssembledIsAlwaysLoadable == Spec => []AssembledIsLoadable
<1>1. ChainInit => Account /\ Answered /\ Assembling
  <2>1. IsSeq(<<>>) /\ DOMAIN <<>> = {} /\ Len(<<>>) = 0
    BY EmptySeq DEF IsSeq
  <2>2. MaxFrames \in Nat
    BY TrackerAssumption
  <2> QED BY <2>1, <2>2
          DEF ChainInit, Init, ReplayIdle, Idle, Account, Answered, Parsed, OrderedObservations,
              OrderedPredictions, Made, Assembling, Short
<1>2. ChainInit => Evidence /\ Identities /\ OneBirthPerIdentity
  BY EmptySeq, NoAnswers DEF ChainInit, Init, Idle, Evidence, Identities, OneBirthPerIdentity, IsSeq
<1>3. FusionInv /\ Account /\ Assembling => AssembledIsLoadable
  BY AssemblyIsLoadable DEF Account, AssembledIsLoadable, Made
<1>4. Identities /\ FusionInv /\ Account /\ Assembling /\ [Next]_chainVars => Assembling'
  BY StepKeepsAssembling
<1> QED BY <1>1, <1>2, <1>3, <1>4, FusionInvHolds, StepKeepsIdentities, StepKeepsEvidence,
           StepKeepsAnswered, StepKeepsAccount, PTL DEF Spec
=============================================================================
