------------------------ MODULE MCIncidentAssembler ------------------------
(***************************************************************************)
(* The assembler on streams of four records, two ticks apart, and the      *)
(* incident that the recorder makes of them.                               *)
(***************************************************************************)
EXTENDS IncidentAssembler

\* A cat in the approach zone by share tenths, or beside it.
Cat(id, share) ==
  [id |-> id, class |-> "CAT", box |-> [x |-> 0, w |-> 10], behavior |-> "UNKNOWN",
   zone |-> IF share > 0 THEN 1 ELSE NoZone, noFire |-> FALSE,
   region |-> [approach |-> share, foliage |-> 0, soil |-> 0]]

Evidence(cat) ==
  [track |-> cat.id, noFire |-> 0,
   overlaps |-> {[zone |-> 1, type |-> "approach", overlap |-> cat.region["approach"]]}]

Record(n, at, cats) ==
  [sequence |-> n, index |-> n, at |-> at, camera |-> "camera", observation |-> n,
   shape |-> "valid", tracks |-> cats, catCount |-> Cardinality(cats), person |-> FALSE,
   evidence |-> {Evidence(c) : c \in cats}]

Stream(sightings) == [i \in DOMAIN sightings |-> Record(i, 2 * i - 2, sightings[i])]

\* A cat that stays in sight; one that is lost for a frame and comes back
\* beside the zone; one that another follows; two at once.
Alone == Stream(<<{Cat(1, 5)}, {Cat(1, 5)}, {Cat(1, 5)}, {Cat(1, 5)}>>)
Lost == Stream(<<{Cat(1, 5)}, {}, {Cat(1, 5)}, {Cat(1, 0)}>>)
Followed == Stream(<<{Cat(1, 5)}, {Cat(1, 5)}, {Cat(2, 5)}, {Cat(2, 5)}>>)
Together == Stream(<<{Cat(1, 5)}, {Cat(1, 5), Cat(2, 3)}, {Cat(1, 5)}, {Cat(1, 5)}>>)

\* Two frames of one time, the second without a trigger.
Hasty ==
  [i \in 1 .. 4 |-> Record(i, <<0, 2, 2, 4>>[i], {Cat(1, IF i = 3 THEN 0 ELSE 5)})]

MCStreams == {Alone, Lost, Followed, Together, Hasty}

Footage(stream) == [i \in DOMAIN stream |-> stream[i].at]

\* The recorder's metadata of these records.
MetaOf(stream) ==
  LET samples == Recomputed(stream, 1)
  IN [shape |-> "valid", id |-> <<samples[1].at, samples[1].sequence>>, minimum |-> 1,
      camera |-> "camera", samples |-> samples, bindings |-> Unbound,
      startSequence |-> stream[1].sequence, endSequence |-> stream[Len(stream)].sequence,
      startAt |-> stream[1].at, endAt |-> stream[Len(stream)].at,
      firstTrigger |-> samples[1].at, lastTrigger |-> samples[Len(samples)].at,
      frameCount |-> Len(stream), clip |-> [footage |-> Footage(stream), shape |-> "valid"]]

BoundMeta(stream) ==
  [MetaOf(stream) EXCEPT !.bindings = [i \in DOMAIN stream |-> Binding(stream[i])]]

IncidentOf(meta) ==
  [name |-> meta.id, meta |-> meta, clip |-> meta.clip, entries |-> {"metadata.json", "clip.avi"}]

\* As recorded, of a stream or its end; with the clip of another incident, the frames of another
\* stream, one frame short, or half evicted.
MCIncidents ==
  {IncidentOf(MetaOf(s)) : s \in MCStreams}
    \union {IncidentOf(BoundMeta(Alone)), IncidentOf(MetaOf(SubSeq(Alone, 2, 4))),
            [IncidentOf(MetaOf(Alone)) EXCEPT !.clip.footage = <<0, 2, 4, 9>>],
            [IncidentOf(MetaOf(Alone)) EXCEPT !.meta.frameCount = 3],
            [IncidentOf(MetaOf(Lost)) EXCEPT !.entries = {"metadata.json"}]}
=============================================================================
