-------------------------- MODULE IncidentContract --------------------------
(***************************************************************************)
(* What the assembler demands of a recorded incident and of the perception *)
(* stream it was recorded from (assembler/core.py).  Pure operators.  An   *)
(* incident is its metadata, its clip and the other entries of its         *)
(* directory; the bytes of a clip stand for their own hash.  Field by      *)
(* field syntax is folded into the mark "shape".                           *)
(***************************************************************************)
EXTENDS ShadowStreams, Ranking

CONSTANTS
  MaxIncidentFrames,   \* MAX_INCIDENT_FRAMES
  Unbound              \* metadata without perception_provenance

-----------------------------------------------------------------------------
(* metadata.json: _validate_trigger, _validate_perception_provenance and   *)
(* _validate_metadata.                                                     *)

StrictlyOrdered(items) ==
  \A i, j \in DOMAIN items : i < j =>
    items[i].at < items[j].at /\ items[i].sequence < items[j].sequence

ValidTrigger(meta) ==
  /\ meta.samples # <<>>
  /\ \A i \in DOMAIN meta.samples :
       /\ meta.samples[i].sequence \in meta.startSequence .. meta.endSequence
       /\ meta.samples[i].at \in meta.startAt .. meta.endAt
       /\ meta.samples[i].overlap >= meta.minimum
       /\ meta.samples[i].tracks # {}
  /\ StrictlyOrdered(meta.samples)

\* One binding for each encoded frame, in the order of the frames.
ValidProvenance(meta) ==
  /\ Len(meta.bindings) = meta.frameCount
  /\ \A i \in DOMAIN meta.bindings :
       meta.bindings[i].sequence \in meta.startSequence .. meta.endSequence
  /\ StrictlyOrdered(meta.bindings)
  /\ \A i, j \in DOMAIN meta.bindings :
       i # j => meta.bindings[i].observation # meta.bindings[j].observation

\* The name of an incident is its first trigger.
NameOf(meta) == <<meta.samples[1].at, meta.samples[1].sequence>>

ValidMetadata(meta, name) ==
  /\ meta.shape = "valid"
  /\ meta.id = name
  /\ meta.startSequence <= meta.endSequence
  /\ meta.startAt <= meta.endAt
  /\ meta.startAt <= meta.firstTrigger /\ meta.firstTrigger <= meta.lastTrigger
  /\ meta.lastTrigger <= meta.endAt
  /\ meta.frameCount > 0 /\ meta.frameCount <= MaxIncidentFrames
  /\ meta.bindings # Unbound => ValidProvenance(meta)
  /\ ValidTrigger(meta)
  /\ meta.samples[1].at = meta.firstTrigger
  /\ meta.samples[Len(meta.samples)].at = meta.lastTrigger
  /\ name = NameOf(meta)

\* _open_incident: the directory holds the metadata and its clip, no more.
Openable(incident) ==
  /\ ValidMetadata(incident.meta, incident.name)
  /\ incident.entries = {"metadata.json", "clip.avi"}

-----------------------------------------------------------------------------
(* _reconcile_perceptions. *)

Qualifying(record, minimum) == {t \in Cats(record) : t.region["approach"] >= minimum}

TriggerSample(record, minimum) ==
  LET overlaps == {t.region["approach"] : t \in Qualifying(record, minimum)}
  IN [at |-> record.at, sequence |-> record.sequence,
      overlap |-> CHOOSE o \in overlaps : \A p \in overlaps : p <= o,
      tracks |-> {t.id : t \in Qualifying(record, minimum)}]

\* The records from the incident's first to its last sequence.
RecordsOf(stream, meta) ==
  LET within == Ascending({i \in DOMAIN stream :
                              stream[i].sequence \in meta.startSequence .. meta.endSequence})
  IN [k \in DOMAIN within |-> stream[within[k]]]

\* What the recorder must have seen as triggers in them.
Recomputed(records, minimum) ==
  LET triggers == SelectSeq(records, LAMBDA r : Qualifying(r, minimum) # {})
  IN [i \in DOMAIN triggers |-> TriggerSample(triggers[i], minimum)]

\* A binding holds the record itself, for its hash.
Binding(record) ==
  [at |-> record.at, sequence |-> record.sequence, observation |-> record.observation,
   record |-> record]

\* Slip: a perception stream may repeat a time.
NeverEarlier(records) ==
  \A i, j \in DOMAIN records : i < j => records[i].at <= records[j].at

StrictlyLater(records) ==
  \A i, j \in DOMAIN records : i < j => records[i].at < records[j].at

Reconciles(records, meta) ==
  /\ Len(records) = meta.frameCount
  /\ records[1].sequence = meta.startSequence /\ records[1].at = meta.startAt
  /\ records[Len(records)].sequence = meta.endSequence
  /\ records[Len(records)].at = meta.endAt
  /\ StrictlyLater(records)
  /\ \A i \in DOMAIN records : records[i].camera = meta.camera
  /\ Recomputed(records, meta.minimum) = meta.samples
  /\ meta.bindings # Unbound => meta.bindings = [i \in DOMAIN records |-> Binding(records[i])]

\* _decode_rgb_clip: as many frames as the metadata declares.
Decodes(clip, meta) == clip.shape = "valid" /\ Len(clip.footage) = meta.frameCount
=============================================================================
