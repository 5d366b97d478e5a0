--------------------------- MODULE ShadowStreams ---------------------------
(***************************************************************************)
(* The strict streams at the boundary of the shadow package: what its      *)
(* parsers accept of a perception record and of a behaviour prediction     *)
(* (contracts.py).  Fields that only have a syntax are folded into the     *)
(* mark "shape", and a record's observation and frame identifiers, always  *)
(* used together, into "observation"; what relates one field or one record *)
(* to another is kept.                                                     *)
(***************************************************************************)
EXTENDS WireValues, Sequences, FiniteSets

CONSTANTS
  NoZone,              \* zone_id null
  SumSlack             \* 1e-6: how far a sum of probabilities may be from 1.0

ASSUME SumAssumption == SumSlack \in Nat

\* The labels in their order, which decides between equal probabilities.
LabelOrder == <<"PASSING", "SNIFFING", "EATING", "DIGGING", "OTHER", "UNKNOWN">>
BehaviorLabels == {"DIGGING", "EATING", "OTHER", "PASSING", "SNIFFING", "UNKNOWN"}
ZoneTypes == {"approach", "foliage", "soil", "no_fire"}

Cats(record) == {t \in record.tracks : t.class = "CAT"}

\* The identity that joins a prediction or a request to a track.
KeyOf(record, track) == <<record.observation, track.id>>
Keys(stream) == UNION {{KeyOf(stream[i], t) : t \in Cats(stream[i])} : i \in DOMAIN stream}

-----------------------------------------------------------------------------
(* One perception record. *)

\* The sentinel says that nothing is known of a cat's behaviour yet.
ValidTrack(t) ==
  /\ t.class \in {"CAT", "PERSON"}
  /\ InsideImage(t.box)
  /\ t.class = "CAT" => t.behavior = "UNKNOWN"

ValidEvidence(e) ==
  /\ \A o \in e.overlaps : o.type \in ZoneTypes
  /\ \A o, p \in e.overlaps : o.zone = p.zone => o = p

Maximum(e, type) ==
  LET values == {o.overlap : o \in {p \in e.overlaps : p.type = type}} \union {0}
  IN CHOOSE v \in values : \A w \in values : w <= v

\* The approach zone that the overlaps on the wire name.
DerivedZone(e) ==
  LET touched == {o \in e.overlaps : o.type = "approach" /\ o.overlap > 0}
      Ahead(o, p) == o.overlap > p.overlap \/ (o.overlap = p.overlap /\ o.zone <= p.zone)
  IN IF touched = {} THEN NoZone
     ELSE (CHOOSE o \in touched : \A p \in touched : Ahead(o, p)).zone

\* The policy's view of a cat and the detailed view agree.
Reconciled(t, e) ==
  /\ e.noFire = Maximum(e, "no_fire")
  /\ t.zone = DerivedZone(e)
  /\ \A type \in DOMAIN t.region : t.region[type] = Maximum(e, type)
  /\ t.noFire <=> Maximum(e, "no_fire") > 0

ValidObservation(record) ==
  /\ record.shape = "valid"
  /\ record.at \in SafeInteger /\ record.sequence \in SafeInteger
  /\ record.index = record.sequence
  /\ IsFiniteSet(record.tracks) /\ Cardinality(record.tracks) <= 64
  /\ \A t \in record.tracks : ValidTrack(t)
  /\ \A s, t \in record.tracks : s.id = t.id => s = t
  /\ record.catCount = Cardinality(Cats(record))
  /\ record.person <=> \E t \in record.tracks : t.class = "PERSON"
  /\ \A e \in record.evidence : ValidEvidence(e)
  /\ \A e, f \in record.evidence : e.track = f.track => e = f
  /\ {e.track : e \in record.evidence} = {t.id : t \in record.tracks}
  /\ \A t \in Cats(record) : \A e \in record.evidence :
        e.track = t.id => Reconciled(t, e)

-----------------------------------------------------------------------------
(* The streams. *)

\* Times may stand still from one record to the next, sequences may not.
OrderedObservations(stream) ==
  \A i, j \in DOMAIN stream : i < j =>
    /\ stream[i].at <= stream[j].at
    /\ stream[i].sequence < stream[j].sequence
    /\ stream[i].observation # stream[j].observation
    /\ stream[i].camera = stream[j].camera

ValidPerceptions(stream) ==
  /\ stream # <<>>
  /\ \A i \in DOMAIN stream : ValidObservation(stream[i])
  /\ OrderedObservations(stream)

ProbabilitySum(probs) ==
  probs["PASSING"] + probs["SNIFFING"] + probs["EATING"] + probs["DIGGING"]
    + probs["OTHER"] + probs["UNKNOWN"]

Likeliest(probs) ==
  LabelOrder[CHOOSE i \in DOMAIN LabelOrder : \A j \in DOMAIN LabelOrder :
    \/ probs[LabelOrder[i]] > probs[LabelOrder[j]]
    \/ probs[LabelOrder[i]] = probs[LabelOrder[j]] /\ i <= j]

\* The probabilities almost add up to 1.0, the label is the likeliest one, and
\* the capture cannot follow the prediction.
ValidPrediction(p) ==
  /\ p.shape = "valid"
  /\ p.at \in SafeInteger /\ p.predictedAt \in SafeInteger /\ p.sequence \in SafeInteger
  /\ p.probs \in [BehaviorLabels -> Ratio] /\ Near(ProbabilitySum(p.probs), SumSlack)
  /\ p.label \in BehaviorLabels /\ p.label = Likeliest(p.probs)
  /\ p.at <= p.predictedAt

OrderedPredictions(stream) ==
  \A i, j \in DOMAIN stream : i < j =>
    /\ stream[i].predictedAt <= stream[j].predictedAt
    /\ stream[i].sequence < stream[j].sequence
    /\ stream[i].key # stream[j].key
    /\ stream[i].model = stream[j].model

ValidPredictions(stream) ==
  /\ \A i \in DOMAIN stream : ValidPrediction(stream[i])
  /\ OrderedPredictions(stream)

\* A file is its records, all of them: a torn line rejects the file.
Readable(file) == ~file.torn
=============================================================================
