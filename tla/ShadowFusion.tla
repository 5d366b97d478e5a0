---------------------------- MODULE ShadowFusion ----------------------------
(***************************************************************************)
(* The shadow replay command (cli.py, runner.py, fusion.py): it joins the  *)
(* behaviour predictions to the perception records by exact identity, one  *)
(* record after the other, decides when each record would have reached the *)
(* policy, assembles a scenario, runs it against the simulated device and  *)
(* writes its outputs.  The configuration is read from a file that may     *)
(* change under it.                                                        *)
(***************************************************************************)
EXTENDS ShadowStreams, ScenarioContract

CONSTANTS
  Timeout,             \* prediction_timeout_ms
  MaxLatency,          \* max_prediction_latency_ms
  Configs,             \* contents the configuration file may have
  OutputNames,         \* the outputs asked for, in the order they are written
  ReferenceLength,     \* length of the configuration's resolved path
  MaxEdits,            \* bound: edits of the configuration file
  NoPreset, NoSequence, Absent

ASSUME FusionAssumption ==
  /\ MaxAuditAge \in Nat /\ Timeout \in 0 .. MaxAuditAge /\ MaxLatency \in 0 .. MaxAuditAge
  /\ MaxEdits \in Nat /\ ReferenceLength \in Nat /\ NoSequence \notin Nat
  /\ SumSlack <= ScoreSlack

VARIABLES
  given,         \* the perception records, parsed
  told,          \* the predictions, parsed
  replay,        \* where the command stands
  configFile,    \* the configuration on disk
  edits,
  config,        \* runtime_config
  frames,        \* the fused frames, in the order they were joined
  previousDelivery,
  diagnostics,
  scenario,
  outputs        \* how many of OutputNames are this run's

fusionVars == <<given, told, replay, configFile, edits, config, frames,
                previousDelivery, diagnostics, scenario, outputs>>

-----------------------------------------------------------------------------
(* The join of one track: fuse_streams, _canonical_behavior, _safe_preset. *)

Predicted(key) == \E i \in DOMAIN told : told[i].key = key
PredictionOf(key) == told[CHOOSE i \in DOMAIN told : told[i].key = key]
Latency(record, track) == PredictionOf(KeyOf(record, track)).predictedAt - record.at

\* With the default bounds the timeout is the shorter one and nothing is LATE.
Status(record, track) ==
  IF ~Predicted(KeyOf(record, track)) THEN "MISSING"
  ELSE IF PredictionOf(KeyOf(record, track)).at # record.at THEN "CAPTURE_MISMATCH"
  ELSE IF Latency(record, track) > Timeout THEN "TIMED_OUT"
  ELSE IF Latency(record, track) > MaxLatency THEN "LATE"
  ELSE "FUSED"

\* Slip: a prediction that is already in the file is not waited for.
NoWait(record, track) ==
  IF Status(record, track) = "FUSED" THEN record.at ELSE record.at + Timeout

\* Until when the record waits for this track.
Deadline(record, track) ==
  IF Status(record, track) \in {"LATE", "FUSED"}
  THEN PredictionOf(KeyOf(record, track)).predictedAt
  ELSE record.at + Timeout

PolicyLabel(label) ==
  CASE label \in {"PASSING", "SNIFFING"} -> "CLEAR"
    [] label \in {"EATING", "DIGGING"} -> label
    [] OTHER -> "UNKNOWN"

FusedBehavior(record, track) ==
  IF Status(record, track) = "FUSED"
  THEN PolicyLabel(PredictionOf(KeyOf(record, track)).label)
  ELSE "UNKNOWN"

SafePreset(zone) ==
  LET candidates == {p \in config.presets : p.zone = zone}
  IN IF Cardinality(candidates) = 1 THEN (CHOOSE p \in candidates : TRUE).id ELSE NoPreset

\* The six probabilities become four scores, two of them sums.
Scores(probs) ==
  [CLEAR |-> probs["PASSING"] + probs["SNIFFING"], DIGGING |-> probs["DIGGING"],
   EATING |-> probs["EATING"], UNKNOWN |-> probs["OTHER"] + probs["UNKNOWN"]]

UnknownScores == [CLEAR |-> 0, DIGGING |-> 0, EATING |-> 0, UNKNOWN |-> WireSteps]

FusedScores(record, track) ==
  IF Status(record, track) = "FUSED" THEN Scores(PredictionOf(KeyOf(record, track)).probs)
  ELSE UnknownScores

\* A person has no behaviour: the sentinel stands for none.
FusedTrack(record, track) ==
  [id |-> track.id, class |-> track.class, zone |-> track.zone, noFire |-> track.noFire,
   behavior |-> IF track.class = "CAT" THEN FusedBehavior(record, track) ELSE "UNKNOWN",
   scores |-> IF track.class = "CAT" THEN FusedScores(record, track) ELSE UnknownScores,
   preset |-> IF track.class = "CAT" THEN SafePreset(track.zone) ELSE NoPreset,
   box |-> track.box]

Diagnosis(record, track) ==
  [status |-> Status(record, track), key |-> KeyOf(record, track), perception |-> record.sequence,
   prediction |-> IF Predicted(KeyOf(record, track))
                  THEN PredictionOf(KeyOf(record, track)).sequence ELSE NoSequence]

Waits(record) == {record.at} \union {Deadline(record, t) : t \in Cats(record)}

\* Slip: a record does not wait for the one before it.
DeliveryTimesAlone(record) == Waits(record)

\* A record is never delivered before an earlier one.
DeliveryTimes(record) == Waits(record) \union {previousDelivery}
Latest(d, times) == d \in times /\ \A e \in times : e <= d

-----------------------------------------------------------------------------

ReplayIdle ==
  /\ given = <<>> /\ told = <<>> /\ replay = "idle"
  /\ configFile = Absent /\ config = Absent /\ edits = 0
  /\ frames = <<>> /\ previousDelivery = 0 /\ diagnostics = {}
  /\ scenario = Absent /\ outputs = 0

\* main: both streams are parsed, then the configuration is read, whatever
\* the file holds by then.
StartReplay(perceptions, behaviors) ==
  /\ replay = "idle"
  /\ Readable(perceptions) /\ ValidPerceptions(perceptions.records)
  /\ Readable(behaviors) /\ ValidPredictions(behaviors.records)
  /\ given' = perceptions.records /\ told' = behaviors.records
  /\ configFile' \in Configs
  /\ config' = configFile'
  /\ replay' = "parsed"
  /\ UNCHANGED <<edits, frames, previousDelivery, diagnostics, scenario, outputs>>

RejectStreams(perceptions, behaviors) ==
  /\ replay = "idle"
  /\ \/ ~Readable(perceptions) \/ ~ValidPerceptions(perceptions.records)
     \/ ~Readable(behaviors) \/ ~ValidPredictions(behaviors.records)
  /\ replay' = "failed"
  /\ UNCHANGED <<given, told, configFile, edits, config, frames, previousDelivery,
                 diagnostics, scenario, outputs>>

\* _validate_zone_identities
KnowsZones ==
  \A i \in DOMAIN given : \A e \in given[i].evidence : \A o \in e.overlaps :
    \E z \in config.zones : z.id = o.zone /\ z.type = o.type

\* Slip: the configuration is compared with the file, but not checked.
CheckSnapshotOnly ==
  /\ replay = "parsed"
  /\ configFile = config
  /\ KnowsZones
  /\ replay' = "fusing"
  /\ UNCHANGED <<given, told, configFile, edits, config, frames, previousDelivery,
                 diagnostics, scenario, outputs>>

\* execute_shadow up to the loop: the file must still hold what was read.
CheckConfig ==
  /\ replay = "parsed"
  /\ configFile = config
  /\ ValidRuntime(config)
  /\ KnowsZones
  /\ \A i \in DOMAIN given : given[i].camera = config.camera
  /\ replay' = "fusing"
  /\ UNCHANGED <<given, told, configFile, edits, config, frames, previousDelivery,
                 diagnostics, scenario, outputs>>

\* One turn of the loop over the perception records.
FuseOne ==
  /\ replay = "fusing"
  /\ Len(frames) < Len(given)
  /\ LET record == given[Len(frames) + 1]
     IN \E at \in DeliveryTimes(record) :
          /\ Latest(at, DeliveryTimes(record))
          /\ at - record.at <= MaxAuditAge
          /\ frames' = Append(frames,
               [deliverAt |-> at, at |-> record.at, sequence |-> record.sequence,
                observation |-> record.observation, camera |-> record.camera,
                tracks |-> {FusedTrack(record, t) : t \in record.tracks}])
          /\ previousDelivery' = at
          /\ diagnostics' = diagnostics \union {Diagnosis(record, t) : t \in Cats(record)}
  /\ UNCHANGED <<given, told, replay, configFile, edits, config, scenario, outputs>>

\* Slip: a prediction that was refused counts as unmatched too.
UnmatchedUnlessFused(p) == \A d \in diagnostics : d.key = p.key => d.status # "FUSED"

Unmatched(p) == \A d \in diagnostics : d.key # p.key

\* Predictions nobody waited for are reported, and the scenario is made: the
\* arming, every frame at its delivery, a last tick.
Sooner(f, g) ==
  f.deliverAt < g.deliverAt \/ (f.deliverAt = g.deliverAt /\ f.sequence < g.sequence)

Timeline(sorted) ==
  LET last == Len(sorted)
  IN <<[at |-> 0, sequence |-> 0, type |-> "CONTROL", event |-> 0]>>
     \o [k \in 1 .. last |-> [at |-> sorted[k].deliverAt, sequence |-> k, type |-> "OBSERVATION",
                              event |-> k, record |-> sorted[k]]]
     \o <<[at |-> sorted[last].deliverAt + 10, sequence |-> last + 1, type |-> "TICK",
           event |-> last + 1]>>

Assemble ==
  /\ replay = "fusing"
  /\ Len(frames) = Len(given)
  /\ diagnostics' = diagnostics \union
       {[status |-> "UNMATCHED_PREDICTION", key |-> told[i].key, perception |-> NoSequence,
         prediction |-> told[i].sequence] : i \in {j \in DOMAIN told : Unmatched(told[j])}}
  /\ scenario' = [timeline |-> Timeline(Sorted(frames, Sooner)), seed |-> 1,
                  reference |-> ReferenceLength]
  /\ replay' = "assembled"
  /\ UNCHANGED <<given, told, configFile, edits, config, frames, previousDelivery, outputs>>

\* The scenario is loaded with the snapshot of the configuration, run to get
\* its expectations, run twice against them, and judged.
Simulate ==
  /\ replay = "assembled"
  /\ Loadable(scenario, config)
  /\ replay' = "writing"
  /\ UNCHANGED <<given, told, configFile, edits, config, frames, previousDelivery,
                 diagnostics, scenario, outputs>>

\* Each output replaces its file whole, one after the other.
WriteOutput ==
  /\ replay = "writing"
  /\ outputs < Len(OutputNames)
  /\ outputs' = outputs + 1
  /\ replay' = IF outputs + 1 = Len(OutputNames) THEN "done" ELSE "writing"
  /\ UNCHANGED <<given, told, configFile, edits, config, frames, previousDelivery,
                 diagnostics, scenario>>

\* A check that does not hold, a safety violation in the replay, a file that
\* cannot be written, or a kill.
StopReplay ==
  /\ replay \in {"parsed", "fusing", "assembled", "writing"}
  /\ replay' = "failed"
  /\ UNCHANGED <<given, told, configFile, edits, config, frames, previousDelivery,
                 diagnostics, scenario, outputs>>

EditConfig ==
  /\ replay \in {"parsed", "fusing", "assembled"}
  /\ edits < MaxEdits
  /\ \E c \in Configs \ {configFile} : configFile' = c
  /\ edits' = edits + 1
  /\ UNCHANGED <<given, told, replay, config, frames, previousDelivery, diagnostics,
                 scenario, outputs>>

FusionNext ==
  \/ CheckConfig
  \/ FuseOne
  \/ Assemble
  \/ Simulate
  \/ WriteOutput
  \/ StopReplay
  \/ EditConfig

-----------------------------------------------------------------------------
(* Properties. *)

\* Replay shows the policy the captures in their order, each no earlier than
\* it was taken and no later than the timeout after it, however the
\* predictions crossed; waiting behind an earlier record adds nothing to it.
DeliveredInOrderAndInTime ==
  /\ \A i \in DOMAIN frames :
       /\ frames[i].observation = given[i].observation
       /\ frames[i].at <= frames[i].deliverAt
       /\ frames[i].deliverAt <= frames[i].at + Timeout
  /\ \A i, j \in DOMAIN frames : i < j => frames[i].deliverAt <= frames[j].deliverAt

\* What a frame says of a behaviour was known when it is delivered: the
\* prediction was made for this very track of this capture, and not later
\* than the delivery.
NoForesight ==
  \A i \in DOMAIN frames : \A t \in frames[i].tracks :
    t.behavior # "UNKNOWN" =>
      \E k \in DOMAIN told :
        /\ told[k].key = <<frames[i].observation, t.id>>
        /\ told[k].at = frames[i].at
        /\ told[k].predictedAt <= frames[i].deliverAt
        /\ PolicyLabel(told[k].label) = t.behavior

\* No prediction is used twice or lost without a word: once the scenario is
\* made, each one is in exactly one diagnostic, each cat in exactly one too.
EveryPredictionIsAccountedFor ==
  replay \in {"assembled", "writing", "done"} =>
    /\ \A k \in DOMAIN told :
         Cardinality({d \in diagnostics : d.prediction = told[k].sequence}) = 1
    /\ \A key \in Keys(given) :
         Cardinality({d \in diagnostics : d.key = key /\ d.perception # NoSequence}) = 1

\* What the command does not check before it assembles, and the simulator's
\* schemas refuse: the rest of the configuration, the length of its path and
\* of the timeline, room for the last tick, and two probabilities that add up
\* to more than 1.0.
Overfull(p) == \/ p.probs["PASSING"] + p.probs["SNIFFING"] > WireSteps
               \/ p.probs["OTHER"] + p.probs["UNKNOWN"] > WireSteps

Unchecked ==
  \/ config.shape # "valid"
  \/ ReferenceLength > MaxReference
  \/ Len(given) + 2 > MaxTimeline
  \/ previousDelivery + 10 > MaxSafeInteger
  \/ \E k \in DOMAIN told : Overfull(told[k])

\* The command does not fail on what it assembled itself: its scenario and
\* the configuration pass the simulator's loader, and nothing but the things
\* it leaves unchecked can make them fail there.
AssembledIsLoadable ==
  replay \in {"assembled", "writing", "done"} => Loadable(scenario, config) \/ Unchecked
=============================================================================
