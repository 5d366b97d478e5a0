-------------------------- MODULE ScenarioContract --------------------------
(***************************************************************************)
(* What the simulator accepts before it runs a scenario: the runtime       *)
(* configuration and the timeline of inputs (validation.py of the          *)
(* simulator).  Pure operators, used by the shadow package, which writes   *)
(* such scenarios.  A zone's polygon is left out; series of observations   *)
(* and expectations, which an assembly does not have yet, are too.  What   *)
(* only the configuration's schema asks for is folded into "shape".        *)
(***************************************************************************)
EXTENDS WireValues, Ranking, Sequences

CONSTANTS
  MaxAuditAge,         \* 30 000 ms in the code
  MaxTimeline,         \* entries of a timeline (100 000)
  MaxSequence,         \* sequence of an entry (1 000 000)
  MaxReference,        \* length of config_ref (1024)
  ScoreSlack           \* 0.01: how far a sum of scores may be from 1.0

ASSUME ScenarioAssumption ==
  /\ MaxTimeline \in Nat /\ MaxSequence \in Nat /\ MaxTimeline <= MaxSequence + 1
  /\ MaxReference \in Nat /\ ScoreSlack \in Nat

Plants(config, type) == {z.plant : z \in {y \in config.zones : y.type = type}}

\* validate_runtime_semantics
ValidScene(config) ==
  /\ \A y, z \in config.zones : y.id = z.id => y = z
  /\ \A z \in config.zones : z.type = "approach" =>
       z.plant \in Plants(config, "foliage") \intersect Plants(config, "soil")
  /\ \A p, q \in config.presets : p.id = q.id => p = q
  /\ \A p \in config.presets : \E z \in config.zones : z.id = p.zone /\ z.type = "approach"

OffTheRails(config) == config.mode # "LIVE" /\ (config.physical \/ config.backend = "SERIAL")

ValidRuntime(config) ==
  /\ ValidScene(config)
  /\ config.burst <= config.burstClamp
  /\ ~OffTheRails(config)
  /\ config.mode = "SIMULATION"
  /\ config.clock = "VIRTUAL"
  /\ config.cameraSource = "SCRIPTED"
  /\ config.backend = "MOCK"
  /\ ~config.physical

-----------------------------------------------------------------------------

IsObservation(e) == e.type = "OBSERVATION"

Precedes(d, e) == d.at < e.at \/ (d.at = e.at /\ d.sequence < e.sequence)

PolicyScores == {"CLEAR", "DIGGING", "EATING", "UNKNOWN"}

\* _validate_schema with scenario.schema.json: the bounds of its numbers.
ScenarioSchema(scenario) ==
  /\ scenario.seed \in 1 .. MaxSafeInteger
  /\ scenario.reference <= MaxReference
  /\ Len(scenario.timeline) \in 1 .. MaxTimeline
  /\ \A i \in DOMAIN scenario.timeline :
       /\ scenario.timeline[i].at \in SafeInteger
       /\ scenario.timeline[i].sequence \in 0 .. MaxSequence
  /\ \A i \in DOMAIN scenario.timeline : IsObservation(scenario.timeline[i]) =>
       /\ scenario.timeline[i].record.at \in SafeInteger
       /\ Cardinality(scenario.timeline[i].record.tracks) <= 64
       /\ \A t \in scenario.timeline[i].record.tracks :
            t.box.x \in Ratio /\ t.box.w \in Ratio \ {0} /\ t.scores \in [PolicyScores -> Ratio]

\* A track of a scenario; the slack for a box, 1e-12, is below one step.
ValidScenarioTrack(t) ==
  /\ t.box.x + t.box.w <= WireSteps
  /\ Near(t.scores["CLEAR"] + t.scores["DIGGING"] + t.scores["EATING"] + t.scores["UNKNOWN"],
          ScoreSlack)

\* validate_scenario_semantics: unique names, a strict order of the keys, no
\* capture in the future, no frame older than the audit contract allows, and
\* command numbers that cannot run out.
ValidTimeline(timeline, seed) ==
  /\ \A i, j \in DOMAIN timeline : i < j =>
       /\ timeline[i].event # timeline[j].event
       /\ Precedes(timeline[i], timeline[j])
  /\ \A i \in DOMAIN timeline : IsObservation(timeline[i]) =>
       /\ timeline[i].record.at <= timeline[i].at
       /\ timeline[i].at - timeline[i].record.at <= MaxAuditAge
       /\ \A s, t \in timeline[i].record.tracks : s.id = t.id => s = t
       /\ \A t \in timeline[i].record.tracks : ValidScenarioTrack(t)
  /\ seed + 2 * Cardinality({i \in DOMAIN timeline : IsObservation(timeline[i])})
       <= MaxSafeInteger

\* expand_timeline without series: the order and the identities again.
Expanded(timeline) == Sorted(timeline, Precedes)

ValidExpansion(timeline) ==
  LET inputs == Expanded(timeline)
  IN \A i, j \in DOMAIN inputs : i < j /\ IsObservation(inputs[i]) /\ IsObservation(inputs[j]) =>
       inputs[i].record.observation # inputs[j].record.observation

\* load_contracts: the scenario can be run with this configuration.
Loadable(scenario, config) ==
  /\ ScenarioSchema(scenario)
  /\ ValidTimeline(scenario.timeline, scenario.seed)
  /\ config.shape = "valid"
  /\ ValidRuntime(config)
  /\ ValidExpansion(scenario.timeline)
  /\ \A i \in DOMAIN scenario.timeline : IsObservation(scenario.timeline[i]) =>
       scenario.timeline[i].record.camera = config.camera
=============================================================================
