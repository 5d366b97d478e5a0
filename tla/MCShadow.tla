------------------------------ MODULE MCShadow ------------------------------
(***************************************************************************)
(* A small instance of the chain: an image of 20 pixels with two approach  *)
(* zones and a no-fire zone, frames two ticks apart, two model files.      *)
(***************************************************************************)
EXTENDS ShadowChain

Row(i, c, s, l, r) == [index |-> i, class |-> c, score |-> s, box |-> [l |-> l, r |-> r]]

\* Nothing; a cat, with a box of a class the policy does not use; two cats
\* that both continue it, and one suppressed; a cat beyond the edge of the
\* image with a person.
MCRowSets == {
  {},
  {Row(1, "CAT", 9, 0, 8), Row(2, "OTHER", 9, 0, 8)},
  {Row(1, "CAT", 7, 3, 11), Row(2, "CAT", 7, -3, 5), Row(3, "CAT", 6, 2, 11)},
  {Row(4, "CAT", 9, 12, 24), Row(5, "PERSON", 9, 0, 8), Row(6, "CAT", 2, 0, 8)}}

MCTrackerIou == [num |-> 3, den |-> 10]
MCNmsIou == [num |-> 1, den |-> 2]

MCZones ==
  {[id |-> 1, type |-> "approach", box |-> [l |-> 0, r |-> 7]],
   [id |-> 2, type |-> "approach", box |-> [l |-> 6, r |-> 14]],
   [id |-> 3, type |-> "no_fire", box |-> [l |-> 18, r |-> 20]]}

\* A finer image, where a cat lies in two approach zones by almost the same
\* share: 1999 and 2001 of 4001 pixels.
MCFineRowSets == {{Row(1, "CAT", 9, 0, 4001)}}
MCFineZones ==
  {[id |-> 1, type |-> "approach", box |-> [l |-> 0, r |-> 1999]],
   [id |-> 2, type |-> "approach", box |-> [l |-> 2000, r |-> 4001]]}

Model(artifact, build) == [artifact |-> artifact, build |-> build]
MCModels == {Model("a", 1), Model("a", 2), Model("b", 1)}
MCExpectedModel == Model("a", 1)
MCOtherModel == Model("b", 1)

\* One label for certain; or two that add up to a step more than 1.0.
Surely(label) == [l \in BehaviorLabels |-> IF l = label THEN WireSteps ELSE 0]
Excess(first, second) ==
  [l \in BehaviorLabels |-> IF l = first THEN 600 ELSE IF l = second THEN WireSteps - 599 ELSE 0]
MCNetProbabilities == {Surely("EATING"), Excess("PASSING", "SNIFFING")}

Fate(delay, probs, shift) == [delay |-> delay, probs |-> probs, shift |-> shift]
MCFates == {Fate(1, Surely("EATING"), 0), Fate(2, Excess("OTHER", "UNKNOWN"), 0),
            Fate(3, Surely("DIGGING"), 0), Fate(4, Surely("SNIFFING"), 0),
            Fate(1, Surely("PASSING"), 1)}

Zone(id, type, plant) == [id |-> id, type |-> type, plant |-> plant]

\* Zone 2 has two presets: neither is safe to choose.
MCConfig ==
  [zones |-> {Zone(1, "approach", "p"), Zone(2, "approach", "p"), Zone(3, "no_fire", "p"),
              Zone(4, "foliage", "p"), Zone(5, "soil", "p")},
   presets |-> {[id |-> "x", zone |-> 1], [id |-> "y", zone |-> 2], [id |-> "z", zone |-> 2]},
   burst |-> 1, burstClamp |-> 2, mode |-> "SIMULATION", physical |-> FALSE,
   backend |-> "MOCK", shape |-> "valid", clock |-> "VIRTUAL", cameraSource |-> "SCRIPTED", camera |-> "camera"]

\* One that only the simulator's schema refuses, one for a real device.
MCConfigs == {MCConfig, [MCConfig EXCEPT !.shape = "malformed"], [MCConfig EXCEPT !.backend = "SERIAL"]}
MCOutputNames == <<"output", "scenario", "trace">>
MCDamaged == {<<>>}
=============================================================================
