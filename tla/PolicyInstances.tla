--------------------------- MODULE PolicyInstances ---------------------------
(* The frames, snapshots, clocks and devices the small instances try. *)
EXTENDS ActuatorModel, Integers

CONSTANTS a, b, pot

Harmful(cat) ==
  [cats |-> 1, ambiguous |-> FALSE, person |-> FALSE, track |-> cat,
   behavior |-> "Eating", confident |-> TRUE, inRegion |-> TRUE, quality |-> TRUE,
   noFire |-> FALSE, preset |-> pot, valid |-> TRUE]

Eating == Harmful(a)
Other == Harmful(b)                       \* the tracker changed the cat's id
Digging == [Harmful(a) EXCEPT !.behavior = "Digging"]
Passing == [Harmful(a) EXCEPT !.behavior = "Clear"]
Corrupt == [Harmful(a) EXCEPT !.valid = FALSE]
Empty == [Harmful(a) EXCEPT !.cats = 0, !.track = None, !.behavior = "Clear",
                            !.quality = FALSE, !.preset = None]

Unreachable == [HealthyStatus EXCEPT !.connected = FALSE]
DeviceFault == [HealthyStatus EXCEPT !.armed = TRUE, !.fault = TRUE]

\* Everything well: the shortest frames and calls that go through a burst.
CalmShapes == {Eating, Empty}
IncidentShapes == {Eating, Other, Empty}
EvidenceShapes == {Eating, Other, Digging, Passing}
FaultShapes == {Eating, Corrupt}
NoFaults == {{}}
SomeFaults == {{}, {"WatchdogUnhealthy"}}
NoDevices == {}
Vanishing == {Unreachable}
SomeDevices == {Unreachable, DeviceFault}
Backwards == {-1, 1}
BackAndForth == {-1, 0, 1}
=============================================================================
