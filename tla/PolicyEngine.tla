----------------------------- MODULE PolicyEngine -----------------------------
(***************************************************************************)
(* The deterministic safety policy of cpp/src/policy_engine.cpp together   *)
(* with the mock actuator it commands.  One call of PolicyEngine::step is  *)
(* one action: the call caches its inputs, updates the incident latch and  *)
(* then takes exactly one branch, each of which is an action below with    *)
(* every command it sends.  Between two steps the device may change its    *)
(* own status.                                                             *)
(*                                                                         *)
(* Scores are kept as the outcome of their comparison with the configured  *)
(* minimum; audit texts and reason codes are left out.  Unsigned 64-bit    *)
(* quantities have their maximum as a parameter.                           *)
(***************************************************************************)
EXTENDS ActuatorModel, Integers

CONSTANTS
  Tracks, Presets,               \* identifiers supplied by perception
  \* PolicyConfig
  TrackingPersistence, MinTrackingFrames,
  ConfirmationPersistence, MinConfirmationFrames,
  AimSettle,
  EventClearPersistence, MinEventClearFrames,
  PerceptionStaleAfter, SafetyStaleAfter,
  CooldownPeriod, BurstDuration, InitialCommandId,
  \* widths
  MaxTimestamp, MaxFrameId, MaxCommandId,
  \* the callers and devices considered
  ClockSteps,                    \* how far now_ms may move between two steps
  FrameLags,                     \* now_ms minus a frame's observed_at_ms
  FrameSteps,                    \* a frame's id minus the last accepted id
  SafetyLags,                    \* now_ms minus a safety snapshot's time
  FrameShapes,                   \* what frames may show
  SafetyFaults,                  \* sets of interlocks a snapshot may raise
  Omissible,                     \* "frame", "safety": what a call may leave out
  Controls,                      \* control requests the operator may make
  DeviceStatuses,                \* statuses the device may change to by itself
  DeviceReplies                  \* Replies, "Garbled" for one the policy cannot use

Time == 0..MaxTimestamp
FrameIds == 0..MaxFrameId
CommandIds == 1..MaxCommandId

Behaviors == {"Clear", "Eating", "Digging", "Unknown"}

\* What one frame shows: confident, inRegion and quality are the comparisons
\* of behavior_confidence, region_evidence and track_quality with their
\* minimum, valid is valid_score of all three.
FrameShape == [cats : Nat, ambiguous : BOOLEAN, person : BOOLEAN,
               track : Tracks \cup {None}, behavior : Behaviors,
               confident : BOOLEAN, inRegion : BOOLEAN, quality : BOOLEAN,
               noFire : BOOLEAN, preset : Presets \cup {None}, valid : BOOLEAN]

Perception == [id : FrameIds, observedAt : Time, shape : FrameShapes]

SafetyFlags == {"HardwareNotReady", "WatchdogUnhealthy", "CalibrationInvalid",
                "EmergencyStopActive", "ActuatorFault"}
Safety == [observedAt : Time, faults : SUBSET SafetyFlags]

ControlRequests == {"None", "Arm", "Disarm", "EmergencyStop"}

ASSUME ConfigAssumption ==          \* validate_config and the unsigned types
  /\ {TrackingPersistence, ConfirmationPersistence, AimSettle,
      EventClearPersistence, PerceptionStaleAfter, SafetyStaleAfter,
      CooldownPeriod} \subseteq Nat
  /\ {MinTrackingFrames, MinConfirmationFrames, MinEventClearFrames,
      BurstDuration} \subseteq Nat \ {0}
  /\ MaxTimestamp \in Nat /\ MaxFrameId \in Nat /\ MaxCommandId \in Nat
  /\ InitialCommandId \in CommandIds

ASSUME EnvironmentAssumption ==
  /\ ClockSteps \subseteq Int /\ FrameLags \subseteq Int
  /\ FrameSteps \subseteq Int /\ SafetyLags \subseteq Int
  /\ FrameShapes \subseteq FrameShape
  /\ SafetyFaults \subseteq SUBSET SafetyFlags
  /\ Omissible \subseteq {"frame", "safety"}
  /\ Controls \subseteq ControlRequests
  /\ DeviceStatuses \subseteq ActuatorStatus
  /\ DeviceReplies \subseteq Replies \cup {"Garbled"}

TrackCandidate == [track : Tracks, startedAt : Time, latestAt : Time,
                   frames : Nat, lastFrame : FrameIds]
BehaviorCandidate == [track : Tracks, behavior : Behaviors, startedAt : Time,
                      latestAt : Time, frames : Nat, lastFrame : FrameIds]

\* An absent optional is no frame and no candidate.
ASSUME AbsenceAssumption ==
  None \notin Perception \cup TrackCandidate \cup BehaviorCandidate

VARIABLES
  state,                    \* PolicyState
  lastNow,                  \* last_now_ms_
  perception, safety,       \* latest_perception_, latest_safety_
  event, nextEventId,       \* the incident latch and its id counter
  tracking, confirmation,   \* the two candidates, None when absent
  aimAckedAt,               \* aim_acknowledged_at_ms_, None when not acknowledged
  readyAfterFrame, burstAcked, cooldownUntil,
  link,                     \* the actuator, the command ids, this step's commands
  bursts                    \* every BURST handed to the actuator (unique_commands_)

inputs == <<lastNow, perception, safety>>
latch == <<event, nextEventId>>
candidates == <<tracking, confirmation, aimAckedAt>>
firing == <<readyAfterFrame, burstAcked, cooldownUntil>>
vars == <<state, inputs, latch, candidates, firing, link, bursts>>

States == {"Disarmed", "Monitoring", "Tracking", "Confirming", "Aiming",
           "Ready", "Burst", "Cooldown", "Fault"}
Standby == {"Disarmed", "Fault"}

EventLatch == [id : Nat, active : BOOLEAN, burstAttempted : BOOLEAN,
               clearSince : Time \cup {None}, clearFrames : Nat,
               lastClearFrame : FrameIds]
Command == [type : ActionTypes, target : Presets \cup {None}, duration : Nat,
            id : CommandIds, issuedAt : Time, event : Nat \cup {None}]
Link == [status : ActuatorStatus, nextId : CommandIds, exhausted : BOOLEAN,
         issued : SUBSET [command : Command, result : ActionStatuses]]

NoEvent == [id |-> 0, active |-> FALSE, burstAttempted |-> FALSE,
            clearSince |-> None, clearFrames |-> 0, lastClearFrame |-> 0]
-----------------------------------------------------------------------------
(* Commands *)

UncheckedAdd(left, right) == left + right              \* slip: may overflow

SaturatingAdd(left, right) ==
  IF right > MaxTimestamp - left THEN MaxTimestamp ELSE left + right

AnyIdLeft(l, type) == ~l.exhausted                     \* slip: no reserve

\* The last id stays available for a fail-closed command.
CanIssue(l, type) ==
  /\ ~l.exhausted
  /\ l.nextId = MaxCommandId => FailClosed(type)

MakeCommand(l, type, target, duration, at, e) ==
  [type |-> type, target |-> target, duration |-> duration, id |-> l.nextId,
   issuedAt |-> at, event |-> IF e.active THEN e.id ELSE None]

\* An answer the policy cannot use (an exception, another command's id, an
\* impossible time) counts as a failure, although the device may have acted.
Result(l, command, reply) ==
  IF reply = "Garbled" THEN "Failed" ELSE Outcome(l.status, command, reply)

Effect(l, command, reply) ==
  StatusAfter(l.status, command, IF reply = "Garbled" THEN "Default" ELSE reply)

\* slip: the last id is handed out for ever
SaturatedId(l) == [l EXCEPT !.nextId = IF @ = MaxCommandId THEN @ ELSE @ + 1]

ConsumedId(l) ==
  IF l.nextId = MaxCommandId
  THEN [l EXCEPT !.exhausted = TRUE]
  ELSE [l EXCEPT !.nextId = @ + 1]

Execute(l, command, reply) ==
  IF CanIssue(l, command.type)
  THEN [status    |-> Effect(l, command, reply),
        nextId    |-> ConsumedId(l).nextId,
        exhausted |-> ConsumedId(l).exhausted,
        issued    |-> l.issued \cup
                        {[command |-> command,
                          result  |-> Result(l, command, reply)]}]
  ELSE l

Sent(l, command, reply) == CanIssue(l, command.type)   \* slip: answer ignored

Acknowledged(l, command, reply) ==
  CanIssue(l, command.type) /\ Result(l, command, reply) = "Acknowledged"

Quiet == [link EXCEPT !.issued = {}]          \* no command sent so far in this step

\* Hand the step's commands over: BURST commands enter the actuator's record.
Commit(l) ==
  /\ link' = l
  /\ bursts' = bursts \cup
       {a.command : a \in {x \in l.issued : x.command.type = "Burst"}}

StopCommand(l, at, e) == MakeCommand(l, "EmergencyStop", None, 0, at, e)

\* slip: a device with a fault is not stopped
StopIfHealthy(l) ==
  l.status.connected /\ ~l.status.fault /\ ~l.status.emergencyStop /\ ~l.exhausted

\* fault() stops a reachable device that is not already stopped.
MustStop(l) ==
  l.status.connected /\ ~l.status.emergencyStop /\ ~l.exhausted

SafeStop(l, at, e, reply) ==
  IF MustStop(l) THEN Execute(l, StopCommand(l, at, e), reply) ELSE l

ResetCandidates ==
  tracking' = None /\ confirmation' = None /\ aimAckedAt' = None

EnterFault(l, at, e) ==
  /\ state' = "Fault"
  /\ \E reply \in DeviceReplies : Commit(SafeStop(l, at, e, reply))
  /\ ResetCandidates
-----------------------------------------------------------------------------
(* cache_inputs and update_event_latch, applied to a step's input *)

SafetyRejected(in) ==
  /\ in.safety # None
  /\ \/ in.safety.observedAt > in.now
     \/ safety # None /\ in.safety.observedAt < safety.observedAt

CachedSafety(in) ==
  IF in.safety = None \/ SafetyRejected(in) THEN safety ELSE in.safety

FrameMalformed(in) ==
  /\ in.frame # None
  /\ in.frame.observedAt > in.now \/ in.frame.id = 0 \/ ~in.frame.shape.valid

FrameOutOfOrder(in) ==
  /\ in.frame # None /\ ~FrameMalformed(in) /\ perception # None
  /\ \/ in.frame.id < perception.id
     \/ in.frame.observedAt < perception.observedAt
     \/ in.frame.id = perception.id /\ in.frame.observedAt # perception.observedAt

FrameIsNew(in) ==
  /\ in.frame # None /\ ~FrameMalformed(in) /\ ~FrameOutOfOrder(in)
  /\ perception # None => in.frame.id # perception.id

CachedPerception(in) == IF FrameIsNew(in) THEN in.frame ELSE perception

\* slip: every frame with a cat opens an event
CountsEveryCat(in) == FrameIsNew(in) /\ in.frame.shape.cats > 0

OpensEvent(in) ==
  FrameIsNew(in) /\ in.frame.shape.cats > 0 /\ ~event.active

\* One more frame without a cat in the zone.
Clearing(e, frame) ==
  IF e.clearSince = None
  THEN [e EXCEPT !.clearSince = frame.observedAt, !.clearFrames = 1,
                 !.lastClearFrame = frame.id]
  ELSE [e EXCEPT !.clearFrames = IF frame.id # e.lastClearFrame THEN @ + 1 ELSE @,
                 !.lastClearFrame = frame.id]

\* slip: enough clear frames end the event, however quickly they came
ClearedByCount(e, frame) ==
  e.clearSince # None /\ Clearing(e, frame).clearFrames >= MinEventClearFrames

\* The first clear frame only starts the count, it never ends the event.
EventCleared(e, frame) ==
  /\ e.clearSince # None
  /\ frame.observedAt - e.clearSince >= EventClearPersistence
  /\ Clearing(e, frame).clearFrames >= MinEventClearFrames

EventAfter(e, frame) ==
  IF frame.shape.cats > 0
  THEN [id             |-> IF e.active THEN e.id ELSE nextEventId,
        active         |-> TRUE,
        burstAttempted |-> e.active /\ e.burstAttempted,
        clearSince |-> None, clearFrames |-> 0, lastClearFrame |-> 0]
  ELSE IF ~e.active THEN e
  ELSE IF EventCleared(e, frame)
  THEN [Clearing(e, frame) EXCEPT !.active = FALSE, !.burstAttempted = FALSE,
                                  !.clearSince = None, !.clearFrames = 0]
  ELSE Clearing(e, frame)

CachedEvent(in) == IF FrameIsNew(in) THEN EventAfter(event, in.frame) ELSE event

\* Everything cache_inputs assigns; the burst step latches more on top of it.
TakeInputs(in, e) ==
  /\ lastNow' = in.now
  /\ safety' = CachedSafety(in)
  /\ perception' = CachedPerception(in)
  /\ event' = e
  /\ nextEventId' = IF OpensEvent(in) THEN nextEventId + 1 ELSE nextEventId

CacheInputs(in) == TakeInputs(in, CachedEvent(in))
-----------------------------------------------------------------------------
(* Interlocks and evidence, over the cached inputs *)

HardInterlocks(in) ==
  LET s == CachedSafety(in)
      d == link.status
  IN  (IF s = None THEN {"MissingSafetyInput"}
       ELSE s.faults \cup
            (IF in.now - s.observedAt > SafetyStaleAfter THEN {"StaleSafetyInput"} ELSE {}))
      \cup {i \in {"ActuatorDisconnected", "HardwareNotReady", "EmergencyStopActive",
                    "ActuatorFault", "ActuatorNotArmed", "CommandIdExhausted"} :
             \/ i = "ActuatorDisconnected" /\ ~d.connected
             \/ i = "HardwareNotReady" /\ ~d.ready
             \/ i = "EmergencyStopActive" /\ d.emergencyStop
             \/ i = "ActuatorFault" /\ d.fault
             \/ i = "ActuatorNotArmed" /\ state # "Disarmed" /\ ~d.armed
             \/ i = "CommandIdExhausted" /\ link.exhausted}

\* The interlocks one frame raises by what it shows.
ShapeInterlocks(shape) ==
  {i \in {"PersonPresent", "OutsideProtectedZone", "MultipleCats", "AmbiguousCats",
          "MissingTrack", "PoorTracking", "NoFireIntersection", "MissingAimPreset"} :
     \/ i = "PersonPresent" /\ shape.person
     \/ i = "OutsideProtectedZone" /\ shape.cats = 0
     \/ i = "MultipleCats" /\ shape.cats > 1
     \/ i = "AmbiguousCats" /\ shape.ambiguous
     \/ i = "MissingTrack" /\ shape.track = None
     \/ i = "PoorTracking" /\ ~shape.quality
     \/ i = "NoFireIntersection" /\ shape.noFire
     \/ i = "MissingAimPreset" /\ shape.preset = None}

PerceptionInterlocks(in) ==
  LET p == CachedPerception(in)
      e == CachedEvent(in)
  IN  (IF FrameOutOfOrder(in) THEN {"OutOfOrderPerception"} ELSE {}) \cup
      (IF p = None THEN {"MissingPerception"}
       ELSE ShapeInterlocks(p.shape) \cup
            (IF in.now - p.observedAt > PerceptionStaleAfter
             THEN {"StalePerception"} ELSE {}) \cup
            (IF e.active /\ e.burstAttempted THEN {"EventAlreadyActed"} ELSE {}))

HarmfulEvidence(shape) ==
  shape.behavior \in {"Eating", "Digging"} /\ shape.confident /\ shape.inRegion

SameTrack(candidate, shape) ==
  candidate # None /\ shape.track # None /\ shape.track = candidate.track

\* slip: the behaviour may change within a confirmation
AnyConfirmation(candidate, shape) == SameTrack(candidate, shape)

SameConfirmation(candidate, shape) ==
  SameTrack(candidate, shape) /\ shape.behavior = candidate.behavior

BeginTracking(frame) ==
  [track |-> frame.shape.track, startedAt |-> frame.observedAt,
   latestAt |-> frame.observedAt, frames |-> 1, lastFrame |-> frame.id]

BeginConfirmation(frame) ==
  [track |-> frame.shape.track, behavior |-> frame.shape.behavior,
   startedAt |-> frame.observedAt, latestAt |-> frame.observedAt,
   frames |-> 1, lastFrame |-> frame.id]

Advance(candidate, frame) ==
  [candidate EXCEPT !.frames = IF frame.id # candidate.lastFrame THEN @ + 1 ELSE @,
                    !.lastFrame = frame.id, !.latestAt = frame.observedAt]

Persistent(candidate, period, frames) ==
  /\ candidate.latestAt - candidate.startedAt >= period
  /\ candidate.frames >= frames

TrackingIsPersistent(candidate) ==
  Persistent(candidate, TrackingPersistence, MinTrackingFrames)

ConfirmationIsPersistent(candidate) ==
  Persistent(candidate, ConfirmationPersistence, MinConfirmationFrames)
-----------------------------------------------------------------------------
(* The branches of step(), in the order the code tries them *)

Orderly(in) == lastNow # None => in.now >= lastNow
Accepted(in) == Orderly(in) /\ ~SafetyRejected(in) /\ ~FrameMalformed(in)

\* A clock regression caches nothing and stops at the last accepted time.
RejectClockRegression(in) ==
  /\ ~Orderly(in)
  /\ EnterFault(Quiet, lastNow, event)
  /\ UNCHANGED <<inputs, latch, firing>>

RejectInput(in) ==
  /\ Orderly(in) /\ ~Accepted(in)
  /\ CacheInputs(in)
  /\ EnterFault(Quiet, in.now, CachedEvent(in))
  /\ UNCHANGED firing

\* Faulted by the operator, whether or not the actuator acknowledges.
EmergencyStop(in) ==
  /\ Accepted(in) /\ in.control = "EmergencyStop"
  /\ CacheInputs(in)
  /\ state' = "Fault"
  /\ LET stop == StopCommand(Quiet, in.now, CachedEvent(in))
     IN  \E reply \in DeviceReplies : Commit(Execute(Quiet, stop, reply))
  /\ ResetCandidates
  /\ UNCHANGED firing

AlreadyDisarmed == state = "Disarmed" /\ link.status.connected /\ ~link.status.armed

Disarm(in) ==
  /\ Accepted(in) /\ in.control = "Disarm"
  /\ CacheInputs(in)
  /\ UNCHANGED <<readyAfterFrame, cooldownUntil>>
  /\ \/ /\ AlreadyDisarmed
        /\ Commit(Quiet)
        /\ UNCHANGED <<state, candidates, burstAcked>>
     \/ /\ ~AlreadyDisarmed
        /\ \E reply \in DeviceReplies :
             LET e == CachedEvent(in)
                 command == MakeCommand(Quiet, "Disarm", None, 0, in.now, e)
                 l == Execute(Quiet, command, reply)
             IN  IF Acknowledged(Quiet, command, reply)
                 THEN /\ state' = "Disarmed"
                      /\ Commit(l)
                      /\ ResetCandidates
                      /\ burstAcked' = FALSE
                 ELSE /\ EnterFault(l, in.now, e)
                      /\ UNCHANGED burstAcked

Controlled(in) == Accepted(in) /\ in.control \in {"None", "Arm"}

RejectUnexpectedArm(in) ==
  /\ Controlled(in) /\ state = "Disarmed" /\ link.status.armed
  /\ CacheInputs(in)
  /\ EnterFault(Quiet, in.now, CachedEvent(in))
  /\ UNCHANGED firing

\* Nothing happens: disarmed or faulted without a request, an arm request
\* after a fault, or one that a hard interlock blocks.
StandBy(in) ==
  /\ Controlled(in)
  /\ \/ state = "Fault"
     \/ /\ state = "Disarmed" /\ ~link.status.armed
        /\ in.control = "None" \/ HardInterlocks(in) # {}
  /\ CacheInputs(in)
  /\ Commit(Quiet)
  /\ UNCHANGED <<state, candidates, firing>>

Arm(in) ==
  /\ Controlled(in) /\ in.control = "Arm"
  /\ state = "Disarmed" /\ ~link.status.armed
  /\ HardInterlocks(in) = {}
  /\ CacheInputs(in)
  /\ \E reply \in DeviceReplies :
       LET e == CachedEvent(in)
           command == MakeCommand(Quiet, "Arm", None, 0, in.now, e)
           l == Execute(Quiet, command, reply)
       IN  IF Acknowledged(Quiet, command, reply)
           THEN state' = "Monitoring" /\ Commit(l) /\ UNCHANGED candidates
           ELSE EnterFault(l, in.now, e)
  /\ UNCHANGED firing

Operating(in) == Controlled(in) /\ state \notin Standby
Cleared(in) == Operating(in) /\ HardInterlocks(in) = {}

FaultOnHardInterlock(in) ==
  /\ Operating(in) /\ HardInterlocks(in) # {}
  /\ CacheInputs(in)
  /\ EnterFault(Quiet, in.now, CachedEvent(in))
  /\ UNCHANGED firing

FinishBurst(in) ==
  /\ Cleared(in) /\ state = "Burst"
  /\ CacheInputs(in)
  /\ IF burstAcked
     THEN state' = "Cooldown" /\ Commit(Quiet) /\ UNCHANGED candidates
     ELSE EnterFault(Quiet, in.now, CachedEvent(in))
  /\ UNCHANGED firing

AfterCooldown(in) == in.now > cooldownUntil            \* slip: off by one
CooldownOver(in) == in.now >= cooldownUntil

CoolDown(in) ==
  /\ Cleared(in) /\ state = "Cooldown"
  /\ CacheInputs(in)
  /\ Commit(Quiet)
  /\ IF CooldownOver(in)
     THEN state' = "Monitoring" /\ ResetCandidates
     ELSE UNCHANGED <<state, candidates>>
  /\ UNCHANGED firing
-----------------------------------------------------------------------------
Watching(in) == Cleared(in) /\ state \notin {"Burst", "Cooldown"}

\* abort_aiming: hold the device, or fault when the hold is not acknowledged.
AbortAiming(at, e) ==
  \E reply \in DeviceReplies :
    LET command == MakeCommand(Quiet, "Hold", None, 0, at, e)
        l == Execute(Quiet, command, reply)
    IN  IF Acknowledged(Quiet, command, reply)
        THEN state' = "Monitoring" /\ Commit(l) /\ ResetCandidates
        ELSE EnterFault(l, at, e)

\* slip: an interlock pauses the aim instead of aborting it
PauseOnInterlock(in) ==
  /\ Watching(in) /\ PerceptionInterlocks(in) # {}
  /\ CacheInputs(in) /\ Commit(Quiet)
  /\ IF state \in {"Aiming", "Ready"}
     THEN UNCHANGED <<state, candidates>>
     ELSE state' = "Monitoring" /\ ResetCandidates
  /\ UNCHANGED firing

HoldOnInterlock(in) ==
  /\ Watching(in) /\ PerceptionInterlocks(in) # {}
  /\ CacheInputs(in)
  /\ IF state \in {"Aiming", "Ready"}
     THEN AbortAiming(in.now, CachedEvent(in))
     ELSE state' = "Monitoring" /\ Commit(Quiet) /\ ResetCandidates
  /\ UNCHANGED firing

Unblocked(in) == Watching(in) /\ PerceptionInterlocks(in) = {}

AwaitNewFrame(in) ==
  /\ Unblocked(in) /\ ~FrameIsNew(in)
  /\ CacheInputs(in)
  /\ Commit(Quiet)
  /\ UNCHANGED <<state, candidates, firing>>

Advancing(in) == Unblocked(in) /\ FrameIsNew(in)

StartTracking(in) ==
  /\ Advancing(in) /\ state = "Monitoring"
  /\ CacheInputs(in)
  /\ state' = "Tracking"
  /\ tracking' = BeginTracking(in.frame)
  /\ Commit(Quiet)
  /\ UNCHANGED <<confirmation, aimAckedAt, firing>>

Track(in) ==
  /\ Advancing(in) /\ state = "Tracking"
  /\ CacheInputs(in)
  /\ LET same == SameTrack(tracking, in.frame.shape)
     IN  /\ tracking' = IF same THEN Advance(tracking, in.frame)
                                ELSE BeginTracking(in.frame)
         /\ IF /\ same /\ TrackingIsPersistent(tracking')
               /\ HarmfulEvidence(in.frame.shape)
            THEN state' = "Confirming" /\ confirmation' = BeginConfirmation(in.frame)
            ELSE UNCHANGED <<state, confirmation>>
  /\ Commit(Quiet)
  /\ UNCHANGED <<aimAckedAt, firing>>

BackToTracking(in) ==
  /\ state' = "Tracking"
  /\ tracking' = BeginTracking(in.frame)
  /\ confirmation' = None
  /\ Commit(Quiet)
  /\ UNCHANGED aimAckedAt

CanAct(e) == e.active /\ ~e.burstAttempted

\* The confirmed candidate asks for its preset; the answer decides.
RequestAim(in, e) ==
  \E reply \in DeviceReplies :
    LET command == MakeCommand(Quiet, "GotoPreset", in.frame.shape.preset, 0, in.now, e)
        l == Execute(Quiet, command, reply)
    IN  IF Acknowledged(Quiet, command, reply)
        THEN /\ state' = "Aiming"
             /\ aimAckedAt' = in.now
             /\ confirmation' = Advance(confirmation, in.frame)
             /\ Commit(l)
             /\ UNCHANGED tracking
        ELSE EnterFault(l, in.now, e)

Confirm(in) ==
  /\ Advancing(in) /\ state = "Confirming"
  /\ CacheInputs(in)
  /\ LET e == CachedEvent(in)
         sustained == /\ SameConfirmation(confirmation, in.frame.shape)
                      /\ HarmfulEvidence(in.frame.shape)
         advanced == Advance(confirmation, in.frame)
     IN  IF ~sustained
         THEN BackToTracking(in)
         ELSE IF ~ConfirmationIsPersistent(advanced)
         THEN /\ confirmation' = advanced
              /\ Commit(Quiet)
              /\ UNCHANGED <<state, tracking, aimAckedAt>>
         ELSE IF ~CanAct(e) THEN BackToTracking(in) ELSE RequestAim(in, e)
  /\ UNCHANGED firing

OnTarget(shape) == SameTrack(confirmation, shape) /\ HarmfulEvidence(shape)

Settled(now) == now >= SaturatingAdd(aimAckedAt, AimSettle)

Aim(in) ==
  /\ Advancing(in) /\ state = "Aiming"
  /\ CacheInputs(in)
  /\ LET e == CachedEvent(in)
     IN  IF aimAckedAt = None \/ ~OnTarget(in.frame.shape) \/ ~CanAct(e)
         THEN AbortAiming(in.now, e) /\ UNCHANGED readyAfterFrame
         ELSE /\ IF Settled(in.now)
                 THEN state' = "Ready" /\ readyAfterFrame' = in.frame.id
                 ELSE UNCHANGED <<state, readyAfterFrame>>
              /\ Commit(Quiet)
              /\ UNCHANGED candidates
  /\ UNCHANGED <<burstAcked, cooldownUntil>>

Unlatched(e) == e                                      \* slip: the attempt is forgotten

\* The latch is set before the actuator is touched: a timeout leaves the
\* physical outcome unknown and must not lead to a second attempt.
Latched(e) == [e EXCEPT !.burstAttempted = TRUE]

FireBurst(in, e) ==
  /\ TakeInputs(in, e)
  /\ cooldownUntil' = SaturatingAdd(in.now, CooldownPeriod)
  /\ UNCHANGED readyAfterFrame
  /\ \E reply \in DeviceReplies :
       LET command == MakeCommand(Quiet, "Burst", None, BurstDuration, in.now, e)
           l == Execute(Quiet, command, reply)
       IN  /\ burstAcked' = Acknowledged(Quiet, command, reply)
           /\ IF burstAcked'
              THEN state' = "Burst" /\ Commit(l) /\ UNCHANGED candidates
              ELSE EnterFault(l, in.now, e)

Fire(in) ==
  /\ Advancing(in) /\ state = "Ready"
  /\ LET e == CachedEvent(in)
     IN  IF in.frame.id <= readyAfterFrame
         THEN /\ CacheInputs(in)
              /\ Commit(Quiet)
              /\ UNCHANGED <<state, candidates, firing>>
         ELSE IF ~OnTarget(in.frame.shape) \/ ~CanAct(e)
         THEN CacheInputs(in) /\ AbortAiming(in.now, e) /\ UNCHANGED firing
         ELSE FireBurst(in, Latched(e))
-----------------------------------------------------------------------------
(* The caller's inputs and the specification *)

Nows ==                        \* the clock may stay at its last value
  {t \in Time : \/ (IF lastNow = None THEN t ELSE t - lastNow) \in ClockSteps
                \/ (lastNow = t /\ t = MaxTimestamp)}

LatestFrameId == IF perception = None THEN 0 ELSE perception.id

Frames(now) ==
  [id : {i \in FrameIds : i - LatestFrameId \in FrameSteps},
   observedAt : {t \in Time : now - t \in FrameLags}, shape : FrameShapes]

Snapshots(now) ==
  [observedAt : {t \in Time : now - t \in SafetyLags}, faults : SafetyFaults]

Optional(part) == IF part \in Omissible THEN {None} ELSE {}

Calls ==
  UNION {[now : {t}, frame : Frames(t) \cup Optional("frame"),
          safety : Snapshots(t) \cup Optional("safety"), control : Controls] : t \in Nows}

Step(in) ==
  \/ RejectClockRegression(in) \/ RejectInput(in)
  \/ EmergencyStop(in) \/ Disarm(in)
  \/ RejectUnexpectedArm(in) \/ StandBy(in) \/ Arm(in)
  \/ FaultOnHardInterlock(in) \/ FinishBurst(in) \/ CoolDown(in)
  \/ HoldOnInterlock(in) \/ AwaitNewFrame(in)
  \/ StartTracking(in) \/ Track(in) \/ Confirm(in) \/ Aim(in) \/ Fire(in)

\* The device changes by itself: MockActuator::set_status.
DeviceChanges(status) ==
  /\ link' = [Quiet EXCEPT !.status = status]
  /\ UNCHANGED <<state, inputs, latch, candidates, firing, bursts>>

Init ==
  /\ state = "Disarmed"
  /\ lastNow = None /\ perception = None /\ safety = None
  /\ event = NoEvent /\ nextEventId = 1
  /\ tracking = None /\ confirmation = None /\ aimAckedAt = None
  /\ readyAfterFrame = 0 /\ burstAcked = FALSE /\ cooldownUntil = 0
  /\ link = [status |-> HealthyStatus, nextId |-> InitialCommandId,
             exhausted |-> FALSE, issued |-> {}]
  /\ bursts = {}

Next ==
  \/ \E in \in Calls : Step(in)
  \/ \E status \in DeviceStatuses : DeviceChanges(status)

Spec == Init /\ [][Next]_vars

\* The caller keeps calling step() with a clock that moves until its last value.
LaterCall ==
  \E in \in Calls :
    /\ lastNow # None => in.now > lastNow \/ in.now = MaxTimestamp
    /\ Step(in)

FairSpec == Spec /\ WF_vars(LaterCall)
-----------------------------------------------------------------------------
(* Properties *)

InputsOK ==
  /\ lastNow \in Time \cup {None}
  /\ perception \in Perception \cup {None}
  /\ safety \in Safety \cup {None}
  /\ event \in EventLatch /\ nextEventId \in Nat \ {0}
CandidatesOK ==
  /\ tracking \in TrackCandidate \cup {None}
  /\ confirmation \in BehaviorCandidate \cup {None}
  /\ aimAckedAt \in Time \cup {None}
FiringOK ==
  readyAfterFrame \in FrameIds /\ burstAcked \in BOOLEAN /\ cooldownUntil \in Time
DeviceOK == link \in Link /\ bursts \subseteq Command

\* Every variable keeps its declared type, the 64-bit ones within their width.
TypeOK == state \in States /\ InputsOK /\ CandidatesOK /\ FiringOK /\ DeviceOK

\* A continuous event gets at most one burst, over every arm, fault, disarm
\* and lost acknowledgement in between; a burst always belongs to an event.
OneBurstPerEvent ==
  /\ \A x \in bursts : x.event # None
  /\ \A x, y \in bursts : x.event = y.event => x = y

\* Two bursts are as far apart as the event's clearing, a new tracking, a new
\* confirmation and a new settled aim need, less the age a frame may have. Only
\* at the clock's last value, where the aim's deadline saturates, may it be less.
BurstsAreSpaced ==
  \A x, y \in bursts :
    x.id < y.id =>
      \/ y.issuedAt - x.issuedAt + PerceptionStaleAfter >=
           EventClearPersistence + TrackingPersistence + ConfirmationPersistence + AimSettle
      \/ y.issuedAt = MaxTimestamp

\* The engine seen from outside: an incident is the active event, spent once
\* the latch is set, and a shot is a BURST the actuator was handed.
OneShot == INSTANCE OneShotPolicy
             WITH ShotIds <- CommandIds,
                  acting <- state \notin Standby,
                  incident <- IF event.active THEN event.id ELSE 0,
                  opened <- nextEventId - 1,
                  spent <- event.active /\ event.burstAttempted,
                  shots <- {<<x.event, x.id>> : x \in bursts}

\* The engine, with its clocks, frames, persistence and lost answers, does
\* nothing that the one-shot policy would not do.
ImplementsOneShot == OneShot!OneShotSpec

\* While the policy is active an id is left for a fail-closed command: an
\* active policy can always still stop its actuator.
ActivePolicyCanStop == state \notin Standby => ~link.exhausted

\* An aimed policy works for a live, unspent event, and its aim was
\* acknowledged: the re-checks before aiming and firing are never surprised.
AimedEventIsLive ==
  state \in {"Aiming", "Ready"} =>
    /\ event.active /\ ~event.burstAttempted
    /\ aimAckedAt # None /\ confirmation # None
    /\ perception.shape.cats = 1

\* A device that never changes by itself agrees with the policy: armed and not
\* stopped while the policy is active, disarmed while it is disarmed.
PolicyAndDeviceAgree ==
  /\ state \notin Standby => link.status.armed /\ ~link.status.emergencyStop
  /\ state = "Disarmed" => ~link.status.armed

\* No command id is ever used twice, not even the last one.
CommandIdsAreFresh ==
  [][\A x \in link'.issued :
       /\ ~link.exhausted
       /\ x.command.id >= link.nextId
       /\ x.command.id < link'.nextId \/ link'.exhausted]_vars

\* A fault never leaves a device armed without having tried to stop it, unless
\* the device was out of reach, already stopped, or no command id was left.
FaultStopsActuator ==
  [][state # "Fault" /\ state' = "Fault" =>
       \/ ~link'.status.armed
       \/ \E x \in link'.issued : x.command.type = "EmergencyStop"
       \/ ~link.status.connected \/ link.status.emergencyStop
       \/ link'.exhausted]_vars

\* Cooldown ends although its deadline saturates at the clock's last value.
CooldownEnds == state = "Cooldown" ~> state # "Cooldown"
=============================================================================
