------------------------------ MODULE Simulator ------------------------------
(***************************************************************************)
(* The virtual-time policy reference of simulator/.../engine.py: scripted  *)
(* inputs, an incident per confirmed harm, and commands whose answers and  *)
(* timeouts come later on a queue of internal work.                        *)
(*                                                                         *)
(* An observation is kept as what the policy makes of its tracks.  The     *)
(* counters (epoch, camera generation) and flags that only tell void work  *)
(* from work that still counts are kept by dropping the void work.         *)
(* Reasons, audit records and the evaluator's records are left out.        *)
(***************************************************************************)
EXTENDS Integers, FiniteSets, Sequences, FiniteSetsExt

CONSTANTS
  None,
  Keys,                  \* (track, approach zone, harmful behaviour)
  \* the configuration
  ActuationEnabled, MaxFrameAge, CameraTimeout, MaxTrackGap, ConfirmationWindow,
  HarmfulPersistence, MinSupport, IncidentClear, CooldownTime, AckTimeout,
  \* the scenarios considered
  FrameAges, Delays, Responses, InjectedIds, InjectedNames,
  MaxNow, MaxInputs, MaxIncidents, MaxDisturbances

\* Conditions of runtime-config.schema.json and scenario.schema.json: a command
\* times out long before a cooldown ends, and one frame never confirms.
ASSUME ContractAssumption ==
  /\ ActuationEnabled \in BOOLEAN /\ None \notin Nat /\ None \notin Keys
  /\ {MaxFrameAge, CameraTimeout, MaxTrackGap, ConfirmationWindow, HarmfulPersistence,
      IncidentClear, CooldownTime, AckTimeout} \subseteq Nat \ {0}
  /\ MinSupport \in Nat \ {0, 1} /\ AckTimeout < CooldownTime
  /\ FrameAges \subseteq Nat /\ Delays \subseteq Nat
  /\ Responses \subseteq {"ACK", "DENIED", "DROP", "TRANSPORT_ERROR"}
  /\ "DENIED" \in Responses
  /\ InjectedIds \subseteq Nat \ {0} /\ InjectedNames \subseteq {"GOTO_PRESET", "BURST"}
  /\ {MaxNow, MaxInputs, MaxIncidents, MaxDisturbances} \subseteq Nat

VARIABLES
  now,                   \* clock_ms
  inputs,                \* inputs that may still come at this time
  state, armed,
  camera, disconnectedAt, device,
  persistence,           \* per key, its supporting observations
  incidents,             \* in order of their counter, open or not
  cooldown,              \* cooldown_until_ms
  last,                  \* last_observation
  nextId, ledger,        \* next_command_id, command_ledger
  internal,              \* work that still counts
  disturbances,          \* inputs other than observations, ticks and arming
  bursts                 \* history: the incidents the policy fired for, open or not

clock == <<now, inputs, disturbances>>
policy == <<state, armed, persistence, incidents, cooldown, last>>
health == <<camera, disconnectedAt, device>>
transport == <<nextId, ledger, internal>>
vars == <<clock, policy, health, transport, bursts>>

States == {"DISARMED", "MONITORING", "TRACKING", "CONFIRMING", "AIMING", "READY",
           "BURST", "COOLDOWN", "FAULT"}
CameraStatus == {"CONNECTED", "DISCONNECTED", "ERROR"}
DeviceStatus == {"READY", "NOT_READY", "FAULT"}

\* Blocked: person, several cats, ambiguous, young or poor track, no-fire or no
\* preset.  Clear: no cat in a zone, or not harmful.  Weak: a harmful label below
\* a threshold of its evidence.  Harmful: qualifies.
Observation ==
  [kind : {"Blocked", "Clear"}, key : {None}, captured : Nat]
    \cup [kind : {"Weak", "Harmful"}, key : Keys, captured : Nat]

Incident == [key : Keys, latched : BOOLEAN, clearSince : Nat \cup {None}, open : BOOLEAN]
\* One supporting observation: its time, and how many it follows at that time.
Support(key, at) ==
  [at |-> at, nth |-> Cardinality({f \in persistence[key] : f.at = at})]

Command == [id : Nat, name : {"GOTO_PRESET", "BURST"}, incident : Nat \cup {None}]

\* None is none of the records it stands beside.
ASSUME NoneAssumption == None \notin Observation \cup Command

\* order: at one time, the work inserted first comes first.
IsWork(w) ==
  /\ w.due \in Nat
  /\ \/ w.result \in Responses \cup {"TIMEOUT"} /\ w.command \in Command
     \/ w.result = "CAMERA_TIMEOUT" /\ w.command = None

NoEvidence == [k \in Keys |-> {}]
Confirming == {"TRACKING", "CONFIRMING", "AIMING", "READY"}

Input == inputs > 0 /\ inputs' = inputs - 1 /\ UNCHANGED <<now, disturbances>>
Disturbance ==
  /\ inputs > 0 /\ inputs' = inputs - 1
  /\ disturbances < MaxDisturbances /\ disturbances' = disturbances + 1
  /\ UNCHANGED now

-----------------------------------------------------------------------------
\* Incidents, evidence and the cooldown.

Open == {i \in DOMAIN incidents : incidents[i].open}
OpenFor(key) == {i \in Open : incidents[i].key = key}

SettlesOnTime(recorded) ==               \* slip: only the duration counts
  state = "COOLDOWN" /\ cooldown # None /\ now >= cooldown

Settles(recorded) ==
  /\ state = "COOLDOWN" /\ cooldown # None /\ now >= cooldown
  /\ \A i \in DOMAIN recorded : recorded[i].open => ~recorded[i].latched

StateOnceSettled == IF Settles(incidents) THEN "MONITORING" ELSE state
CooldownOnceSettled == IF Settles(incidents) THEN None ELSE cooldown

ClearedSince(incident) == IF incident.clearSince = None THEN now ELSE incident.clearSince

NotedClear ==
  [i \in DOMAIN incidents |->
     IF incidents[i].open
     THEN [incidents[i] EXCEPT
             !.clearSince = ClearedSince(incidents[i]),
             !.open = now - ClearedSince(incidents[i]) < IncidentClear]
     ELSE incidents[i]]

\* The incident a harmful observation of the key belongs to: opened by it, or
\* still open and no longer clearing.
NotedHarm(key) ==
  IF OpenFor(key) = {}
  THEN Append(incidents, [key |-> key, latched |-> FALSE, clearSince |-> None,
                          open |-> TRUE])
  ELSE [i \in DOMAIN incidents |->
          IF i \in OpenFor(key) THEN [incidents[i] EXCEPT !.clearSince = None]
                                ELSE incidents[i]]

HarmIncident(key) ==
  IF OpenFor(key) = {} THEN Len(incidents) + 1 ELSE CHOOSE i \in OpenFor(key) : TRUE

\* The last supporting observation is not too long ago.
Unbroken(seen) == \E f \in seen : now - f.at <= MaxTrackGap

Supporting(key) ==
  LET seen == persistence[key]
  IN  (IF Unbroken(seen) THEN {f \in seen : f.at >= now - ConfirmationWindow} ELSE {})
        \cup {Support(key, now)}

Persistent(seen) ==
  /\ Cardinality(seen) >= MinSupport
  /\ \E f \in seen : now - f.at >= HarmfulPersistence

BreakConfirmation ==
  /\ persistence' = NoEvidence
  /\ state' = IF state \in Confirming THEN "MONITORING" ELSE state

Fault ==
  /\ state' = "FAULT" /\ armed' = FALSE /\ persistence' = NoEvidence

-----------------------------------------------------------------------------
\* The mock transport.

PolicyCommand(name, incident) == [id |-> nextId, name |-> name, incident |-> incident]

\* internal_order, counted from the work that is left.
Inserted == Max({0} \cup {w.order : w \in internal})

Schedule(due, n, result, command) ==
  [due |-> due, order |-> Inserted + n, result |-> result, command |-> command]

AnswerOnly(command, response, delay) ==  \* slip: no timeout is scheduled
  IF response = "DROP" THEN {} ELSE {Schedule(now + delay, 1, response, command)}

Scheduled(command, response, delay) ==
  (IF response = "DROP" THEN {} ELSE {Schedule(now + delay, 1, response, command)})
    \cup {Schedule(now + AckTimeout, 2, "TIMEOUT", command)}

\* The adapter denies what the device cannot do; otherwise the script answers.
Answers(response) == device # "READY" => response = "DENIED"

\* A policy command takes the next id.  An id the ledger knows is not dispatched.
Allocate == nextId' = nextId + 1
Collides == nextId \in ledger

Dispatch(command, response, delay, queue) ==
  /\ Answers(response)
  /\ ledger' = ledger \cup {command.id}
  /\ internal' = queue \cup Scheduled(command, response, delay)

-----------------------------------------------------------------------------
\* Observations.

Fresh(o) == now - o.captured <= MaxFrameAge

\* Neither ignored nor turned away before its tracks are looked at.
Heeded(o) ==
  /\ armed /\ camera = "CONNECTED" /\ device = "READY" /\ ActuationEnabled /\ Fresh(o)

ObservationIgnored ==
  /\ Input
  /\ state = "DISARMED" \/ ~armed
  /\ UNCHANGED <<policy, health, transport, bursts>>

ObservationWithheld(o) ==
  /\ Input
  /\ armed /\ ~Heeded(o)
  /\ BreakConfirmation
  /\ UNCHANGED <<armed, incidents, cooldown, last, health, transport, bursts>>

ObservationBlocked(o) ==
  /\ Input
  /\ Heeded(o) /\ o.kind = "Blocked"
  /\ last' = o /\ persistence' = NoEvidence
  /\ state' = IF state \in Confirming THEN "MONITORING" ELSE StateOnceSettled
  /\ cooldown' = CooldownOnceSettled
  /\ UNCHANGED <<armed, incidents, health, transport, bursts>>

AimsThroughClear(o) ==                   \* slip: an aim outlives a harmless frame
  /\ Input
  /\ Heeded(o) /\ o.kind \in {"Clear", "Weak"}
  /\ last' = o /\ persistence' = NoEvidence
  /\ incidents' = NotedClear
  /\ state' = IF state \in Confirming \ {"AIMING"} \/ Settles(incidents')
              THEN "MONITORING" ELSE state
  /\ cooldown' = IF Settles(incidents') THEN None ELSE cooldown
  /\ UNCHANGED <<armed, health, transport, bursts>>

ObservationHarmless(o) ==
  /\ Input
  /\ Heeded(o) /\ o.kind \in {"Clear", "Weak"}
  /\ last' = o /\ persistence' = NoEvidence
  /\ incidents' = NotedClear
  /\ state' = IF state \in Confirming \/ Settles(incidents') THEN "MONITORING" ELSE state
  /\ cooldown' = IF Settles(incidents') THEN None ELSE cooldown
  /\ UNCHANGED <<armed, health, transport, bursts>>

Suppressed(key) ==
  \/ CooldownOnceSettled # None
  \/ \E i \in OpenFor(key) : incidents[i].latched

Confirms(key) ==
  /\ ~Suppressed(key) /\ Persistent(Supporting(key))
  /\ StateOnceSettled \in {"MONITORING", "TRACKING", "CONFIRMING"}

ObservationHarmful(o) ==
  /\ Input
  /\ Heeded(o) /\ o.kind = "Harmful"
  /\ Len(incidents) < MaxIncidents \/ OpenFor(o.key) # {}
  /\ last' = o /\ incidents' = NotedHarm(o.key) /\ cooldown' = CooldownOnceSettled

HarmObserved(o) ==
  /\ ObservationHarmful(o)
  /\ ~Confirms(o.key)
  /\ persistence' = [persistence EXCEPT ![o.key] = Supporting(o.key)]
  /\ state' = IF ~Suppressed(o.key) /\ StateOnceSettled \in {"MONITORING", "TRACKING"}
              THEN "CONFIRMING" ELSE StateOnceSettled
  /\ UNCHANGED <<armed, health, transport, bursts>>

HarmConfirmed(o, response, delay) ==
  /\ ObservationHarmful(o)
  /\ Confirms(o.key) /\ ~Collides
  /\ persistence' = [persistence EXCEPT ![o.key] = Supporting(o.key)]
  /\ state' = "AIMING"
  /\ Allocate
  /\ Dispatch(PolicyCommand("GOTO_PRESET", HarmIncident(o.key)), response, delay, internal)
  /\ UNCHANGED <<armed, health, bursts>>

AimCollides(o) ==
  /\ ObservationHarmful(o)
  /\ Confirms(o.key) /\ Collides
  /\ Fault /\ Allocate
  /\ UNCHANGED <<health, ledger, internal, bursts>>

-----------------------------------------------------------------------------
\* Answers and timeouts.

\* At one time, the work inserted first comes first.
Due(w) == w.due = now /\ \A v \in internal : v.due = now => w.order <= v.order

\* Work that is left once a command has its result.
Without(command) == {w \in internal : w.command # command}

\* Work is taken when no more inputs come at its time.
Take(w) == Due(w) /\ inputs' = 0 /\ UNCHANGED <<now, disturbances>>

CameraTimesOut(w) ==
  /\ Take(w) /\ w.result = "CAMERA_TIMEOUT"
  /\ internal' = Without(None)
  /\ Fault
  /\ UNCHANGED <<incidents, cooldown, last, health, nextId, ledger, bursts>>

CommandFails(w) ==
  /\ Take(w) /\ w.result \in {"DENIED", "TRANSPORT_ERROR", "TIMEOUT"}
  /\ internal' = Without(w.command)
  /\ Fault
  /\ UNCHANGED <<incidents, cooldown, last, health, nextId, ledger, bursts>>

Acknowledged(w, name) ==
  /\ Take(w) /\ w.result = "ACK" /\ w.command.name = name

BurstAcknowledged(w) ==
  /\ Acknowledged(w, "BURST")
  /\ internal' = Without(w.command)
  /\ state' = IF state = "BURST" THEN "COOLDOWN" ELSE state
  /\ UNCHANGED <<armed, persistence, incidents, cooldown, last, health, nextId, ledger, bursts>>

AimAnswered(w) == Acknowledged(w, "GOTO_PRESET")
Awaited(w) == w.command.incident # None /\ state = "AIMING"

AimIgnored(w) ==
  /\ AimAnswered(w) /\ ~Awaited(w)
  /\ internal' = Without(w.command)
  /\ UNCHANGED <<policy, health, nextId, ledger, bursts>>

\* The recheck compares the last observation with the incident, but not its
\* scores and overlaps with their thresholds: a weak frame passes.
Rechecks(incident) ==
  /\ armed /\ camera = "CONNECTED" /\ device = "READY" /\ ActuationEnabled
  /\ last # None /\ Fresh(last)
  /\ last.key = incidents[incident].key

AimAbandoned(w) ==
  /\ AimAnswered(w) /\ Awaited(w) /\ ~Rechecks(w.command.incident)
  /\ internal' = Without(w.command)
  /\ persistence' = NoEvidence /\ state' = "MONITORING"
  /\ UNCHANGED <<armed, incidents, cooldown, last, health, nextId, ledger, bursts>>

Unlatched(incident) == incidents         \* slip: the burst leaves the incident as it was
Latched(incident) == [incidents EXCEPT ![incident].latched = TRUE]

Fire(w, response, delay) ==
  LET command == w.command  incident == command.incident
  IN  /\ AimAnswered(w) /\ Awaited(w) /\ Rechecks(incident) /\ ~Collides
      /\ state' = "BURST"
      /\ Allocate
      /\ Dispatch(PolicyCommand("BURST", incident), response, delay, Without(command))
      /\ incidents' = Latched(incident)
      /\ cooldown' = now + CooldownTime
      /\ bursts' = Append(bursts, [incident |-> incident, open |-> incidents[incident].open])
      /\ UNCHANGED <<armed, persistence, last, health>>

FireCollides(w) ==
  /\ AimAnswered(w) /\ Awaited(w) /\ Rechecks(w.command.incident) /\ Collides
  /\ internal' = Without(w.command)
  /\ Fault /\ Allocate
  /\ UNCHANGED <<incidents, cooldown, last, health, ledger, bursts>>

-----------------------------------------------------------------------------
\* Controls, health, restarts and injected commands.

ArmsBlindly ==                           \* slip: the camera is not asked
  /\ Input
  /\ state = "DISARMED"
  /\ armed' = TRUE /\ state' = "MONITORING"
  /\ UNCHANGED <<persistence, incidents, cooldown, last, health, transport, bursts>>

Arm ==
  /\ Input
  /\ state = "DISARMED" /\ camera = "CONNECTED"
  /\ armed' = TRUE /\ state' = "MONITORING"
  /\ UNCHANGED <<persistence, incidents, cooldown, last, health, transport, bursts>>

\* The epoch ends: evidence, incidents, cooldown and work of it no longer count.
EndEpoch ==
  /\ armed' = FALSE /\ state' = "DISARMED"
  /\ persistence' = NoEvidence /\ cooldown' = None
  /\ incidents' = [i \in DOMAIN incidents |-> [incidents[i] EXCEPT !.open = FALSE]]

Disarm ==
  /\ Disturbance
  /\ EndEpoch /\ internal' = {}
  /\ UNCHANGED <<last, health, nextId, ledger, bursts>>

EStop ==
  /\ Disturbance
  /\ Fault
  /\ UNCHANGED <<incidents, cooldown, last, health, transport, bursts>>

CameraTimer == Schedule(now + CameraTimeout, 1, "CAMERA_TIMEOUT", None)

Restart ==
  /\ Disturbance
  /\ EndEpoch /\ last' = None
  /\ IF camera = "DISCONNECTED"
     THEN disconnectedAt' = now /\ internal' = {CameraTimer}
     ELSE internal' = {} /\ UNCHANGED disconnectedAt
  /\ UNCHANGED <<camera, device, nextId, ledger, bursts>>

CameraConnects ==
  /\ Disturbance
  /\ camera' = "CONNECTED" /\ disconnectedAt' = None
  /\ internal' = Without(None)
  /\ UNCHANGED <<policy, device, nextId, ledger, bursts>>

CameraDisconnects ==
  /\ Disturbance
  /\ camera' = "DISCONNECTED" /\ disconnectedAt' = now
  /\ internal' = Without(None) \cup {CameraTimer}
  /\ BreakConfirmation
  /\ UNCHANGED <<armed, incidents, cooldown, last, device, nextId, ledger, bursts>>

CameraErrs ==
  /\ Disturbance
  /\ camera' = "ERROR" /\ internal' = Without(None)
  /\ Fault
  /\ UNCHANGED <<incidents, cooldown, last, disconnectedAt, device, nextId, ledger, bursts>>

DeviceReady ==
  /\ Disturbance
  /\ device' = "READY"
  /\ UNCHANGED <<policy, camera, disconnectedAt, transport, bursts>>

DeviceNotReady ==
  /\ Disturbance
  /\ device' = "NOT_READY"
  /\ BreakConfirmation
  /\ UNCHANGED <<armed, incidents, cooldown, last, camera, disconnectedAt, transport, bursts>>

DeviceFaults ==
  /\ Disturbance
  /\ device' = "FAULT"
  /\ Fault
  /\ UNCHANGED <<incidents, cooldown, last, camera, disconnectedAt, transport, bursts>>

\* INJECT_ACTION: a command of no incident; a known id changes nothing.
Inject(name, id, response, delay) ==
  /\ Disturbance
  /\ id \notin ledger
  /\ Dispatch([id |-> id, name |-> name, incident |-> None], response, delay, internal)
  /\ UNCHANGED <<policy, health, nextId, bursts>>

Tick ==
  /\ Input
  /\ state' = StateOnceSettled /\ cooldown' = CooldownOnceSettled
  /\ UNCHANGED <<armed, persistence, incidents, last, health, transport, bursts>>

AdvanceAtOnce ==                         \* slip: work due now is left behind
  /\ now < MaxNow
  /\ now' = now + 1 /\ inputs' = MaxInputs
  /\ UNCHANGED <<disturbances, policy, health, transport, bursts>>

\* Time passes once all work that is due by now is done.
Advance ==
  /\ now < MaxNow /\ \A w \in internal : w.due > now
  /\ now' = now + 1 /\ inputs' = MaxInputs
  /\ UNCHANGED <<disturbances, policy, health, transport, bursts>>

-----------------------------------------------------------------------------
Seen ==
  {[kind |-> kind, key |-> None, captured |-> now - age] :
     kind \in {"Blocked", "Clear"}, age \in {a \in FrameAges : a <= now}}
    \cup {[kind |-> kind, key |-> key, captured |-> now - age] :
            kind \in {"Weak", "Harmful"}, key \in Keys,
            age \in {a \in FrameAges : a <= now}}

Init ==
  /\ now = 0 /\ inputs = MaxInputs /\ disturbances = 0
  /\ state = "DISARMED" /\ armed = FALSE
  /\ camera \in CameraStatus /\ device \in DeviceStatus
  /\ persistence = NoEvidence /\ incidents = <<>> /\ cooldown = None /\ last = None
  /\ nextId = 1 /\ ledger = {} /\ bursts = <<>>
  /\ IF camera = "DISCONNECTED"
     THEN /\ disconnectedAt = now
          /\ internal = {[due |-> CameraTimeout, order |-> 1, result |-> "CAMERA_TIMEOUT",
                          command |-> None]}
     ELSE disconnectedAt = None /\ internal = {}

Observe ==
  \/ ObservationIgnored
  \/ \E o \in Seen :
       \/ ObservationWithheld(o) \/ ObservationBlocked(o) \/ ObservationHarmless(o)
       \/ HarmObserved(o) \/ AimCollides(o)
       \/ \E response \in Responses, delay \in Delays : HarmConfirmed(o, response, delay)

DoWork ==
  \E w \in internal :
    \/ CameraTimesOut(w) \/ CommandFails(w) \/ BurstAcknowledged(w)
    \/ AimIgnored(w) \/ AimAbandoned(w) \/ FireCollides(w)
    \/ \E response \in Responses, delay \in Delays : Fire(w, response, delay)

Disturb ==
  \/ Disarm \/ EStop \/ Restart
  \/ CameraConnects \/ CameraDisconnects \/ CameraErrs
  \/ DeviceReady \/ DeviceNotReady \/ DeviceFaults
  \/ \E name \in InjectedNames, id \in InjectedIds,
        response \in Responses, delay \in Delays : Inject(name, id, response, delay)

Next == Observe \/ DoWork \/ Disturb \/ Arm \/ Tick \/ Advance

Spec == Init /\ [][Next]_vars

-----------------------------------------------------------------------------
TypeOK ==
  /\ now \in Nat /\ inputs \in Nat /\ disturbances \in Nat
  /\ state \in States /\ armed \in BOOLEAN
  /\ camera \in CameraStatus /\ device \in DeviceStatus
  /\ disconnectedAt \in Nat \cup {None} /\ cooldown \in Nat \cup {None}
  /\ DOMAIN persistence = Keys
  /\ \A k \in Keys : \A f \in persistence[k] : f.at \in Nat
  /\ incidents \in Seq(Incident)
  /\ last \in Observation \cup {None}
  /\ nextId \in Nat /\ ledger \subseteq Nat
  /\ \A w \in internal : IsWork(w) /\ w.due >= now        \* no deadline is missed
  /\ bursts \in Seq([incident : DOMAIN incidents, open : BOOLEAN])

\* An incident is fired on once at most, whatever answers come late and whichever
\* aims were given up and ordered again (engine.py:937, _goto_acknowledged).
OneBurstPerIncident ==
  \A i, j \in DOMAIN bursts : bursts[i].incident = bursts[j].incident => i = j

\* The policy fires only while armed and healthy, for an incident whose evidence
\* is a fresh qualifying frame (engine.py:934, the recheck after the aim).
BurstIsWarranted ==
  [][bursts' # bursts =>
       /\ armed /\ camera = "CONNECTED" /\ device = "READY"
       /\ last.kind = "Harmful" /\ Fresh(last)
       /\ last.key = incidents[bursts'[Len(bursts')].incident].key]_vars

\* From a burst to the end of its cooldown and of its incident, the policy neither
\* confirms nor aims: COOLDOWN is left for neither alone (engine.py:728).
CooldownHolds ==
  /\ cooldown # None => state \in {"BURST", "COOLDOWN", "FAULT"}
  /\ state \in {"BURST", "COOLDOWN"} => cooldown # None
  /\ \A i \in Open : incidents[i].latched => cooldown # None

\* A camera that stays away faults an armed policy in time, over disarms and
\* restarts that void its timer (engine.py:341, 293).
CameraFaultsInTime ==
  armed /\ camera = "DISCONNECTED" => now <= disconnectedAt + CameraTimeout

\* While the policy aims or fires, an answer or a timeout of its own command is to
\* come: it cannot wait for ever (engine.py:841).
Pending(name) ==
  \E w \in internal :
    w.result = "TIMEOUT" /\ w.command.name = name /\ w.command.incident # None

WaitsForAnAnswer ==
  (state = "AIMING" => Pending("GOTO_PRESET")) /\ (state = "BURST" => Pending("BURST"))

\* docs/architecture.md:119: the latch is set when the burst is accepted, so continuous
\* harm gets one burst.  (It is set on the incident that aimed, engine.py:934.)
LatchIsOnOpenIncident == \A i \in DOMAIN bursts : bursts[i].open

=============================================================================
