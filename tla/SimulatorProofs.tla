--------------------------- MODULE SimulatorProofs ---------------------------
(***************************************************************************)
(* Proofs about Simulator, for any scenario, configuration and number of   *)
(* keys, incidents and inputs.                                             *)
(*                                                                         *)
(* The hard fact is that a late answer never fires twice for an incident.  *)
(* It rests on the contract AckTimeout < CooldownTime: an aim still in the *)
(* queue when its incident is latched times out before the cooldown that   *)
(* the burst started can end, and nobody aims before that.                 *)
(***************************************************************************)
EXTENDS Simulator, SequenceTheorems, TLAPS

IsTimeout(w) == w.result = "TIMEOUT"

\* The work of a command always includes its timeout, at most AckTimeout away,
\* and belongs to a recorded incident or to none.
WorkInv ==
  \A w \in internal :
    w.command # None =>
      /\ \E v \in internal : IsTimeout(v) /\ v.command = w.command
      /\ IsTimeout(w) => w.due <= now + AckTimeout
      /\ w.command.incident # None => w.command.incident \in DOMAIN incidents

\* An aim for a latched incident times out before the cooldown is over.
LateAimsInv ==
  \A w \in internal :
    (/\ IsTimeout(w) /\ w.command.name = "GOTO_PRESET"
     /\ w.command.incident # None /\ incidents[w.command.incident].latched)
      => cooldown # None /\ w.due < cooldown

\* A burst leaves its latch for ever.
LatchInv == \A b \in DOMAIN bursts : incidents[bursts[b].incident].latched

\* While the policy aims, the last frame it took was a qualifying one.
AimInv == state = "AIMING" => last # None /\ last.kind = "Harmful"

\* An armed policy without its camera has a timer running.
TimerInv ==
  armed /\ camera = "DISCONNECTED" =>
    \E w \in internal : w.command = None /\ w.due = disconnectedAt + CameraTimeout

IInv ==
  /\ TypeOK /\ WorkInv /\ LateAimsInv /\ LatchInv /\ AimInv /\ TimerInv
  /\ CooldownHolds /\ WaitsForAnAnswer /\ OneBurstPerIncident

-----------------------------------------------------------------------------
\* The configuration's times are positive numbers.
LEMMA Times ==
  /\ MaxFrameAge \in Nat /\ CameraTimeout \in Nat /\ CooldownTime \in Nat
  /\ AckTimeout \in Nat /\ AckTimeout < CooldownTime
  /\ "TIMEOUT" \notin Responses /\ "CAMERA_TIMEOUT" \notin Responses
  /\ \A d \in Delays : d \in Nat
  /\ \A i \in InjectedIds : i \in Nat
  /\ \A n \in InjectedNames : n \in {"GOTO_PRESET", "BURST"}
  /\ "DENIED" \in Responses
  /\ None \notin Nat /\ None \notin Keys
  BY ContractAssumption

\* An index of a sequence is a number.
LEMMA Indices ==
  ASSUME NEW S, NEW s \in Seq(S)
  PROVE  /\ Len(s) \in Nat /\ DOMAIN s = 1 .. Len(s)
         /\ \A i \in DOMAIN s : i \in Nat /\ s[i] \in S
  BY LenProperties, ElementOfSeq

\* Replacing the elements of a sequence one by one.
LEMMA Relabelled ==
  ASSUME NEW S, NEW s \in Seq(S), NEW t, DOMAIN t = DOMAIN s,
         t = [i \in DOMAIN s |-> t[i]], \A i \in DOMAIN s : t[i] \in S
  PROVE  t \in Seq(S) /\ Len(t) = Len(s)
<1>1. Len(s) \in Nat /\ DOMAIN s = 1 .. Len(s)
  BY Indices
<1>2. t \in [1 .. Len(s) -> S]
  BY <1>1
<1> QED
  BY <1>1, <1>2, SeqDef, LenProperties

-----------------------------------------------------------------------------
\* Incidents: what is recorded stays, and no step but a burst sets a latch.

KeepsLatches(recorded) ==
  /\ recorded \in Seq(Incident)
  /\ DOMAIN incidents \subseteq DOMAIN recorded
  /\ \A i \in DOMAIN incidents : recorded[i].latched = incidents[i].latched
  /\ \A i \in DOMAIN recorded :
       recorded[i].latched =>
         i \in DOMAIN incidents /\ (recorded[i].open => incidents[i].open)

\* A frame without harm only closes incidents.
LEMMA NotedClearKeeps ==
  ASSUME IInv
  PROVE  KeepsLatches(NotedClear)
<1> DEFINE t == NotedClear
<1>1. incidents \in Seq(Incident) /\ now \in Nat
  BY DEF IInv, TypeOK
<1>2. /\ DOMAIN t = DOMAIN incidents
      /\ t = [i \in DOMAIN incidents |-> t[i]]
  BY DEF NotedClear
<1>3. ASSUME NEW i \in DOMAIN incidents
      PROVE  /\ t[i] \in Incident
             /\ t[i].latched = incidents[i].latched
             /\ t[i].open => incidents[i].open
  <2>1. incidents[i] \in Incident
    BY <1>1, <1>3, Indices
  <2>2. ClearedSince(incidents[i]) \in Nat
    BY <1>1, <2>1 DEF ClearedSince, Incident
  <2> QED
    <3>1. CASE incidents[i].open
      <4> DEFINE c == now - ClearedSince(incidents[i]) < IncidentClear
      <4>1. t[i] = [incidents[i] EXCEPT !.clearSince = ClearedSince(incidents[i]), !.open = c]
        BY <1>3, <3>1 DEF NotedClear
      <4>2. c \in BOOLEAN
        OBVIOUS
      <4> HIDE DEF c
      <4> QED
        BY <2>1, <2>2, <3>1, <4>1, <4>2 DEF Incident
    <3>2. CASE ~incidents[i].open
      BY <1>3, <2>1, <3>2 DEF NotedClear
    <3> QED
      BY <3>1, <3>2
<1>4. t \in Seq(Incident)
  BY <1>1, <1>2, <1>3, Relabelled
<1> QED
  BY <1>2, <1>3, <1>4 DEF KeepsLatches

\* A harmful frame opens an unlatched incident or keeps the open one.
LEMMA NotedHarmKeeps ==
  ASSUME IInv, NEW key \in Keys
  PROVE  /\ KeepsLatches(NotedHarm(key))
         /\ HarmIncident(key) \in DOMAIN NotedHarm(key)
         /\ (\A i \in OpenFor(key) : ~incidents[i].latched)
              => ~NotedHarm(key)[HarmIncident(key)].latched
<1>1. incidents \in Seq(Incident) /\ now \in Nat
  BY DEF IInv, TypeOK
<1>2. /\ Len(incidents) \in Nat /\ DOMAIN incidents = 1 .. Len(incidents)
      /\ \A i \in DOMAIN incidents : incidents[i] \in Incident
  BY <1>1, Indices
<1>3. CASE OpenFor(key) = {}
  <2> DEFINE new == [key |-> key, latched |-> FALSE, clearSince |-> None, open |-> TRUE]
             t == Append(incidents, new)
  <2>1. new \in Incident
    BY DEF Incident
  <2>2. /\ t \in Seq(Incident) /\ Len(t) = Len(incidents) + 1
        /\ \A i \in 1 .. Len(incidents) : t[i] = incidents[i]
        /\ t[Len(incidents) + 1] = new
    BY <1>1, <2>1, AppendProperties
  <2>3. DOMAIN t = 1 .. Len(incidents) + 1
    BY <2>2, LenProperties
  <2>4. NotedHarm(key) = t /\ HarmIncident(key) = Len(incidents) + 1
    BY <1>3 DEF NotedHarm, HarmIncident
  <2>5. ~new.latched
    OBVIOUS
  <2> HIDE DEF new, t
  <2>6. Len(incidents) + 1 \in DOMAIN t
    BY <1>2, <2>3
  <2>7. \A i \in DOMAIN t : t[i].latched => i \in DOMAIN incidents /\ t[i] = incidents[i]
    BY <1>2, <2>2, <2>3, <2>5
  <2>8. \A i \in DOMAIN incidents : i \in DOMAIN t /\ t[i] = incidents[i]
    BY <1>2, <2>2, <2>3
  <2> QED
    BY <2>2, <2>4, <2>5, <2>6, <2>7, <2>8 DEF KeepsLatches
<1>4. CASE OpenFor(key) # {}
  <2> DEFINE t == NotedHarm(key)
  <2>1. /\ DOMAIN t = DOMAIN incidents
        /\ t = [i \in DOMAIN incidents |-> t[i]]
    BY <1>4 DEF NotedHarm
  <2>2. \A i \in DOMAIN incidents :
          /\ t[i] \in Incident
          /\ t[i].latched = incidents[i].latched
          /\ t[i].open = incidents[i].open
    BY <1>2, <1>4 DEF NotedHarm, Incident
  <2>3. t \in Seq(Incident)
    BY <1>1, <2>1, <2>2, Relabelled
  <2>4. HarmIncident(key) \in OpenFor(key)
    BY <1>4 DEF HarmIncident
  <2>5. OpenFor(key) \subseteq DOMAIN incidents
    BY DEF OpenFor, Open
  <2> QED
    BY <2>1, <2>2, <2>3, <2>4, <2>5 DEF KeepsLatches
<1> QED
  BY <1>3, <1>4

-----------------------------------------------------------------------------
\* The queue of internal work.

\* A command leaves the queue with all its work or not at all.
Remaining(queue) ==
  \A w \in queue :
    w.command # None => w \in internal /\ \A v \in internal : v.command = w.command => v \in queue

WellFormed(queue) == \A w \in queue : IsWork(w) /\ w.due >= now

LEMMA WithoutRemains ==
  ASSUME IInv, NEW command
  PROVE  Remaining(Without(command)) /\ WellFormed(Without(command))
  BY DEF Remaining, Without, WellFormed, IInv, TypeOK

LEMMA AllRemains ==
  ASSUME IInv
  PROVE  Remaining(internal) /\ WellFormed(internal)
  BY DEF Remaining, WellFormed, IInv, TypeOK

LEMMA TimerRemains ==
  ASSUME IInv
  PROVE  /\ Remaining({CameraTimer}) /\ Remaining(Without(None) \cup {CameraTimer})
         /\ WellFormed({CameraTimer}) /\ WellFormed(Without(None) \cup {CameraTimer})
         /\ CameraTimer.command = None /\ CameraTimer.due = now + CameraTimeout
<1>1. now \in Nat
  BY DEF IInv, TypeOK
<1>2. /\ CameraTimer.command = None /\ CameraTimer.due = now + CameraTimeout
      /\ CameraTimer.result = "CAMERA_TIMEOUT"
  BY DEF CameraTimer, Schedule
<1>3. IsWork(CameraTimer) /\ CameraTimer.due >= now
  BY <1>1, <1>2, Times DEF IsWork
<1> QED
  BY <1>2, <1>3, WithoutRemains DEF Remaining, WellFormed, Without

\* What a dispatch puts into the queue.
LEMMA ScheduledFacts ==
  ASSUME now \in Nat, NEW command \in Command, NEW response \in Responses,
         NEW delay \in Delays
  PROVE  /\ \A w \in Scheduled(command, response, delay) :
              /\ IsWork(w) /\ w.due >= now /\ w.command = command
              /\ IsTimeout(w) => w.due = now + AckTimeout
         /\ \E w \in Scheduled(command, response, delay) : IsTimeout(w)
<1> DEFINE answer == Schedule(now + delay, 1, response, command)
           timeout == Schedule(now + AckTimeout, 2, "TIMEOUT", command)
<1>1. /\ answer.due = now + delay /\ answer.result = response /\ answer.command = command
      /\ timeout.due = now + AckTimeout /\ timeout.result = "TIMEOUT"
      /\ timeout.command = command
  BY DEF Schedule
<1>2. Scheduled(command, response, delay) \subseteq {answer, timeout}
  BY DEF Scheduled
<1>3. timeout \in Scheduled(command, response, delay)
  BY DEF Scheduled
<1> HIDE DEF answer, timeout
<1>4. response # "TIMEOUT" /\ now + delay >= now /\ now + delay \in Nat
      /\ now + AckTimeout >= now /\ now + AckTimeout \in Nat
  BY Times
<1>5. \A w \in {answer, timeout} :
        /\ IsWork(w) /\ w.due >= now /\ w.command = command
        /\ IsTimeout(w) => w.due = now + AckTimeout
  BY <1>1, <1>4 DEF IsWork, IsTimeout
<1> QED
  BY <1>1, <1>2, <1>3, <1>5 DEF IsTimeout

\* Work that only leaves keeps its invariants.
LEMMA WorkKept ==
  ASSUME IInv, now' = now, DOMAIN incidents \subseteq DOMAIN incidents',
         Remaining(internal')
  PROVE  WorkInv'
  BY DEF IInv, WorkInv, Remaining, IsTimeout

\* So does work that is joined by a new command's.
LEMMA WorkAdded ==
  ASSUME IInv, now' = now, DOMAIN incidents \subseteq DOMAIN incidents',
         NEW queue, Remaining(queue), NEW command \in Command,
         NEW response \in Responses, NEW delay \in Delays,
         internal' = queue \cup Scheduled(command, response, delay),
         command.incident = None \/ command.incident \in DOMAIN incidents'
  PROVE  WorkInv'
<1>1. now \in Nat /\ AckTimeout \in Nat
  BY Times DEF IInv, TypeOK
<1>2. ASSUME NEW w \in queue, w.command # None
      PROVE  /\ \E v \in internal' : IsTimeout(v) /\ v.command = w.command
             /\ IsTimeout(w) => w.due <= now + AckTimeout
             /\ w.command.incident # None => w.command.incident \in DOMAIN incidents'
  BY <1>2 DEF IInv, WorkInv, Remaining, IsTimeout
<1>3. ASSUME NEW w \in Scheduled(command, response, delay)
      PROVE  /\ \E v \in internal' : IsTimeout(v) /\ v.command = w.command
             /\ IsTimeout(w) => w.due <= now + AckTimeout
             /\ w.command.incident # None => w.command.incident \in DOMAIN incidents'
  BY <1>1, <1>3, ScheduledFacts
<1> QED
  BY <1>2, <1>3 DEF WorkInv, IsTimeout

\* A cooldown ends only when it is over.
KeepsCooldown == cooldown' = cooldown \/ (cooldown' = None /\ now >= cooldown)

LEMMA TimeoutsHaveCommands ==
  ASSUME NEW w, IsWork(w), IsTimeout(w)
  PROVE  w.command \in Command /\ w.command # None
  BY NoneAssumption DEF IsWork, IsTimeout

LEMMA LateAimsKept ==
  ASSUME IInv, KeepsLatches(incidents'), KeepsCooldown,
         Remaining(internal'), WellFormed(internal')
  PROVE  LateAimsInv'
<1> SUFFICES ASSUME NEW w \in internal',
                    IsTimeout(w), w.command.name = "GOTO_PRESET",
                    w.command.incident # None, incidents'[w.command.incident].latched
             PROVE  cooldown' # None /\ w.due < cooldown'
  BY DEF LateAimsInv, IsTimeout
<1>1. w.command # None
  BY TimeoutsHaveCommands DEF WellFormed
<1>2. w \in internal /\ w.due \in Nat /\ w.due >= now
  BY <1>1 DEF Remaining, WellFormed, IsWork
<1>3. w.command.incident \in DOMAIN incidents
  BY <1>1, <1>2 DEF IInv, WorkInv
<1>4. incidents[w.command.incident].latched
  BY <1>3 DEF KeepsLatches
<1>5. cooldown # None /\ w.due < cooldown
  BY <1>2, <1>4 DEF IInv, LateAimsInv
<1>6. cooldown \in Nat /\ now \in Nat
  BY <1>5 DEF IInv, TypeOK
<1> QED
  BY <1>2, <1>5, <1>6 DEF KeepsCooldown

\* A new command of no incident, or of one without a latch, is no late aim.
LEMMA LateAimsAdded ==
  ASSUME IInv, KeepsLatches(incidents'), KeepsCooldown, now \in Nat,
         NEW queue, Remaining(queue), WellFormed(queue), NEW command \in Command,
         NEW response \in Responses, NEW delay \in Delays,
         internal' = queue \cup Scheduled(command, response, delay),
         command.incident = None \/ ~incidents'[command.incident].latched
  PROVE  LateAimsInv'
<1> SUFFICES ASSUME NEW w \in internal',
                    IsTimeout(w), w.command.name = "GOTO_PRESET",
                    w.command.incident # None, incidents'[w.command.incident].latched
             PROVE  cooldown' # None /\ w.due < cooldown'
  BY DEF LateAimsInv, IsTimeout
<1>1. w \notin Scheduled(command, response, delay)
  BY ScheduledFacts
<1>2. w \in queue
  BY <1>1
<1>3. w.command # None
  BY <1>2, TimeoutsHaveCommands DEF WellFormed
<1>4. w \in internal /\ w.due \in Nat /\ w.due >= now
  BY <1>2, <1>3 DEF Remaining, WellFormed, IsWork
<1>5. w.command.incident \in DOMAIN incidents
  BY <1>3, <1>4 DEF IInv, WorkInv
<1>6. incidents[w.command.incident].latched
  BY <1>5 DEF KeepsLatches
<1>7. cooldown # None /\ w.due < cooldown
  BY <1>4, <1>6 DEF IInv, LateAimsInv
<1>8. cooldown \in Nat
  BY <1>7 DEF IInv, TypeOK
<1> QED
  BY <1>4, <1>7, <1>8 DEF KeepsCooldown

\* Latches are never taken back.
LEMMA LatchesKept ==
  ASSUME IInv, KeepsLatches(incidents'), bursts' = bursts
  PROVE  /\ LatchInv' /\ OneBurstPerIncident'
         /\ bursts' \in Seq([incident : DOMAIN incidents', open : BOOLEAN])
<1>1. bursts \in Seq([incident : DOMAIN incidents, open : BOOLEAN])
  BY DEF IInv, TypeOK
<1>2. /\ DOMAIN bursts = 1 .. Len(bursts) /\ Len(bursts) \in Nat
      /\ \A b \in DOMAIN bursts : bursts[b] \in [incident : DOMAIN incidents, open : BOOLEAN]
  BY <1>1, Indices
<1>3. LatchInv' /\ OneBurstPerIncident'
  BY <1>2 DEF IInv, LatchInv, OneBurstPerIncident, KeepsLatches
<1>4. \A b \in DOMAIN bursts : bursts[b] \in [incident : DOMAIN incidents', open : BOOLEAN]
  BY <1>2 DEF KeepsLatches
<1>5. bursts = [b \in DOMAIN bursts |-> bursts[b]]
  BY <1>1
<1> DEFINE R == [incident : DOMAIN incidents', open : BOOLEAN]
<1>6. bursts \in [1 .. Len(bursts) -> R]
  BY <1>2, <1>4, <1>5
<1> HIDE DEF R
<1>7. bursts \in Seq(R)
  BY <1>2, <1>6, SeqDef
<1> QED
  BY <1>3, <1>7 DEF R

-----------------------------------------------------------------------------
\* What most steps have in common.

\* The types of all but incidents, work and bursts.
ScalarsOK ==
  /\ now \in Nat /\ inputs \in Nat /\ disturbances \in Nat
  /\ state \in States /\ armed \in BOOLEAN
  /\ camera \in CameraStatus /\ device \in DeviceStatus
  /\ disconnectedAt \in Nat \cup {None} /\ cooldown \in Nat \cup {None}
  /\ DOMAIN persistence = Keys
  /\ \A k \in Keys : \A f \in persistence[k] : f.at \in Nat
  /\ last \in Observation \cup {None}
  /\ nextId \in Nat /\ ledger \subseteq Nat

\* What the policy's state says of the rest.
ModeOK == AimInv /\ TimerInv /\ CooldownHolds /\ WaitsForAnAnswer

\* A step at one time that neither dispatches nor fires.
LEMMA QuietStep ==
  ASSUME IInv, now' = now, bursts' = bursts, KeepsLatches(incidents'), KeepsCooldown,
         Remaining(internal'), WellFormed(internal'), ScalarsOK', ModeOK'
  PROVE  IInv'
<1>1. WorkInv' /\ LateAimsInv'
  BY WorkKept, LateAimsKept DEF KeepsLatches
<1>2. /\ LatchInv' /\ OneBurstPerIncident'
      /\ bursts' \in Seq([incident : DOMAIN incidents', open : BOOLEAN])
  BY LatchesKept
<1>3. TypeOK'
  <2>1. \A w \in internal' : IsWork(w) /\ w.due >= now'
    BY DEF WellFormed
  <2>2. incidents' \in Seq(Incident)
    BY DEF KeepsLatches
  <2> QED
    BY <1>2, <2>1, <2>2 DEF TypeOK, ScalarsOK, IsWork, Incident
<1> QED
  BY <1>1, <1>2, <1>3 DEF IInv, ModeOK

LEMMA SameIncidents ==
  ASSUME IInv
  PROVE  KeepsLatches(incidents)
  BY DEF IInv, TypeOK, KeepsLatches

LEMMA Scalars ==
  ASSUME IInv
  PROVE  ScalarsOK /\ ModeOK
  BY DEF IInv, TypeOK, ScalarsOK, ModeOK

\* Settling the cooldown leaves COOLDOWN for MONITORING and nothing else.
LEMMA SettledFacts ==
  ASSUME IInv
  PROVE  /\ StateOnceSettled \in States /\ CooldownOnceSettled \in Nat \cup {None}
         /\ CooldownOnceSettled = cooldown
              \/ (CooldownOnceSettled = None /\ now >= cooldown)
         /\ CooldownOnceSettled # None => StateOnceSettled \in {"BURST", "COOLDOWN", "FAULT"}
         /\ StateOnceSettled \in {"BURST", "COOLDOWN"} => CooldownOnceSettled # None
         /\ \A i \in Open : incidents[i].latched => CooldownOnceSettled # None
         /\ StateOnceSettled = state \/ StateOnceSettled = "MONITORING"
  BY DEF IInv, TypeOK, CooldownHolds, StateOnceSettled, CooldownOnceSettled, Settles,
         States, Open

\* An open, latched incident was so before.
LEMMA OpenLatches ==
  ASSUME NEW recorded, KeepsLatches(recorded),
         NEW i \in DOMAIN recorded, recorded[i].open, recorded[i].latched
  PROVE  i \in Open /\ incidents[i].latched
  BY DEF KeepsLatches, Open

\* A fault is a mode of its own.
LEMMA FaultMode ==
  ASSUME IInv, Fault, KeepsLatches(incidents'),
         cooldown' = cooldown \/ cooldown' = CooldownOnceSettled
  PROVE  ModeOK' /\ KeepsCooldown
<1>1. \A i \in Open : incidents[i].latched => cooldown' # None
  BY SettledFacts DEF IInv, CooldownHolds
<1>2. \A i \in Open' : incidents'[i].latched => cooldown' # None
  BY <1>1, OpenLatches DEF Open
<1>3. CooldownHolds'
  BY <1>2 DEF Fault, CooldownHolds, Open
<1> QED
  BY <1>3, SettledFacts
     DEF Fault, ModeOK, AimInv, TimerInv, WaitsForAnAnswer, KeepsCooldown

\* A fault that leaves the work as it is, or loses some of it.
LEMMA FaultStep ==
  ASSUME IInv, Fault, now' = now, bursts' = bursts, KeepsLatches(incidents'),
         cooldown' = cooldown \/ cooldown' = CooldownOnceSettled,
         Remaining(internal'), WellFormed(internal'),
         inputs' \in Nat, disturbances' \in Nat,
         camera' \in CameraStatus, device' \in DeviceStatus,
         disconnectedAt' = disconnectedAt, last' \in Observation \cup {None},
         nextId' \in Nat, ledger' = ledger
  PROVE  IInv'
<1>1. ScalarsOK /\ CooldownOnceSettled \in Nat \cup {None}
  BY Scalars, SettledFacts
<1>2. ScalarsOK'
  BY <1>1 DEF ScalarsOK, Fault, NoEvidence, States
<1> QED
  BY <1>2, FaultMode, QuietStep

-----------------------------------------------------------------------------
\* Observations.

LEMMA Counted ==
  ASSUME IInv, Input \/ Disturbance
  PROVE  now' = now /\ inputs' \in Nat /\ disturbances' \in Nat /\ now \in Nat
  BY DEF IInv, TypeOK, Input, Disturbance

LEMMA SeenFacts ==
  ASSUME IInv, NEW o \in Seen
  PROVE  /\ o \in Observation /\ o # None
         /\ o.kind \in {"Weak", "Harmful"} => o.key \in Keys
<1>1. now \in Nat
  BY DEF IInv, TypeOK
<1>2. ASSUME NEW age \in {a \in FrameAges : a <= now}
      PROVE  now - age \in Nat
  BY <1>1, ContractAssumption
<1>3. o \in Observation
  BY <1>2 DEF Seen, Observation
<1> QED
  BY <1>3, NoneAssumption DEF Observation

\* The parts an observation leaves alone.
LEMMA ObservationStep ==
  ASSUME IInv, Input, KeepsLatches(incidents'),
         armed' = armed, persistence' = NoEvidence \/ persistence' = persistence,
         UNCHANGED <<health, transport, bursts>>,
         last' \in Observation \cup {None},
         state' \in States, cooldown' \in Nat \cup {None}, KeepsCooldown,
         AimInv', CooldownHolds',
         state' = "AIMING" => state = "AIMING",
         state' = "BURST" => state = "BURST"
  PROVE  IInv'
<1>1. ScalarsOK /\ ModeOK /\ now' = now /\ inputs' \in Nat /\ disturbances' \in Nat
  BY Scalars, Counted
<1>2. ScalarsOK'
  BY <1>1 DEF ScalarsOK, NoEvidence, health, transport
<1>3. Remaining(internal') /\ WellFormed(internal')
  BY AllRemains DEF transport
<1>4. TimerInv' /\ WaitsForAnAnswer'
  BY <1>1 DEF ModeOK, TimerInv, WaitsForAnAnswer, Pending, health, transport
<1> QED
  BY <1>1, <1>2, <1>3, <1>4, QuietStep DEF ModeOK, transport

LEMMA KeptCooldownHolds ==
  ASSUME IInv, KeepsLatches(incidents'),
         \/ cooldown' = cooldown /\ state' = state
         \/ cooldown' = cooldown /\ state \in Confirming \cup {"MONITORING", "DISARMED"}
              /\ state' \in Confirming \cup {"MONITORING"}
         \/ cooldown' = CooldownOnceSettled /\ state' = StateOnceSettled
         \/ /\ cooldown' = CooldownOnceSettled /\ cooldown' = None
            /\ state' \in Confirming \cup {"MONITORING"}
  PROVE  CooldownHolds' /\ KeepsCooldown
<1>1. \A i \in Open : incidents[i].latched => cooldown' # None
  BY SettledFacts DEF IInv, CooldownHolds
<1>2. \A i \in Open' : incidents'[i].latched => cooldown' # None
  BY <1>1, OpenLatches DEF Open
<1>3. CooldownHolds /\ state \in States
  BY DEF IInv, TypeOK
<1>4. /\ cooldown' # None => state' \in {"BURST", "COOLDOWN", "FAULT"}
      /\ state' \in {"BURST", "COOLDOWN"} => cooldown' # None
  BY <1>3, SettledFacts DEF CooldownHolds, Confirming, States
<1> QED
  BY <1>2, <1>4, SettledFacts DEF CooldownHolds, KeepsCooldown

LEMMA IgnoredStep ==
  ASSUME IInv, ObservationIgnored
  PROVE  IInv'
<1>1. KeepsLatches(incidents') /\ CooldownHolds' /\ KeepsCooldown /\ AimInv'
  BY SameIncidents, KeptCooldownHolds
     DEF ObservationIgnored, policy, IInv, AimInv
<1> QED
  BY <1>1, ObservationStep, Scalars DEF ObservationIgnored, policy, ScalarsOK

LEMMA BreakFacts ==
  ASSUME IInv, BreakConfirmation
  PROVE  /\ persistence' = NoEvidence /\ state' \in States
         /\ state' # "AIMING" /\ (state' = "BURST" => state = "BURST")
         /\ \/ state' = state
            \/ state \in Confirming /\ state' = "MONITORING"
  BY DEF IInv, TypeOK, BreakConfirmation, Confirming, States

LEMMA WithheldStep ==
  ASSUME IInv, NEW o, ObservationWithheld(o)
  PROVE  IInv'
<1>1. Input /\ BreakConfirmation
      /\ UNCHANGED <<armed, incidents, cooldown, last, health, transport, bursts>>
  BY DEF ObservationWithheld
<1>2. KeepsLatches(incidents') /\ CooldownHolds' /\ KeepsCooldown /\ AimInv'
  BY <1>1, SameIncidents, KeptCooldownHolds, BreakFacts DEF AimInv
<1> QED
  BY <1>1, <1>2, BreakFacts, ObservationStep, Scalars DEF ScalarsOK

LEMMA BlockedStep ==
  ASSUME IInv, NEW o \in Seen, ObservationBlocked(o)
  PROVE  IInv'
<1>1. /\ Input /\ persistence' = NoEvidence /\ last' = o
      /\ state' = IF state \in Confirming THEN "MONITORING" ELSE StateOnceSettled
      /\ cooldown' = CooldownOnceSettled
      /\ UNCHANGED <<armed, incidents, health, transport, bursts>>
  BY DEF ObservationBlocked
<1>2. KeepsLatches(incidents') /\ ScalarsOK /\ ModeOK
  BY <1>1, SameIncidents, Scalars
<1>3. state \in Confirming => cooldown = None /\ CooldownOnceSettled = None
  BY <1>2 DEF ModeOK, CooldownHolds, Confirming, CooldownOnceSettled
<1>4. CooldownHolds' /\ KeepsCooldown
  BY <1>1, <1>2, <1>3, KeptCooldownHolds
<1>5. state' # "AIMING" /\ state' \in States /\ (state' = "BURST" => state = "BURST")
  BY <1>1, SettledFacts DEF Confirming, States
<1> QED
  BY <1>1, <1>2, <1>4, <1>5, SettledFacts, SeenFacts, ObservationStep DEF AimInv

LEMMA HarmlessStep ==
  ASSUME IInv, NEW o \in Seen, ObservationHarmless(o)
  PROVE  IInv'
<1>1. /\ Input /\ persistence' = NoEvidence /\ last' = o /\ incidents' = NotedClear
      /\ state' = IF state \in Confirming \/ Settles(incidents') THEN "MONITORING" ELSE state
      /\ cooldown' = IF Settles(incidents') THEN None ELSE cooldown
      /\ UNCHANGED <<armed, health, transport, bursts>>
  BY DEF ObservationHarmless
<1>2. KeepsLatches(incidents') /\ ScalarsOK /\ ModeOK
  BY <1>1, NotedClearKeeps, Scalars
<1>3. \A i \in Open' : i \in DOMAIN incidents' /\ incidents'[i].open
  BY DEF Open
<1>4. \A i \in Open' : incidents'[i].latched => i \in Open /\ incidents[i].latched
  BY <1>2, <1>3, OpenLatches
<1>5. \A i \in Open' : incidents'[i].latched => cooldown' # None
  <2>1. CASE Settles(incidents')
    BY <1>3, <2>1 DEF Settles
  <2>2. CASE ~Settles(incidents')
    BY <1>1, <1>2, <1>4, <2>2 DEF ModeOK, CooldownHolds
  <2> QED
    BY <2>1, <2>2
<1>6. CooldownHolds'
  BY <1>1, <1>2, <1>5 DEF ModeOK, CooldownHolds, Confirming, Settles
<1>7. KeepsCooldown /\ cooldown' \in Nat \cup {None}
  BY <1>1, <1>2 DEF KeepsCooldown, Settles, ScalarsOK
<1>8. state' # "AIMING" /\ state' \in States /\ (state' = "BURST" => state = "BURST")
  BY <1>1, <1>2 DEF Confirming, States, ScalarsOK
<1> QED
  BY <1>1, <1>2, <1>6, <1>7, <1>8, SeenFacts, ObservationStep DEF AimInv

LEMMA SupportingFacts ==
  ASSUME IInv, NEW key \in Keys
  PROVE  /\ DOMAIN [persistence EXCEPT ![key] = Supporting(key)] = Keys
         /\ \A k \in Keys : \A f \in [persistence EXCEPT ![key] = Supporting(key)][k] :
              f.at \in Nat
<1>1. /\ now \in Nat /\ DOMAIN persistence = Keys
      /\ \A k \in Keys : \A f \in persistence[k] : f.at \in Nat
  BY DEF IInv, TypeOK
<1>2. Support(key, now).at = now
  BY DEF Support
<1>3. \A f \in Supporting(key) : f.at \in Nat
  BY <1>1, <1>2 DEF Supporting
<1> QED
  BY <1>1, <1>3

\* A harmful frame, whatever becomes of it.
LEMMA HarmFacts ==
  ASSUME IInv, NEW o \in Seen, ObservationHarmful(o)
  PROVE  /\ Input /\ o.key \in Keys /\ o.kind = "Harmful"
         /\ last' = o /\ o \in Observation /\ o # None
         /\ incidents' = NotedHarm(o.key) /\ cooldown' = CooldownOnceSettled
         /\ KeepsLatches(incidents') /\ ScalarsOK /\ ModeOK
         /\ HarmIncident(o.key) \in DOMAIN incidents'
         /\ ~Suppressed(o.key) => ~incidents'[HarmIncident(o.key)].latched
         /\ now' = now /\ inputs' \in Nat /\ disturbances' \in Nat
<1>1. /\ Input /\ o.kind = "Harmful" /\ last' = o
      /\ incidents' = NotedHarm(o.key) /\ cooldown' = CooldownOnceSettled
  BY DEF ObservationHarmful
<1>2. o.key \in Keys /\ o \in Observation /\ o # None
  BY <1>1, SeenFacts
<1>3. ~Suppressed(o.key) => \A i \in OpenFor(o.key) : ~incidents[i].latched
  BY DEF Suppressed
<1> QED
  BY <1>1, <1>2, <1>3, NotedHarmKeeps, Scalars, Counted

LEMMA HarmObservedStep ==
  ASSUME IInv, NEW o \in Seen, HarmObserved(o)
  PROVE  IInv'
<1>1. ObservationHarmful(o)
  BY DEF HarmObserved
<1>2. /\ persistence' = [persistence EXCEPT ![o.key] = Supporting(o.key)]
      /\ state' = IF ~Suppressed(o.key) /\ StateOnceSettled \in {"MONITORING", "TRACKING"}
                  THEN "CONFIRMING" ELSE StateOnceSettled
      /\ UNCHANGED <<armed, health, transport, bursts>>
  BY DEF HarmObserved
<1>3. CooldownHolds' /\ KeepsCooldown
  <2>1. CASE ~Suppressed(o.key) /\ StateOnceSettled \in {"MONITORING", "TRACKING"}
    BY <1>1, <1>2, <2>1, HarmFacts, KeptCooldownHolds DEF Suppressed, Confirming
  <2>2. CASE ~(~Suppressed(o.key) /\ StateOnceSettled \in {"MONITORING", "TRACKING"})
    BY <1>1, <1>2, <2>2, HarmFacts, KeptCooldownHolds
  <2> QED
    BY <2>1, <2>2
<1>4. /\ state' \in States /\ cooldown' \in Nat \cup {None}
      /\ state' \in {"AIMING", "BURST"} => state' = state
  BY <1>1, <1>2, HarmFacts, SettledFacts DEF States
<1>5. ScalarsOK'
  BY <1>1, <1>2, <1>4, HarmFacts, SupportingFacts DEF ScalarsOK, health, transport
<1>6. Remaining(internal') /\ WellFormed(internal')
  BY <1>2, AllRemains DEF transport
<1>7. AimInv'
  BY <1>1, HarmFacts DEF AimInv
<1>8. TimerInv' /\ WaitsForAnAnswer'
  BY <1>1, <1>2, <1>4, HarmFacts
     DEF ModeOK, TimerInv, WaitsForAnAnswer, Pending, health, transport
<1> QED
  BY <1>1, <1>2, <1>3, <1>5, <1>6, <1>7, <1>8, HarmFacts, QuietStep DEF ModeOK, transport

LEMMA AimCollidesStep ==
  ASSUME IInv, NEW o \in Seen, AimCollides(o)
  PROVE  IInv'
<1>1. /\ ObservationHarmful(o) /\ Fault /\ nextId' = nextId + 1
      /\ UNCHANGED <<health, ledger, internal, bursts>>
  BY DEF AimCollides, Allocate
<1>2. /\ camera' \in CameraStatus /\ device' \in DeviceStatus
      /\ disconnectedAt' = disconnectedAt /\ nextId' \in Nat
  BY <1>1, HarmFacts DEF ScalarsOK, health
<1>3. Remaining(internal') /\ WellFormed(internal')
  BY <1>1, AllRemains
<1> QED
  BY <1>1, <1>2, <1>3, HarmFacts, FaultStep

\* A command that is no burst of the policy joins the work that is left.
LEMMA DispatchStep ==
  ASSUME IInv, now' = now, bursts' = bursts, KeepsLatches(incidents'), KeepsCooldown,
         NEW queue, Remaining(queue), WellFormed(queue), NEW command \in Command,
         NEW response \in Responses, NEW delay \in Delays,
         Dispatch(command, response, delay, queue),
         \/ command.incident = None
         \/ command.incident \in DOMAIN incidents' /\ ~incidents'[command.incident].latched,
         ScalarsOK', ModeOK'
  PROVE  IInv'
<1>1. now \in Nat /\ internal' = queue \cup Scheduled(command, response, delay)
  BY DEF IInv, TypeOK, Dispatch
<1>2. DOMAIN incidents \subseteq DOMAIN incidents' /\ incidents' \in Seq(Incident)
  BY DEF KeepsLatches
<1>3. WorkInv'
  BY <1>1, <1>2, WorkAdded
<1>4. LateAimsInv'
  BY <1>1, LateAimsAdded
<1>5. /\ LatchInv' /\ OneBurstPerIncident'
      /\ bursts' \in Seq([incident : DOMAIN incidents', open : BOOLEAN])
  BY LatchesKept
<1>6. \A w \in internal' : IsWork(w) /\ w.due >= now'
  BY <1>1, ScheduledFacts DEF WellFormed
<1>7. TypeOK'
  BY <1>2, <1>5, <1>6 DEF TypeOK, ScalarsOK, IsWork, Incident
<1> QED
  BY <1>3, <1>4, <1>5, <1>7 DEF IInv, ModeOK

\* The policy's timeout is on its way.
LEMMA DispatchPends ==
  ASSUME now \in Nat, NEW queue, NEW command \in Command, command.incident # None,
         NEW response \in Responses, NEW delay \in Delays,
         Dispatch(command, response, delay, queue)
  PROVE  Pending(command.name)'
  BY ScheduledFacts DEF Dispatch, Pending, IsTimeout

LEMMA PolicyCommandFacts ==
  ASSUME nextId \in Nat, NEW name \in {"GOTO_PRESET", "BURST"}, NEW incident \in Nat
  PROVE  /\ PolicyCommand(name, incident) \in Command
         /\ PolicyCommand(name, incident).name = name
         /\ PolicyCommand(name, incident).incident = incident
         /\ PolicyCommand(name, incident).id = nextId
  BY DEF PolicyCommand, Command

LEMMA HarmConfirmedStep ==
  ASSUME IInv, NEW o \in Seen, NEW response \in Responses, NEW delay \in Delays,
         HarmConfirmed(o, response, delay)
  PROVE  IInv'
<1> DEFINE i == HarmIncident(o.key)
           command == PolicyCommand("GOTO_PRESET", i)
<1>1. /\ ObservationHarmful(o) /\ Confirms(o.key)
      /\ persistence' = [persistence EXCEPT ![o.key] = Supporting(o.key)]
      /\ state' = "AIMING" /\ nextId' = nextId + 1
      /\ Dispatch(command, response, delay, internal)
      /\ UNCHANGED <<armed, health, bursts>>
  BY DEF HarmConfirmed, Allocate
<1>2. ~Suppressed(o.key) /\ CooldownOnceSettled = None
  BY <1>1 DEF Confirms, Suppressed
<1>3. i \in DOMAIN incidents' /\ ~incidents'[i].latched /\ i \in Nat
  BY <1>1, <1>2, HarmFacts, Indices DEF KeepsLatches
<1>4. /\ command \in Command /\ command.name = "GOTO_PRESET" /\ command.incident = i
      /\ command.id = nextId
  BY <1>1, <1>3, HarmFacts, PolicyCommandFacts DEF ScalarsOK
<1> HIDE DEF command
<1>5. CooldownHolds' /\ KeepsCooldown /\ cooldown' = None
  BY <1>1, <1>2, HarmFacts, KeptCooldownHolds DEF Confirming
<1>6. ledger' = ledger \cup {nextId}
  BY <1>1, <1>4 DEF Dispatch
<1>7. ScalarsOK'
  BY <1>1, <1>5, <1>6, HarmFacts, SupportingFacts DEF ScalarsOK, health, States
<1>8. AimInv'
  BY <1>1, HarmFacts DEF AimInv
<1>9. i # None
  BY <1>3, Times
<1>10. WaitsForAnAnswer'
  BY <1>1, <1>4, <1>9, HarmFacts, DispatchPends DEF WaitsForAnAnswer, ScalarsOK
<1>11. TimerInv'
  BY <1>1, HarmFacts DEF ModeOK, TimerInv, health, Dispatch
<1>12. Remaining(internal) /\ WellFormed(internal)
  BY AllRemains
<1> QED
  BY <1>1, <1>3, <1>4, <1>5, <1>7, <1>8, <1>10, <1>11, <1>12, HarmFacts, DispatchStep
     DEF ModeOK

-----------------------------------------------------------------------------
\* Answers and timeouts.

LEMMA TakeFacts ==
  ASSUME IInv, NEW w \in internal, Take(w)
  PROVE  /\ now' = now /\ inputs' = 0 /\ disturbances' = disturbances
         /\ now \in Nat /\ IsWork(w) /\ w.due = now /\ ScalarsOK /\ ModeOK
         /\ Remaining(Without(w.command)) /\ WellFormed(Without(w.command))
         /\ KeepsLatches(incidents)
<1>1. now' = now /\ inputs' = 0 /\ disturbances' = disturbances /\ w.due = now
  BY DEF Take, Due
<1>2. now \in Nat /\ IsWork(w)
  BY DEF IInv, TypeOK
<1> QED
  BY <1>1, <1>2, WithoutRemains, SameIncidents, Scalars

LEMMA FailingStep ==
  ASSUME IInv, NEW w \in internal, Take(w), Fault, internal' = Without(w.command),
         nextId' \in Nat,
         UNCHANGED <<incidents, cooldown, last, health, ledger, bursts>>
  PROVE  IInv'
<1>1. /\ camera' \in CameraStatus /\ device' \in DeviceStatus
      /\ disconnectedAt' = disconnectedAt /\ last' \in Observation \cup {None}
      /\ inputs' \in Nat /\ disturbances' \in Nat
  BY TakeFacts DEF ScalarsOK, health
<1>2. KeepsLatches(incidents') /\ Remaining(internal') /\ WellFormed(internal')
  BY TakeFacts
<1> QED
  BY <1>1, <1>2, TakeFacts, FaultStep

LEMMA CameraTimesOutStep ==
  ASSUME IInv, NEW w \in internal, CameraTimesOut(w)
  PROVE  IInv'
<1>1. /\ Take(w) /\ w.result = "CAMERA_TIMEOUT" /\ internal' = Without(None) /\ Fault
      /\ UNCHANGED <<incidents, cooldown, last, health, nextId, ledger, bursts>>
  BY DEF CameraTimesOut
<1>2. w.command = None
  BY <1>1, TakeFacts, Times DEF IsWork
<1>3. nextId' \in Nat
  BY <1>1, TakeFacts DEF ScalarsOK
<1> QED
  BY <1>1, <1>2, <1>3, FailingStep

LEMMA CommandFailsStep ==
  ASSUME IInv, NEW w \in internal, CommandFails(w)
  PROVE  IInv'
<1>1. /\ Take(w) /\ internal' = Without(w.command) /\ Fault
      /\ UNCHANGED <<incidents, cooldown, last, health, nextId, ledger, bursts>>
  BY DEF CommandFails
<1>2. nextId' \in Nat
  BY <1>1, TakeFacts DEF ScalarsOK
<1> QED
  BY <1>1, <1>2, FailingStep

LEMMA FireCollidesStep ==
  ASSUME IInv, NEW w \in internal, FireCollides(w)
  PROVE  IInv'
<1>1. /\ Take(w) /\ internal' = Without(w.command) /\ Fault /\ nextId' = nextId + 1
      /\ UNCHANGED <<incidents, cooldown, last, health, ledger, bursts>>
  BY DEF FireCollides, AimAnswered, Acknowledged, Allocate
<1>2. nextId' \in Nat
  BY <1>1, TakeFacts DEF ScalarsOK
<1> QED
  BY <1>1, <1>2, FailingStep

\* An answer's work belongs to a command, and a timer outlives it.
LEMMA AnswerFacts ==
  ASSUME IInv, NEW w \in internal, NEW name, Acknowledged(w, name)
  PROVE  /\ Take(w) /\ w.command \in Command /\ w.command # None /\ w.command.name = name
         /\ internal' = Without(w.command) /\ UNCHANGED <<armed, health>> => TimerInv'
<1>1. Take(w) /\ w.result = "ACK" /\ w.command.name = name
  BY DEF Acknowledged
<1>2. w.command \in Command /\ w.command # None
  BY <1>1, TakeFacts, NoneAssumption DEF IsWork
<1>3. internal' = Without(w.command) /\ UNCHANGED <<armed, health>> => TimerInv'
  BY <1>1, <1>2, TakeFacts DEF ModeOK, TimerInv, Without, health
<1> QED
  BY <1>1, <1>2, <1>3

\* An answer that fires nothing.
LEMMA AnsweredStep ==
  ASSUME IInv, NEW w \in internal, NEW name, Acknowledged(w, name),
         internal' = Without(w.command),
         UNCHANGED <<armed, incidents, cooldown, last, health, nextId, ledger, bursts>>,
         persistence' = persistence \/ persistence' = NoEvidence,
         state' \in States, CooldownHolds', WaitsForAnAnswer',
         state' = "AIMING" => state = "AIMING"
  PROVE  IInv'
<1>1. Take(w) /\ TimerInv'
  BY AnswerFacts
<1>2. ScalarsOK'
  BY <1>1, TakeFacts DEF ScalarsOK, NoEvidence, health
<1>3. AimInv'
  BY <1>1, TakeFacts DEF ModeOK, AimInv
<1>4. KeepsCooldown
  BY DEF KeepsCooldown
<1> QED
  BY <1>1, <1>2, <1>3, <1>4, TakeFacts, QuietStep DEF ModeOK

LEMMA BurstAcknowledgedStep ==
  ASSUME IInv, NEW w \in internal, BurstAcknowledged(w)
  PROVE  IInv'
<1>1. /\ Acknowledged(w, "BURST") /\ internal' = Without(w.command)
      /\ state' = IF state = "BURST" THEN "COOLDOWN" ELSE state
      /\ UNCHANGED <<armed, persistence, incidents, cooldown, last, health, nextId, ledger,
                     bursts>>
  BY DEF BurstAcknowledged
<1>2. ModeOK /\ ScalarsOK /\ w.command.name = "BURST"
  BY <1>1, AnswerFacts, Scalars
<1>3. CooldownHolds' /\ state' \in States
  BY <1>1, <1>2 DEF ModeOK, ScalarsOK, CooldownHolds, States, Open
<1>4. WaitsForAnAnswer'
  BY <1>1, <1>2 DEF ModeOK, WaitsForAnAnswer, Pending, Without
<1> QED
  BY <1>1, <1>3, <1>4, AnsweredStep

LEMMA AimIgnoredStep ==
  ASSUME IInv, NEW w \in internal, AimIgnored(w)
  PROVE  IInv'
<1>1. /\ Acknowledged(w, "GOTO_PRESET") /\ internal' = Without(w.command)
      /\ ~Awaited(w)
      /\ UNCHANGED <<state, armed, persistence, incidents, cooldown, last>>
      /\ UNCHANGED <<health, nextId, ledger, bursts>>
  BY DEF AimIgnored, AimAnswered, policy
<1>2. ModeOK /\ ScalarsOK /\ w.command.name = "GOTO_PRESET"
  BY <1>1, AnswerFacts, Scalars
<1>3. CooldownHolds' /\ state' \in States
  BY <1>1, <1>2 DEF ModeOK, ScalarsOK, CooldownHolds, Open
<1>4. WaitsForAnAnswer'
  BY <1>1, <1>2 DEF ModeOK, WaitsForAnAnswer, Pending, Without, Awaited
<1> QED
  BY <1>1, <1>3, <1>4, AnsweredStep

LEMMA AimAbandonedStep ==
  ASSUME IInv, NEW w \in internal, AimAbandoned(w)
  PROVE  IInv'
<1>1. /\ Acknowledged(w, "GOTO_PRESET") /\ internal' = Without(w.command)
      /\ state = "AIMING" /\ state' = "MONITORING" /\ persistence' = NoEvidence
      /\ UNCHANGED <<armed, incidents, cooldown, last, health, nextId, ledger, bursts>>
  BY DEF AimAbandoned, AimAnswered, Awaited
<1>2. ModeOK /\ ScalarsOK
  BY <1>1, Scalars
<1>3. CooldownHolds' /\ state' \in States /\ WaitsForAnAnswer'
  BY <1>1, <1>2 DEF ModeOK, CooldownHolds, Open, States, WaitsForAnAnswer
<1> QED
  BY <1>1, <1>3, AnsweredStep

\* The heart of the argument: an aim that is answered in time for AIMING belongs
\* to an incident without a latch, because its own timeout is still to come.
LEMMA FiresUnlatched ==
  ASSUME IInv, NEW w \in internal, AimAnswered(w), Awaited(w)
  PROVE  /\ w.command.incident \in DOMAIN incidents
         /\ ~incidents[w.command.incident].latched
         /\ cooldown = None
<1>1. /\ Take(w) /\ w.command \in Command /\ w.command # None
      /\ w.command.name = "GOTO_PRESET" /\ w.command.incident # None /\ state = "AIMING"
  BY AnswerFacts DEF AimAnswered, Awaited
<1>2. cooldown = None
  BY <1>1 DEF IInv, CooldownHolds
<1>3. PICK v \in internal : IsTimeout(v) /\ v.command = w.command
  BY <1>1 DEF IInv, WorkInv
<1>4. w.command.incident \in DOMAIN incidents
  BY <1>1 DEF IInv, WorkInv
<1>5. ~incidents[w.command.incident].latched
  BY <1>1, <1>2, <1>3 DEF IInv, LateAimsInv
<1> QED
  BY <1>2, <1>4, <1>5

LEMMA FireStep ==
  ASSUME IInv, NEW w \in internal, NEW response \in Responses, NEW delay \in Delays,
         Fire(w, response, delay)
  PROVE  IInv'
<1> DEFINE i == w.command.incident
           command == PolicyCommand("BURST", i)
           queue == Without(w.command)
           shot == [incident |-> i, open |-> incidents[i].open]
<1>1. /\ Acknowledged(w, "GOTO_PRESET") /\ Take(w) /\ AimAnswered(w) /\ Awaited(w)
      /\ state' = "BURST" /\ nextId' = nextId + 1
      /\ Dispatch(command, response, delay, queue)
      /\ incidents' = [incidents EXCEPT ![i].latched = TRUE]
      /\ cooldown' = now + CooldownTime
      /\ bursts' = Append(bursts, shot)
      /\ UNCHANGED <<armed, persistence, last, health>>
  BY DEF Fire, AimAnswered, Acknowledged, Allocate, Latched
<1>2. i \in DOMAIN incidents /\ ~incidents[i].latched /\ cooldown = None
  BY <1>1, FiresUnlatched
<1>3. /\ now' = now /\ now \in Nat /\ ScalarsOK /\ ModeOK /\ inputs' = 0
      /\ disturbances' = disturbances /\ Remaining(queue) /\ WellFormed(queue)
  BY <1>1, TakeFacts
<1>4. incidents \in Seq(Incident)
  BY DEF IInv, TypeOK
<1>5. i \in Nat /\ incidents[i] \in Incident /\ i # None
  BY <1>2, <1>4, Indices, Times
<1>6. /\ DOMAIN incidents' = DOMAIN incidents /\ incidents' \in Seq(Incident)
      /\ \A j \in DOMAIN incidents : incidents'[j].latched = (j = i \/ incidents[j].latched)
  <2> DEFINE t == [incidents EXCEPT ![i].latched = TRUE]
  <2>1. DOMAIN t = DOMAIN incidents /\ t = [j \in DOMAIN incidents |-> t[j]]
    OBVIOUS
  <2>2. \A j \in DOMAIN incidents :
          t[j] \in Incident /\ t[j].latched = (j = i \/ incidents[j].latched)
    <3> SUFFICES ASSUME NEW j \in DOMAIN incidents
                 PROVE  t[j] \in Incident /\ t[j].latched = (j = i \/ incidents[j].latched)
      OBVIOUS
    <3>1. incidents[j] \in Incident /\ incidents[j].latched \in BOOLEAN
      <4>1. incidents[j] \in Incident
        BY <1>4, Indices
      <4> QED
        BY <4>1 DEF Incident
    <3>2. CASE j = i
      <4>1. t[j] = [incidents[j] EXCEPT !.latched = TRUE]
        BY <3>2
      <4> QED
        BY <3>1, <3>2, <4>1 DEF Incident
    <3>3. CASE j # i
      <4>1. t[j] = incidents[j]
        BY <3>3
      <4> QED
        BY <3>1, <3>3, <4>1
    <3> QED
      BY <3>2, <3>3
  <2>3. t \in Seq(Incident)
    BY <1>4, <2>1, <2>2, Relabelled
  <2> QED
    BY <1>1, <2>1, <2>2, <2>3
<1>7. /\ command \in Command /\ command.name = "BURST" /\ command.incident = i
      /\ command.id = nextId
  BY <1>3, <1>5, PolicyCommandFacts DEF ScalarsOK
<1> HIDE DEF command
<1>8. internal' = queue \cup Scheduled(command, response, delay)
  BY <1>1 DEF Dispatch
<1>9. WorkInv'
  BY <1>2, <1>3, <1>6, <1>7, <1>8, WorkAdded
<1>10. LateAimsInv'
  <2> SUFFICES ASSUME NEW v \in internal',
                      IsTimeout(v), v.command.name = "GOTO_PRESET",
                      v.command.incident # None
               PROVE  cooldown' # None /\ v.due < cooldown'
    BY DEF LateAimsInv, IsTimeout
  <2>1. now + CooldownTime \in Nat /\ now + AckTimeout < now + CooldownTime
        /\ now + AckTimeout \in Nat
    BY <1>3, Times
  <2>2. v \in queue
    BY <1>3, <1>7, <1>8, ScheduledFacts
  <2>3. v.command # None /\ v.due \in Nat
    BY <1>3, <2>2, TimeoutsHaveCommands DEF WellFormed, IsWork
  <2>4. v \in internal
    BY <1>3, <2>2, <2>3 DEF Remaining
  <2>5. v.due <= now + AckTimeout
    BY <2>3, <2>4 DEF IInv, WorkInv
  <2> QED
    BY <1>1, <2>1, <2>3, <2>5, Times
<1>11. /\ LatchInv' /\ OneBurstPerIncident'
       /\ bursts' \in Seq([incident : DOMAIN incidents', open : BOOLEAN])
  <2> DEFINE R == [incident : DOMAIN incidents, open : BOOLEAN]
  <2>1. bursts \in Seq(R) /\ shot \in R
    BY <1>2, <1>5 DEF IInv, TypeOK, Incident
  <2>2. /\ DOMAIN bursts = 1 .. Len(bursts) /\ Len(bursts) \in Nat
        /\ \A b \in DOMAIN bursts : bursts[b] \in R
    BY <2>1, Indices
  <2>3. shot.incident = i
    OBVIOUS
  <2> HIDE DEF R, shot
  <2>4. /\ bursts' \in Seq(R) /\ Len(bursts') = Len(bursts) + 1
        /\ \A b \in 1 .. Len(bursts) : bursts'[b] = bursts[b]
        /\ bursts'[Len(bursts) + 1] = shot
    BY <1>1, <2>1, AppendProperties
  <2>5. DOMAIN bursts' = 1 .. Len(bursts) + 1
    BY <2>4, LenProperties
  <2>6. \A b \in DOMAIN bursts :
          /\ bursts[b].incident \in DOMAIN incidents
          /\ incidents[bursts[b].incident].latched
    BY <2>2 DEF R, IInv, LatchInv
  <2>7. \A b \in DOMAIN bursts : bursts[b].incident # i
    BY <1>2, <2>6
  <2>8. \A b \in DOMAIN bursts' :
          \/ b \in DOMAIN bursts /\ bursts'[b] = bursts[b]
          \/ b = Len(bursts) + 1 /\ bursts'[b] = shot
    BY <2>2, <2>4, <2>5
  <2>9. LatchInv'
    BY <1>2, <1>6, <2>3, <2>6, <2>8 DEF LatchInv
  <2>10. OneBurstPerIncident'
    BY <2>3, <2>7, <2>8 DEF OneBurstPerIncident, IInv
  <2> QED
    BY <1>6, <2>4, <2>9, <2>10 DEF R
<1>12. ScalarsOK'
  <2>1. ledger' = ledger \cup {nextId}
    BY <1>1, <1>7 DEF Dispatch
  <2>2. now + CooldownTime \in Nat
    BY <1>3, Times
  <2> QED
    BY <1>1, <1>3, <2>1, <2>2 DEF ScalarsOK, health, States
<1>13. TypeOK'
  <2>1. \A v \in internal' : IsWork(v) /\ v.due >= now'
    BY <1>3, <1>7, <1>8, ScheduledFacts DEF WellFormed
  <2> QED
    BY <1>6, <1>11, <1>12, <2>1 DEF TypeOK, ScalarsOK, IsWork, Incident
<1>14. WaitsForAnAnswer'
  <2>1. Pending("BURST")'
    BY <1>1, <1>3, <1>5, <1>7, DispatchPends
  <2> QED
    BY <1>1, <2>1 DEF WaitsForAnAnswer
<1>15. CooldownHolds'
  BY <1>1, <1>3, Times DEF CooldownHolds
<1>16. TimerInv'
  BY <1>1, <1>3, <1>8, AnswerFacts DEF ModeOK, TimerInv, health, Without
<1>17. AimInv'
  BY <1>1 DEF AimInv
<1> QED
  BY <1>9, <1>10, <1>11, <1>13, <1>14, <1>15, <1>16, <1>17 DEF IInv

-----------------------------------------------------------------------------
\* Controls, health, restarts, injected commands and time.

LEMMA ArmStep ==
  ASSUME IInv, Arm
  PROVE  IInv'
<1>1. /\ Input /\ state = "DISARMED" /\ camera = "CONNECTED"
      /\ armed' = TRUE /\ state' = "MONITORING"
      /\ UNCHANGED <<persistence, incidents, cooldown, last, health, transport, bursts>>
  BY DEF Arm
<1>2. ScalarsOK /\ now' = now /\ inputs' \in Nat /\ disturbances' \in Nat
  BY <1>1, Scalars, Counted
<1>3. KeepsLatches(incidents')
  BY <1>1, SameIncidents
<1>4. CooldownHolds' /\ KeepsCooldown
  BY <1>1, <1>3, KeptCooldownHolds
<1>5. ScalarsOK'
  BY <1>1, <1>2 DEF ScalarsOK, States, health, transport
<1>6. AimInv' /\ TimerInv' /\ WaitsForAnAnswer'
  BY <1>1 DEF AimInv, TimerInv, WaitsForAnAnswer, health
<1>7. Remaining(internal') /\ WellFormed(internal')
  BY <1>1, AllRemains DEF transport
<1> QED
  BY <1>1, <1>2, <1>3, <1>4, <1>5, <1>6, <1>7, QuietStep DEF ModeOK

\* The end of an epoch closes every incident and gives up every command.
LEMMA EndEpochStep ==
  ASSUME IInv, Disturbance, EndEpoch,
         WellFormed(internal'), \A w \in internal' : w.command = None,
         last' \in Observation \cup {None}, disconnectedAt' \in Nat \cup {None},
         UNCHANGED <<camera, device, nextId, ledger, bursts>>
  PROVE  IInv'
<1>1. ScalarsOK /\ now' = now /\ inputs' \in Nat /\ disturbances' \in Nat
  BY Scalars, Counted
<1>2. /\ armed' = FALSE /\ state' = "DISARMED" /\ persistence' = NoEvidence
      /\ cooldown' = None
      /\ incidents' = [i \in DOMAIN incidents |-> [incidents[i] EXCEPT !.open = FALSE]]
  BY DEF EndEpoch
<1>3. ASSUME NEW i \in DOMAIN incidents
      PROVE  /\ incidents'[i] \in Incident /\ ~incidents'[i].open
             /\ incidents'[i].latched = incidents[i].latched
  <2>1. incidents \in Seq(Incident)
    BY DEF IInv, TypeOK
  <2>2. incidents[i] \in Incident
    BY <1>3, <2>1, Indices
  <2> QED
    BY <1>2, <1>3, <2>2 DEF Incident
<1>4. DOMAIN incidents' = DOMAIN incidents
  BY <1>2
<1>5. incidents' \in Seq(Incident)
  <2>1. incidents \in Seq(Incident)
    BY DEF IInv, TypeOK
  <2>2. incidents' = [i \in DOMAIN incidents |-> incidents'[i]]
    BY <1>2
  <2> QED
    BY <1>3, <1>4, <2>1, <2>2, Relabelled
<1>6. KeepsLatches(incidents')
  BY <1>3, <1>4, <1>5 DEF KeepsLatches
<1>7. /\ LatchInv' /\ OneBurstPerIncident'
      /\ bursts' \in Seq([incident : DOMAIN incidents', open : BOOLEAN])
  BY <1>6, LatchesKept
<1>8. ScalarsOK'
  BY <1>1, <1>2 DEF ScalarsOK, States, NoEvidence
<1>9. \A w \in internal' : IsWork(w) /\ w.due >= now'
  BY <1>1 DEF WellFormed
<1>10. TypeOK'
  BY <1>5, <1>7, <1>8, <1>9 DEF TypeOK, ScalarsOK, IsWork, Incident
<1>11. WorkInv'
  BY DEF WorkInv
<1>12. LateAimsInv'
  <2>1. \A w \in internal' : ~IsTimeout(w)
    BY TimeoutsHaveCommands DEF WellFormed
  <2> QED
    BY <2>1 DEF LateAimsInv, IsTimeout
<1>13. AimInv' /\ TimerInv' /\ WaitsForAnAnswer'
  BY <1>2 DEF AimInv, TimerInv, WaitsForAnAnswer
<1>14. CooldownHolds'
  BY <1>2, <1>3, <1>4 DEF CooldownHolds, Open
<1> QED
  BY <1>7, <1>10, <1>11, <1>12, <1>13, <1>14 DEF IInv

LEMMA DisarmStep ==
  ASSUME IInv, Disarm
  PROVE  IInv'
<1>1. /\ Disturbance /\ EndEpoch /\ internal' = {}
      /\ UNCHANGED <<last, health, nextId, ledger, bursts>>
  BY DEF Disarm
<1>2. WellFormed(internal') /\ \A w \in internal' : w.command = None
  BY <1>1 DEF WellFormed
<1> QED
  BY <1>1, <1>2, Scalars, EndEpochStep DEF ScalarsOK, health

LEMMA RestartStep ==
  ASSUME IInv, Restart
  PROVE  IInv'
<1>1. /\ Disturbance /\ EndEpoch /\ last' = None
      /\ UNCHANGED <<camera, device, nextId, ledger, bursts>>
  BY DEF Restart
<1>2. \/ internal' = {CameraTimer} /\ disconnectedAt' = now
      \/ internal' = {} /\ disconnectedAt' = disconnectedAt
  BY DEF Restart
<1>3. WellFormed(internal') /\ \A w \in internal' : w.command = None
  BY <1>2, TimerRemains DEF WellFormed
<1>4. disconnectedAt' \in Nat \cup {None}
  BY <1>2, Scalars DEF ScalarsOK
<1> QED
  BY <1>1, <1>3, <1>4, EndEpochStep

LEMMA EStopStep ==
  ASSUME IInv, EStop
  PROVE  IInv'
<1>1. /\ Disturbance /\ Fault
      /\ UNCHANGED <<incidents, cooldown, last, health, transport, bursts>>
  BY DEF EStop
<1>2. KeepsLatches(incidents') /\ Remaining(internal') /\ WellFormed(internal')
  BY <1>1, SameIncidents, AllRemains DEF transport
<1> QED
  BY <1>1, <1>2, Counted, Scalars, FaultStep DEF ScalarsOK, health, transport

LEMMA CameraErrsStep ==
  ASSUME IInv, CameraErrs
  PROVE  IInv'
<1>1. /\ Disturbance /\ Fault /\ camera' = "ERROR" /\ internal' = Without(None)
      /\ UNCHANGED <<incidents, cooldown, last, disconnectedAt, device, nextId, ledger,
                     bursts>>
  BY DEF CameraErrs
<1>2. KeepsLatches(incidents') /\ Remaining(internal') /\ WellFormed(internal')
  BY <1>1, SameIncidents, WithoutRemains
<1> QED
  BY <1>1, <1>2, Counted, Scalars, FaultStep DEF ScalarsOK, CameraStatus

LEMMA DeviceFaultsStep ==
  ASSUME IInv, DeviceFaults
  PROVE  IInv'
<1>1. /\ Disturbance /\ Fault /\ device' = "FAULT"
      /\ UNCHANGED <<incidents, cooldown, last, camera, disconnectedAt, transport, bursts>>
  BY DEF DeviceFaults
<1>2. KeepsLatches(incidents') /\ Remaining(internal') /\ WellFormed(internal')
  BY <1>1, SameIncidents, AllRemains DEF transport
<1> QED
  BY <1>1, <1>2, Counted, Scalars, FaultStep DEF ScalarsOK, DeviceStatus, transport

\* A health input that leaves the commands alone and at most breaks a confirmation.
LEMMA HealthStep ==
  ASSUME IInv, Disturbance,
         BreakConfirmation \/ UNCHANGED <<state, persistence>>,
         UNCHANGED <<armed, incidents, cooldown, last, nextId, ledger, bursts>>,
         camera' \in CameraStatus, device' \in DeviceStatus,
         disconnectedAt' \in Nat \cup {None},
         Remaining(internal'), WellFormed(internal'),
         \A w \in internal : w.command # None => w \in internal',
         TimerInv'
  PROVE  IInv'
<1>1. ScalarsOK /\ ModeOK /\ now' = now /\ inputs' \in Nat /\ disturbances' \in Nat
  BY Scalars, Counted
<1>2. KeepsLatches(incidents') /\ KeepsCooldown
  BY SameIncidents DEF KeepsCooldown
<1>3. /\ state' \in States /\ (state' = "AIMING" => state = "AIMING")
      /\ (state' = "BURST" => state = "BURST")
      /\ persistence' = NoEvidence \/ persistence' = persistence
  BY <1>1, BreakFacts DEF ScalarsOK
<1>4. CooldownHolds'
  BY <1>2, BreakFacts, KeptCooldownHolds
<1>5. ScalarsOK'
  BY <1>1, <1>3 DEF ScalarsOK, NoEvidence
<1>6. AimInv'
  BY <1>1, <1>3 DEF ModeOK, AimInv
<1>7. WaitsForAnAnswer'
  <2>1. ASSUME NEW name \in {"GOTO_PRESET", "BURST"}, Pending(name)
        PROVE  Pending(name)'
    <3>1. PICK w \in internal :
            w.result = "TIMEOUT" /\ w.command.name = name /\ w.command.incident # None
      BY <2>1 DEF Pending
    <3>2. IsWork(w)
      BY DEF IInv, TypeOK
    <3>3. w.command # None
      BY <3>1, <3>2, TimeoutsHaveCommands DEF IsTimeout
    <3> QED
      BY <3>1, <3>3 DEF Pending
  <2> QED
    BY <1>1, <1>3, <2>1 DEF ModeOK, WaitsForAnAnswer
<1> QED
  BY <1>1, <1>2, <1>4, <1>5, <1>6, <1>7, QuietStep DEF ModeOK

LEMMA CameraConnectsStep ==
  ASSUME IInv, CameraConnects
  PROVE  IInv'
<1>1. /\ Disturbance /\ camera' = "CONNECTED" /\ disconnectedAt' = None
      /\ internal' = Without(None)
      /\ UNCHANGED <<policy, device, nextId, ledger, bursts>>
  BY DEF CameraConnects
<1>2. Remaining(internal') /\ WellFormed(internal')
  BY <1>1, WithoutRemains
<1>3. TimerInv'
  BY <1>1 DEF TimerInv
<1>4. \A w \in internal : w.command # None => w \in internal'
  BY <1>1 DEF Without
<1> QED
  BY <1>1, <1>2, <1>3, <1>4, Scalars, HealthStep DEF ScalarsOK, CameraStatus, policy

LEMMA CameraDisconnectsStep ==
  ASSUME IInv, CameraDisconnects
  PROVE  IInv'
<1>1. /\ Disturbance /\ BreakConfirmation
      /\ camera' = "DISCONNECTED" /\ disconnectedAt' = now
      /\ internal' = Without(None) \cup {CameraTimer}
      /\ UNCHANGED <<armed, incidents, cooldown, last, device, nextId, ledger, bursts>>
  BY DEF CameraDisconnects
<1>2. Remaining(internal') /\ WellFormed(internal')
  BY <1>1, TimerRemains
<1>3. TimerInv'
  BY <1>1, TimerRemains DEF TimerInv
<1>4. \A w \in internal : w.command # None => w \in internal'
  BY <1>1 DEF Without
<1> QED
  BY <1>1, <1>2, <1>3, <1>4, Scalars, HealthStep DEF ScalarsOK, CameraStatus

LEMMA DeviceReadyStep ==
  ASSUME IInv, DeviceReady
  PROVE  IInv'
<1>1. /\ Disturbance /\ device' = "READY"
      /\ UNCHANGED <<policy, camera, disconnectedAt, transport, bursts>>
  BY DEF DeviceReady
<1>2. Remaining(internal') /\ WellFormed(internal') /\ internal' = internal
  BY <1>1, AllRemains DEF transport
<1>3. TimerInv'
  BY <1>1, <1>2, Scalars DEF ModeOK, TimerInv, policy
<1> QED
  BY <1>1, <1>2, <1>3, Scalars, HealthStep DEF ScalarsOK, DeviceStatus, policy, transport

LEMMA DeviceNotReadyStep ==
  ASSUME IInv, DeviceNotReady
  PROVE  IInv'
<1>1. /\ Disturbance /\ BreakConfirmation /\ device' = "NOT_READY"
      /\ UNCHANGED <<armed, incidents, cooldown, last, camera, disconnectedAt, transport,
                     bursts>>
  BY DEF DeviceNotReady
<1>2. Remaining(internal') /\ WellFormed(internal') /\ internal' = internal
  BY <1>1, AllRemains DEF transport
<1>3. TimerInv'
  BY <1>1, <1>2, Scalars DEF ModeOK, TimerInv
<1> QED
  BY <1>1, <1>2, <1>3, Scalars, HealthStep DEF ScalarsOK, DeviceStatus, transport

LEMMA InjectStep ==
  ASSUME IInv, NEW name \in InjectedNames, NEW id \in InjectedIds,
         NEW response \in Responses, NEW delay \in Delays,
         Inject(name, id, response, delay)
  PROVE  IInv'
<1> DEFINE command == [id |-> id, name |-> name, incident |-> None]
<1>1. /\ Disturbance /\ Dispatch(command, response, delay, internal)
      /\ UNCHANGED <<policy, health, nextId, bursts>>
  BY DEF Inject
<1>2. command \in Command /\ command.incident = None /\ command.id = id /\ id \in Nat
  BY Times DEF Command
<1> HIDE DEF command
<1>3. ScalarsOK /\ ModeOK /\ now' = now /\ inputs' \in Nat /\ disturbances' \in Nat
  BY <1>1, Scalars, Counted
<1>4. KeepsLatches(incidents') /\ KeepsCooldown
  BY <1>1, SameIncidents DEF policy, KeepsCooldown
<1>5. /\ ledger' = ledger \cup {id}
      /\ internal' = internal \cup Scheduled(command, response, delay)
  BY <1>1, <1>2 DEF Dispatch
<1>6. ScalarsOK'
  BY <1>1, <1>2, <1>3, <1>5 DEF ScalarsOK, policy, health
<1>7. CooldownHolds'
  BY <1>1, <1>4, KeptCooldownHolds DEF policy
<1>8. AimInv' /\ TimerInv' /\ WaitsForAnAnswer'
  BY <1>1, <1>3, <1>5
     DEF ModeOK, AimInv, TimerInv, WaitsForAnAnswer, Pending, policy, health
<1>9. Remaining(internal) /\ WellFormed(internal)
  BY AllRemains
<1> QED
  BY <1>1, <1>2, <1>3, <1>4, <1>6, <1>7, <1>8, <1>9, DispatchStep DEF ModeOK

LEMMA TickStep ==
  ASSUME IInv, Tick
  PROVE  IInv'
<1>1. /\ Input /\ state' = StateOnceSettled /\ cooldown' = CooldownOnceSettled
      /\ UNCHANGED <<armed, persistence, incidents, last, health, transport, bursts>>
  BY DEF Tick
<1>2. KeepsLatches(incidents') /\ ScalarsOK /\ ModeOK
  BY <1>1, SameIncidents, Scalars
<1>3. CooldownHolds' /\ KeepsCooldown
  BY <1>1, <1>2, KeptCooldownHolds
<1>4. /\ state' \in States /\ cooldown' \in Nat \cup {None}
      /\ state' \in {"AIMING", "BURST"} => state' = state
  BY <1>1, SettledFacts
<1>5. AimInv'
  BY <1>1, <1>2, <1>4 DEF ModeOK, AimInv
<1> QED
  BY <1>1, <1>2, <1>3, <1>4, <1>5, ObservationStep DEF ScalarsOK

\* Time passes no deadline, so a late aim still times out before its cooldown ends.
LEMMA AdvanceStep ==
  ASSUME IInv, Advance
  PROVE  IInv'
<1>1. /\ \A w \in internal : w.due > now
      /\ now' = now + 1 /\ inputs' = MaxInputs
      /\ UNCHANGED <<disturbances, policy, health, transport, bursts>>
  BY DEF Advance
<1>2. /\ UNCHANGED <<state, armed, persistence, incidents, cooldown, last>>
      /\ UNCHANGED <<camera, disconnectedAt, device, nextId, ledger, internal>>
  BY <1>1 DEF policy, health, transport
<1>3. now \in Nat /\ now + 1 \in Nat /\ AckTimeout \in Nat /\ MaxInputs \in Nat
  BY Times, ContractAssumption DEF IInv, TypeOK
<1>4. \A w \in internal : IsWork(w) /\ w.due >= now + 1
  BY <1>1, <1>3 DEF IInv, TypeOK, IsWork
<1>5. TypeOK'
  <2>1. \A w \in internal' : IsWork(w) /\ w.due >= now'
    BY <1>1, <1>2, <1>4
  <2> QED
    BY <1>1, <1>2, <1>3, <2>1 DEF IInv, TypeOK, IsWork, Incident
<1>6. WorkInv'
  <2>1. \A w \in internal : w.due <= now + AckTimeout => w.due <= now' + AckTimeout
    BY <1>1, <1>3, <1>4 DEF IsWork
  <2> QED
    BY <1>2, <2>1 DEF IInv, WorkInv, IsTimeout
<1>7. LateAimsInv' /\ LatchInv' /\ OneBurstPerIncident'
  BY <1>1, <1>2 DEF IInv, LateAimsInv, LatchInv, OneBurstPerIncident, IsTimeout
<1>8. AimInv' /\ TimerInv' /\ CooldownHolds' /\ WaitsForAnAnswer'
  BY <1>2 DEF IInv, AimInv, TimerInv, CooldownHolds, WaitsForAnAnswer, Pending, Open
<1> QED
  BY <1>5, <1>6, <1>7, <1>8 DEF IInv

-----------------------------------------------------------------------------
\* The theorems.

\* The invariant holds of a new run.
LEMMA InitIInv == Init => IInv
<1> SUFFICES ASSUME Init PROVE IInv
  OBVIOUS
<1>1. /\ now = 0 /\ inputs = MaxInputs /\ disturbances = 0
      /\ state = "DISARMED" /\ armed = FALSE
      /\ camera \in CameraStatus /\ device \in DeviceStatus
      /\ persistence = NoEvidence /\ incidents = <<>> /\ cooldown = None /\ last = None
      /\ nextId = 1 /\ ledger = {} /\ bursts = <<>>
  BY DEF Init
<1>2. /\ disconnectedAt \in Nat \cup {None}
      /\ \A w \in internal : IsWork(w) /\ w.due >= now /\ w.command = None
  BY <1>1, Times DEF Init, IsWork
<1>3. TypeOK
  <2>1. incidents \in Seq(Incident) /\ bursts \in Seq([incident : DOMAIN incidents, open : BOOLEAN])
    BY <1>1, EmptySeq
  <2>2. MaxInputs \in Nat
    BY ContractAssumption
  <2> QED
    BY <1>1, <1>2, <2>1, <2>2 DEF TypeOK, States, NoEvidence
<1>4. WorkInv
  BY <1>2 DEF WorkInv
<1>5. LateAimsInv
  BY <1>2, TimeoutsHaveCommands DEF LateAimsInv, IsTimeout
<1>6. DOMAIN incidents = {} /\ DOMAIN bursts = {}
  BY <1>1
<1>7. LatchInv /\ AimInv /\ TimerInv /\ WaitsForAnAnswer /\ OneBurstPerIncident
  BY <1>1, <1>6 DEF LatchInv, AimInv, TimerInv, WaitsForAnAnswer, OneBurstPerIncident
<1>8. CooldownHolds
  BY <1>1, <1>6 DEF CooldownHolds, Open
<1> QED
  BY <1>3, <1>4, <1>5, <1>7, <1>8 DEF IInv

LEMMA ObserveStep ==
  ASSUME IInv, Observe
  PROVE  IInv'
<1>1. CASE ObservationIgnored
  BY <1>1, IgnoredStep
<1>2. ASSUME NEW o \in Seen,
             \/ ObservationWithheld(o) \/ ObservationBlocked(o) \/ ObservationHarmless(o)
             \/ HarmObserved(o) \/ AimCollides(o)
      PROVE  IInv'
  BY <1>2, WithheldStep, BlockedStep, HarmlessStep, HarmObservedStep, AimCollidesStep
<1>3. ASSUME NEW o \in Seen, NEW response \in Responses, NEW delay \in Delays,
             HarmConfirmed(o, response, delay)
      PROVE  IInv'
  BY <1>3, HarmConfirmedStep
<1> QED
  BY <1>1, <1>2, <1>3 DEF Observe

LEMMA DoWorkStep ==
  ASSUME IInv, DoWork
  PROVE  IInv'
<1>1. ASSUME NEW w \in internal,
             \/ CameraTimesOut(w) \/ CommandFails(w) \/ BurstAcknowledged(w)
             \/ AimIgnored(w) \/ AimAbandoned(w) \/ FireCollides(w)
      PROVE  IInv'
  BY <1>1, CameraTimesOutStep, CommandFailsStep, BurstAcknowledgedStep, AimIgnoredStep,
     AimAbandonedStep, FireCollidesStep
<1>2. ASSUME NEW w \in internal, NEW response \in Responses, NEW delay \in Delays,
             Fire(w, response, delay)
      PROVE  IInv'
  BY <1>2, FireStep
<1> QED
  BY <1>1, <1>2 DEF DoWork

LEMMA DisturbStep ==
  ASSUME IInv, Disturb
  PROVE  IInv'
<1>1. ASSUME NEW name \in InjectedNames, NEW id \in InjectedIds,
             NEW response \in Responses, NEW delay \in Delays,
             Inject(name, id, response, delay)
      PROVE  IInv'
  BY <1>1, InjectStep
<1> QED
  BY <1>1, DisarmStep, EStopStep, RestartStep, CameraConnectsStep, CameraDisconnectsStep,
     CameraErrsStep, DeviceReadyStep, DeviceNotReadyStep, DeviceFaultsStep
     DEF Disturb

LEMMA StutterStep ==
  ASSUME IInv, UNCHANGED vars
  PROVE  IInv'
<1>1. /\ UNCHANGED <<now, inputs, disturbances, bursts>>
      /\ UNCHANGED <<state, armed, persistence, incidents, cooldown, last>>
      /\ UNCHANGED <<camera, disconnectedAt, device, nextId, ledger, internal>>
  BY DEF vars, clock, policy, health, transport
<1>2. KeepsLatches(incidents') /\ KeepsCooldown
  BY <1>1, SameIncidents DEF KeepsCooldown
<1>3. Remaining(internal') /\ WellFormed(internal')
  BY <1>1, AllRemains
<1>4. ScalarsOK' /\ ModeOK'
  BY <1>1, Scalars
     DEF ScalarsOK, ModeOK, AimInv, TimerInv, CooldownHolds, WaitsForAnAnswer, Pending, Open
<1> QED
  BY <1>1, <1>2, <1>3, <1>4, QuietStep

\* Every step keeps the invariant.
LEMMA StepIInv == IInv /\ [Next]_vars => IInv'
  BY ObserveStep, DoWorkStep, DisturbStep, ArmStep, TickStep, AdvanceStep, StutterStep
     DEF Next

LEMMA AlwaysIInv == Spec => []IInv
  BY InitIInv, StepIInv, PTL DEF Spec

\* Only Fire adds to the bursts.
LEMMA OnlyFireBursts ==
  ASSUME IInv, [Next]_vars, bursts' # bursts
  PROVE  \E w \in internal, response \in Responses, delay \in Delays :
           Fire(w, response, delay)
<1>1. ~Observe /\ ~Disturb /\ ~Arm /\ ~Tick /\ ~Advance /\ ~UNCHANGED vars
  BY DEF Observe, ObservationIgnored, ObservationWithheld, ObservationBlocked,
         ObservationHarmless, HarmObserved, AimCollides, HarmConfirmed,
         Disturb, Disarm, EStop, Restart, CameraConnects, CameraDisconnects, CameraErrs,
         DeviceReady, DeviceNotReady, DeviceFaults, Inject, Arm, Tick, Advance, vars
<1>2. DoWork
  BY <1>1 DEF Next
<1> QED
  BY <1>2 DEF DoWork, CameraTimesOut, CommandFails, BurstAcknowledged, AimIgnored,
              AimAbandoned, FireCollides

\* The policy fires only while it is armed and healthy, for the incident of the
\* last, fresh, qualifying frame.
LEMMA BurstStep ==
  ASSUME IInv, [Next]_vars, bursts' # bursts
  PROVE  /\ armed /\ camera = "CONNECTED" /\ device = "READY"
         /\ last.kind = "Harmful" /\ Fresh(last)
         /\ last.key = incidents[bursts'[Len(bursts')].incident].key
<1>1. PICK w \in internal, response \in Responses, delay \in Delays :
        Fire(w, response, delay)
  BY OnlyFireBursts
<1> DEFINE i == w.command.incident
           shot == [incident |-> i, open |-> incidents[i].open]
<1>2. Rechecks(i) /\ state = "AIMING" /\ bursts' = Append(bursts, shot)
      /\ AimAnswered(w) /\ Awaited(w)
  BY <1>1 DEF Fire, Awaited
<1>3. i \in DOMAIN incidents
  BY <1>2, FiresUnlatched
<1>4. incidents[i] \in Incident
  BY <1>3, Indices DEF IInv, TypeOK
<1>5. shot \in [incident : DOMAIN incidents, open : BOOLEAN] /\ shot.incident = i
  BY <1>3, <1>4 DEF Incident
<1>6. bursts \in Seq([incident : DOMAIN incidents, open : BOOLEAN])
  BY DEF IInv, TypeOK
<1> HIDE DEF shot
<1>7. bursts'[Len(bursts')] = shot
  BY <1>2, <1>5, <1>6, AppendProperties
<1>8. last.kind = "Harmful"
  BY <1>2 DEF IInv, AimInv
<1> QED
  BY <1>2, <1>5, <1>7, <1>8 DEF Rechecks

\* Every run keeps its types, and no work is left behind its time.
THEOREM SimulatorTypeCorrect == Spec => []TypeOK
  BY AlwaysIInv, PTL DEF IInv

\* An incident is fired on once at most, whatever answers come late.
THEOREM OneBurstPerIncidentHolds == Spec => []OneBurstPerIncident
  BY AlwaysIInv, PTL DEF IInv

\* A cooldown is left neither by time alone nor by the incident's end alone.
THEOREM CooldownAlwaysHolds == Spec => []CooldownHolds
  BY AlwaysIInv, PTL DEF IInv

\* While the policy aims or fires, the timeout of its own command is to come.
THEOREM AlwaysWaitsForAnAnswer == Spec => []WaitsForAnAnswer
  BY AlwaysIInv, PTL DEF IInv

\* An armed policy does not outlive CameraTimeout without its camera.
THEOREM CameraAlwaysFaultsInTime == Spec => []CameraFaultsInTime
<1>1. IInv => CameraFaultsInTime
  <2> SUFFICES ASSUME IInv, armed, camera = "DISCONNECTED"
               PROVE  now <= disconnectedAt + CameraTimeout
    BY DEF CameraFaultsInTime
  <2>1. PICK w \in internal : w.due = disconnectedAt + CameraTimeout
    BY DEF IInv, TimerInv
  <2>2. w.due >= now /\ w.due \in Nat /\ now \in Nat
    BY DEF IInv, TypeOK, IsWork
  <2> QED
    BY <2>1, <2>2
<1> QED
  BY <1>1, AlwaysIInv, PTL

\* Every burst is warranted by the last frame and the state of the system.
THEOREM BurstAlwaysWarranted == Spec => BurstIsWarranted
<1>1. IInv /\ [Next]_vars =>
        [bursts' # bursts =>
           /\ armed /\ camera = "CONNECTED" /\ device = "READY"
           /\ last.kind = "Harmful" /\ Fresh(last)
           /\ last.key = incidents[bursts'[Len(bursts')].incident].key]_vars
  BY BurstStep
<1> QED
  BY <1>1, AlwaysIInv, PTL DEF Spec, BurstIsWarranted
=============================================================================
