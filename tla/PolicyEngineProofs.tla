-------------------------- MODULE PolicyEngineProofs --------------------------
(***************************************************************************)
(* Proofs about PolicyEngine, for every configuration, environment and     *)
(* device it admits.  The lemmas follow the code's helpers: what a command *)
(* does to the link, what a step's inputs do to the latch, what entering   *)
(* FAULT does; the theorems then go through step()'s branches.             *)
(***************************************************************************)
EXTENDS PolicyObserver, TLAPS
-----------------------------------------------------------------------------
(* Commands *)

\* Every answer, scripted, garbled or the device's own, is an action status
\* and leaves a status.
LEMMA AnswerType ==
  ASSUME NEW l \in Link, NEW command \in Command, NEW reply \in DeviceReplies
  PROVE  /\ Result(l, command, reply) \in ActionStatuses
         /\ Effect(l, command, reply) \in ActuatorStatus
<1>1. reply \in Replies \cup {"Garbled"}
  BY EnvironmentAssumption
<1>2. l.status \in ActuatorStatus
  BY DEF Link
<1>3. DefaultResult(l.status, command) \in ActionStatuses
  BY DEF DefaultResult, ActionStatuses
<1>4. Result(l, command, reply) \in ActionStatuses
  BY <1>1, <1>3 DEF Result, Outcome, Replies, ActionStatuses
<1>5. \A t : AcknowledgedEffect(l.status, t) \in ActuatorStatus
  BY <1>2 DEF AcknowledgedEffect, ActuatorStatus
<1>6. Effect(l, command, reply) \in ActuatorStatus
  BY <1>2, <1>5 DEF Effect, StatusAfter
<1> QED
  BY <1>4, <1>6

\* Executing a command keeps the link well typed.
LEMMA ExecuteType ==
  ASSUME NEW l \in Link, NEW command \in Command, NEW reply \in DeviceReplies
  PROVE  Execute(l, command, reply) \in Link
<1>1. CASE CanIssue(l, command.type)
  <2>1. ConsumedId(l).nextId \in CommandIds /\ ConsumedId(l).exhausted \in BOOLEAN
    <3>1. l.nextId \in CommandIds /\ l.exhausted \in BOOLEAN
      BY DEF Link
    <3>2. CASE l.nextId = MaxCommandId
      <4>1. ConsumedId(l) = [l EXCEPT !.exhausted = TRUE]
        BY <3>2 DEF ConsumedId
      <4> QED
        BY <3>1, <4>1 DEF Link
    <3>3. CASE l.nextId # MaxCommandId
      <4>1. ConsumedId(l) = [l EXCEPT !.nextId = @ + 1]
        BY <3>3 DEF ConsumedId
      <4>2. l.nextId + 1 \in CommandIds
        BY <3>1, <3>3, ConfigAssumption DEF CommandIds
      <4> QED
        BY <3>1, <4>1, <4>2 DEF Link
    <3> QED
      BY <3>2, <3>3
  <2>2. [command |-> command, result |-> Result(l, command, reply)]
          \in [command : Command, result : ActionStatuses]
    BY AnswerType
  <2>3. Effect(l, command, reply) \in ActuatorStatus
    BY AnswerType
  <2> QED
    BY <1>1, <2>1, <2>2, <2>3 DEF Execute, Link
<1>2. CASE ~CanIssue(l, command.type)
  BY <1>2 DEF Execute
<1> QED
  BY <1>1, <1>2

\* The commands the policy makes are well typed.
LEMMA CommandType ==
  ASSUME NEW l \in Link, NEW type \in ActionTypes, NEW target \in Presets \cup {None},
         NEW duration \in Nat, NEW at \in Time, NEW e \in EventLatch
  PROVE  MakeCommand(l, type, target, duration, at, e) \in Command
BY DEF MakeCommand, Command, Link, EventLatch

\* No BURST among the commands of this step so far.
BurstFree(l) == \A x \in l.issued : x.command.type # "Burst"

\* Only a BURST can end a link's being free of bursts.
LEMMA ExecuteBurstFree ==
  ASSUME NEW l, NEW command, NEW reply, BurstFree(l), command.type # "Burst"
  PROVE  BurstFree(Execute(l, command, reply))
BY DEF BurstFree, Execute

\* A step starts with no command sent.
LEMMA QuietType ==
  ASSUME link \in Link
  PROVE  /\ Quiet \in Link /\ BurstFree(Quiet)
         /\ Quiet.status = link.status /\ Quiet.nextId = link.nextId
         /\ Quiet.exhausted = link.exhausted /\ Quiet.issued = {}
BY DEF Quiet, Link, BurstFree

\* Committing a link types the actuator's record; without a BURST nothing is added.
LEMMA CommitEffect ==
  ASSUME NEW l \in Link, bursts \subseteq Command, Commit(l)
  PROVE  /\ link' = l /\ link' \in Link
         /\ bursts' \subseteq Command
         /\ BurstFree(l) => bursts' = bursts
BY DEF Commit, Link, BurstFree

\* The emergency stop of fault() keeps the link's type and adds no burst.
LEMMA SafeStopEffect ==
  ASSUME NEW l \in Link, NEW at \in Time, NEW e \in EventLatch, NEW reply \in DeviceReplies
  PROVE  /\ SafeStop(l, at, e, reply) \in Link
         /\ BurstFree(l) => BurstFree(SafeStop(l, at, e, reply))
<1>1. StopCommand(l, at, e) \in Command /\ StopCommand(l, at, e).type = "EmergencyStop"
  BY CommandType DEF StopCommand, ActionTypes, MakeCommand
<1> QED
  BY <1>1, ExecuteType, ExecuteBurstFree DEF SafeStop

\* Entering FAULT forgets every candidate and adds no burst of its own.
LEMMA EnterFaultEffect ==
  ASSUME NEW l \in Link, NEW at \in Time, NEW e \in EventLatch,
         bursts \subseteq Command, EnterFault(l, at, e)
  PROVE  /\ state' = "Fault"
         /\ link' \in Link /\ bursts' \subseteq Command
         /\ tracking' = None /\ confirmation' = None /\ aimAckedAt' = None
         /\ BurstFree(l) => bursts' = bursts
<1>1. PICK reply \in DeviceReplies : Commit(SafeStop(l, at, e, reply))
  BY DEF EnterFault
<1>2. /\ SafeStop(l, at, e, reply) \in Link
      /\ BurstFree(l) => BurstFree(SafeStop(l, at, e, reply))
  BY SafeStopEffect
<1> QED
  BY <1>1, <1>2, CommitEffect DEF EnterFault, ResetCandidates
-----------------------------------------------------------------------------
(* Inputs and the incident latch *)

\* A call brings a time, at most one frame, at most one snapshot, a request.
LEMMA CallType ==
  ASSUME NEW in \in Calls
  PROVE  /\ in.now \in Time
         /\ in.frame \in Perception \cup {None}
         /\ in.safety \in Safety \cup {None}
         /\ in.control \in ControlRequests
<1>1. PICK t \in Nows :
        in \in [now : {t}, frame : Frames(t) \cup Optional("frame"),
               safety : Snapshots(t) \cup Optional("safety"), control : Controls]
  BY DEF Calls
<1>2. t \in Time
  BY DEF Nows
<1>3. Frames(t) \subseteq Perception
  BY DEF Frames, Perception
<1>4. Snapshots(t) \subseteq Safety
  BY EnvironmentAssumption DEF Snapshots, Safety
<1>5. Optional("frame") \subseteq {None} /\ Optional("safety") \subseteq {None}
  BY DEF Optional
<1>6. Controls \subseteq ControlRequests
  BY EnvironmentAssumption
<1> QED
  BY <1>1, <1>2, <1>3, <1>4, <1>5, <1>6

\* Another clear frame keeps the latch typed and leaves its identity alone.
LEMMA ClearingType ==
  ASSUME NEW e \in EventLatch, NEW frame \in Perception
  PROVE  LET c == Clearing(e, frame)
         IN  /\ c \in EventLatch
             /\ c.id = e.id /\ c.active = e.active
             /\ c.burstAttempted = e.burstAttempted
<1>1. frame.observedAt \in Time /\ frame.id \in FrameIds
  BY DEF Perception
<1>3. CASE e.clearSince = None
  <2>1. Clearing(e, frame) = [e EXCEPT !.clearSince = frame.observedAt,
                                       !.clearFrames = 1, !.lastClearFrame = frame.id]
    BY <1>3 DEF Clearing
  <2> DEFINE t == frame.observedAt
             i == frame.id
             one == 1
  <2>2. t \in Time \cup {None} /\ i \in FrameIds /\ one \in Nat
    BY <1>1
  <2>3. Clearing(e, frame) = [e EXCEPT !.clearSince = t, !.clearFrames = one,
                                       !.lastClearFrame = i]
    BY <2>1
  <2> HIDE DEF t, i, one
  <2> QED
    BY <2>2, <2>3 DEF EventLatch
<1>4. CASE e.clearSince # None
  <2> DEFINE n == IF frame.id # e.lastClearFrame THEN e.clearFrames + 1 ELSE e.clearFrames
  <2>1. n \in Nat
    BY DEF EventLatch
  <2>2. Clearing(e, frame) = [e EXCEPT !.clearFrames = n, !.lastClearFrame = frame.id]
    BY <1>4 DEF Clearing
  <2> HIDE DEF n
  <2> QED
    BY <1>1, <2>1, <2>2 DEF EventLatch
<1> QED
  BY <1>3, <1>4

\* What one new frame may do to the latch: open the next event, close the open
\* one, or leave the event's identity and attempt as they were.
LEMMA LatchStep ==
  ASSUME event \in EventLatch, nextEventId \in Nat \ {0}, NEW frame \in Perception,
         frame.shape.cats \in Nat
  PROVE  LET e == EventAfter(event, frame)
         IN  /\ e \in EventLatch
             /\ e.active <=> \/ frame.shape.cats > 0
                             \/ event.active /\ ~EventCleared(event, frame)
             /\ IF frame.shape.cats > 0 /\ ~event.active
                THEN e.id = nextEventId /\ ~e.burstAttempted
                ELSE /\ e.id = event.id
                     /\ e.active => event.active /\ e.burstAttempted = event.burstAttempted
<1> DEFINE e == EventAfter(event, frame)
           c == Clearing(event, frame)
<1>1. c \in EventLatch /\ c.id = event.id /\ c.active = event.active
      /\ c.burstAttempted = event.burstAttempted
  BY ClearingType
<1>2. CASE frame.shape.cats > 0
  <2>1. e = [id             |-> IF event.active THEN event.id ELSE nextEventId,
             active         |-> TRUE,
             burstAttempted |-> event.active /\ event.burstAttempted,
             clearSince |-> None, clearFrames |-> 0, lastClearFrame |-> 0]
    BY <1>2 DEF EventAfter
  <2>2. event.id \in Nat /\ event.active \in BOOLEAN /\ event.burstAttempted \in BOOLEAN
    BY DEF EventLatch
  <2>3. 0 \in FrameIds
    BY ConfigAssumption DEF FrameIds
  <2>4. e \in EventLatch
    BY <2>1, <2>2, <2>3 DEF EventLatch
  <2> QED
    BY <1>2, <2>1, <2>2, <2>4
<1>3. CASE ~(frame.shape.cats > 0) /\ ~event.active
  BY <1>3 DEF EventAfter
<1>4. CASE ~(frame.shape.cats > 0) /\ event.active /\ EventCleared(event, frame)
  <2>1. e = [c EXCEPT !.active = FALSE, !.burstAttempted = FALSE,
                      !.clearSince = None, !.clearFrames = 0]
    BY <1>4 DEF EventAfter
  <2> HIDE DEF c, e
  <2>2. e \in EventLatch /\ ~e.active /\ e.id = c.id
    BY <1>1, <2>1 DEF EventLatch
  <2> QED
    BY <1>1, <1>4, <2>2 DEF e
<1>5. CASE ~(frame.shape.cats > 0) /\ event.active /\ ~EventCleared(event, frame)
  <2>1. e = c
    BY <1>5 DEF EventAfter
  <2> QED
    BY <1>1, <1>5, <2>1
<1> QED
  BY <1>2, <1>3, <1>4, <1>5

\* A shape counts cats.
LEMMA ShapeType ==
  ASSUME NEW frame \in Perception
  PROVE  /\ frame.id \in FrameIds /\ frame.observedAt \in Time
         /\ frame.shape \in FrameShape /\ frame.shape.cats \in Nat
BY EnvironmentAssumption DEF Perception, FrameShape

\* The values a step caches are typed, whatever the call brought.
LEMMA CachedType ==
  ASSUME InputsOK, NEW in \in Calls
  PROVE  /\ CachedSafety(in) \in Safety \cup {None}
         /\ CachedPerception(in) \in Perception \cup {None}
         /\ CachedEvent(in) \in EventLatch
         /\ FrameIsNew(in) => in.frame \in Perception /\ CachedPerception(in) = in.frame
<1>1. FrameIsNew(in) => in.frame \in Perception
  BY CallType DEF FrameIsNew
<1>2. CachedEvent(in) \in EventLatch
  BY <1>1, LatchStep, ShapeType DEF CachedEvent, InputsOK
<1> QED
  BY <1>1, <1>2, CallType DEF CachedSafety, CachedPerception, InputsOK

\* Whatever typed latch a step ends with, its inputs are typed afterwards.
LEMMA TakeInputsType ==
  ASSUME InputsOK, NEW in \in Calls, NEW e \in EventLatch, TakeInputs(in, e)
  PROVE  InputsOK'
<1>1. nextEventId' \in Nat \ {0}
  BY DEF TakeInputs, InputsOK
<1>2. in.now \in Time
  BY CallType
<1> QED
  BY <1>1, <1>2, CachedType DEF TakeInputs, InputsOK

\* The step leaves the latch alone or caches the call's inputs, and adds no burst.
Plain(in) ==
  /\ bursts' = bursts
  /\ \/ UNCHANGED latch
     \/ CacheInputs(in)

\* A BURST for the live event, issued now, enters the actuator's record.
AddsBurst(in) ==
  \E c \in Command :
    c.event = CachedEvent(in).id /\ c.issuedAt = in.now /\ bursts' = bursts \cup {c}

\* The step that fires: it latches the attempt, and the actuator is handed at
\* most one BURST.
Firing(in) ==
  /\ state = "Ready" /\ state' \in {"Burst", "Fault"}
  /\ Advancing(in) /\ OnTarget(in.frame.shape) /\ CanAct(CachedEvent(in))
  /\ TakeInputs(in, Latched(CachedEvent(in)))
  /\ bursts' = bursts \/ AddsBurst(in)

\* What every branch but Fire has to show.
Effect1(in) == TypeOK' /\ Plain(in)

\* Faulting after caching the inputs, with no burst among the commands so far.
LEMMA FaultEffect ==
  ASSUME TypeOK, NEW in \in Calls, NEW l \in Link, BurstFree(l),
         CacheInputs(in), EnterFault(l, in.now, CachedEvent(in)),
         readyAfterFrame' \in FrameIds, burstAcked' \in BOOLEAN, cooldownUntil' \in Time
  PROVE  Effect1(in)
<1>1. in.now \in Time /\ CachedEvent(in) \in EventLatch
  BY CallType, CachedType DEF TypeOK
<1>2. bursts \subseteq Command
  BY DEF TypeOK, DeviceOK
<1>3. InputsOK'
  BY <1>1, TakeInputsType DEF TypeOK, CacheInputs
<1>4. /\ state' = "Fault"
      /\ link' \in Link /\ bursts' \subseteq Command
      /\ tracking' = None /\ confirmation' = None /\ aimAckedAt' = None
      /\ bursts' = bursts
  BY <1>1, <1>2, EnterFaultEffect
<1> QED
  BY <1>3, <1>4 DEF Effect1, Plain, TypeOK, States, CandidatesOK, FiringOK, DeviceOK

\* Sending a command other than BURST first thing in a step.
LEMMA SendEffect ==
  ASSUME TypeOK, NEW type \in ActionTypes \ {"Burst"}, NEW target \in Presets \cup {None},
         NEW at \in Time, NEW e \in EventLatch, NEW reply \in DeviceReplies
  PROVE  LET l == Execute(Quiet, MakeCommand(Quiet, type, target, 0, at, e), reply)
         IN  l \in Link /\ BurstFree(l)
<1>1. Quiet \in Link /\ BurstFree(Quiet)
  BY QuietType DEF TypeOK, DeviceOK
<1>2. MakeCommand(Quiet, type, target, 0, at, e) \in Command
  BY <1>1, CommandType
<1>3. MakeCommand(Quiet, type, target, 0, at, e).type # "Burst"
  BY DEF MakeCommand
<1> QED
  BY <1>1, <1>2, <1>3, ExecuteType, ExecuteBurstFree

\* A branch that caches its inputs, sends no BURST and leaves typed state behind.
LEMMA PlainEffect ==
  ASSUME TypeOK, NEW in \in Calls, CacheInputs(in),
         NEW l \in Link, BurstFree(l), Commit(l),
         state' \in States, CandidatesOK', FiringOK'
  PROVE  Effect1(in)
<1>1. InputsOK'
  BY CachedType, TakeInputsType DEF TypeOK, CacheInputs
<1>2. link' \in Link /\ bursts' \subseteq Command /\ bursts' = bursts
  BY CommitEffect DEF TypeOK, DeviceOK
<1> QED
  BY <1>1, <1>2 DEF Effect1, Plain, TypeOK, DeviceOK

\* The same for a branch that sends nothing at all.
LEMMA QuietEffect ==
  ASSUME TypeOK, NEW in \in Calls, CacheInputs(in), Commit(Quiet),
         state' \in States, CandidatesOK', FiringOK'
  PROVE  Effect1(in)
<1>1. Quiet \in Link /\ BurstFree(Quiet)
  BY QuietType DEF TypeOK, DeviceOK
<1> QED
  BY <1>1, PlainEffect

\* abort_aiming holds the device or faults; it never fires.
LEMMA AbortEffect ==
  ASSUME TypeOK, NEW in \in Calls, CacheInputs(in), AbortAiming(in.now, CachedEvent(in)),
         FiringOK'
  PROVE  Effect1(in)
<1> DEFINE e == CachedEvent(in)
<1>1. in.now \in Time /\ e \in EventLatch
  BY CallType, CachedType DEF TypeOK
<1>2. PICK reply \in DeviceReplies :
        LET command == MakeCommand(Quiet, "Hold", None, 0, in.now, e)
            l == Execute(Quiet, command, reply)
        IN  IF Acknowledged(Quiet, command, reply)
            THEN state' = "Monitoring" /\ Commit(l) /\ ResetCandidates
            ELSE EnterFault(l, in.now, e)
  BY DEF AbortAiming
<1> DEFINE l == Execute(Quiet, MakeCommand(Quiet, "Hold", None, 0, in.now, e), reply)
<1>3. l \in Link /\ BurstFree(l)
  BY <1>1, SendEffect DEF ActionTypes
<1>4. CASE state' = "Monitoring" /\ Commit(l) /\ ResetCandidates
  <2>1. CandidatesOK' /\ state' \in States
    BY <1>4 DEF ResetCandidates, CandidatesOK, States
  <2> HIDE DEF l
  <2> QED
    BY <1>3, <1>4, <2>1, PlainEffect
<1>5. CASE EnterFault(l, in.now, e)
  <2> HIDE DEF l
  <2> QED
    BY <1>3, <1>5, FaultEffect DEF FiringOK
<1> QED
  BY <1>2, <1>4, <1>5

\* A frame that passed the interlocks shows one track, kept by the candidates.
LEMMA AdvancingFrame ==
  ASSUME InputsOK, NEW in \in Calls, Advancing(in)
  PROVE  /\ in.frame \in Perception /\ in.frame.shape \in FrameShape
         /\ in.frame.shape.cats = 1 /\ in.frame.shape.track \in Tracks
         /\ in.frame.shape.preset \in Presets
         /\ BeginTracking(in.frame) \in TrackCandidate
         /\ BeginConfirmation(in.frame) \in BehaviorCandidate
<1> DEFINE shape == in.frame.shape
<1>1. FrameIsNew(in) /\ PerceptionInterlocks(in) = {}
  BY DEF Advancing, Unblocked
<1>2. in.frame \in Perception /\ CachedPerception(in) = in.frame /\ in.frame # None
  BY <1>1, CachedType DEF FrameIsNew
<1>3. ShapeInterlocks(shape) = {}
  BY <1>1, <1>2 DEF PerceptionInterlocks
<1>4. shape \in FrameShape /\ shape.cats \in Nat
  BY <1>2, ShapeType
<1>5. ~(shape.cats = 0) /\ ~(shape.cats > 1) /\ shape.track # None /\ shape.preset # None
  BY <1>3 DEF ShapeInterlocks
<1>6. shape.cats = 1
  BY <1>4, <1>5
<1>7. shape.track \in Tracks /\ shape.preset \in Presets /\ shape.behavior \in Behaviors
  BY <1>4, <1>5 DEF FrameShape
<1>8. in.frame.id \in FrameIds /\ in.frame.observedAt \in Time
  BY <1>2, ShapeType
<1> QED
  BY <1>2, <1>4, <1>6, <1>7, <1>8
     DEF BeginTracking, BeginConfirmation, TrackCandidate, BehaviorCandidate

\* Advancing a candidate by a frame keeps its type.
LEMMA AdvanceType ==
  ASSUME NEW frame \in Perception
  PROVE  /\ \A c \in TrackCandidate : Advance(c, frame) \in TrackCandidate
         /\ \A c \in BehaviorCandidate : Advance(c, frame) \in BehaviorCandidate
<1> DEFINE n(c) == IF frame.id # c.lastFrame THEN c.frames + 1 ELSE c.frames
           i == frame.id
           t == frame.observedAt
<1>1. i \in FrameIds /\ t \in Time
  BY ShapeType
<1>2. \A c : Advance(c, frame) = [c EXCEPT !.frames = n(c), !.lastFrame = i, !.latestAt = t]
  BY DEF Advance
<1>3. \A c \in TrackCandidate \cup BehaviorCandidate : n(c) \in Nat
  BY DEF TrackCandidate, BehaviorCandidate
<1> HIDE DEF n, i, t
<1>4. ASSUME NEW c \in TrackCandidate PROVE Advance(c, frame) \in TrackCandidate
  <2>1. n(c) \in Nat
    BY <1>3
  <2> QED
    BY <1>1, <1>2, <2>1 DEF TrackCandidate
<1>5. ASSUME NEW c \in BehaviorCandidate PROVE Advance(c, frame) \in BehaviorCandidate
  <2>1. n(c) \in Nat
    BY <1>3
  <2> QED
    BY <1>1, <1>2, <2>1 DEF BehaviorCandidate
<1> QED
  BY <1>4, <1>5
-----------------------------------------------------------------------------
(* The branches of step() *)

\* The branches that reject, stop, disarm, arm, fault or stand by.
LEMMA ControlBranches ==
  ASSUME TypeOK, NEW in \in Calls,
         \/ RejectClockRegression(in) \/ RejectInput(in)
         \/ EmergencyStop(in) \/ Disarm(in)
         \/ RejectUnexpectedArm(in) \/ StandBy(in) \/ Arm(in)
         \/ FaultOnHardInterlock(in)
  PROVE  Effect1(in)
<1> DEFINE e == CachedEvent(in)
<1> USE DEF TypeOK
<1>1. in.now \in Time /\ e \in EventLatch
  BY CallType, CachedType
<1>2. Quiet \in Link /\ BurstFree(Quiet) /\ bursts \subseteq Command
  BY QuietType DEF DeviceOK
<1>3. UNCHANGED firing => FiringOK'
  BY DEF firing, FiringOK
<1>4. UNCHANGED candidates => CandidatesOK'
  BY DEF candidates, CandidatesOK
<1>5. ResetCandidates => CandidatesOK'
  BY DEF ResetCandidates, CandidatesOK
<1>6. ASSUME NEW l \in Link, BurstFree(l), CacheInputs(in), EnterFault(l, in.now, e), FiringOK'
      PROVE  Effect1(in)
  BY <1>6, FaultEffect DEF FiringOK
<1>7. CASE RejectClockRegression(in)
  <2>1. lastNow \in Time /\ event \in EventLatch
    BY <1>7 DEF RejectClockRegression, Orderly, InputsOK
  <2>2. /\ state' = "Fault" /\ link' \in Link /\ bursts' \subseteq Command
        /\ tracking' = None /\ confirmation' = None /\ aimAckedAt' = None
        /\ bursts' = bursts
    BY <1>2, <1>7, <2>1, EnterFaultEffect DEF RejectClockRegression
  <2>3. UNCHANGED <<lastNow, perception, safety, event, nextEventId>> /\ UNCHANGED firing
    BY <1>7 DEF RejectClockRegression, inputs, latch
  <2>4. InputsOK' /\ UNCHANGED latch
    BY <2>3 DEF InputsOK, latch
  <2> QED
    BY <1>3, <2>2, <2>3, <2>4 DEF Effect1, Plain, States, CandidatesOK, DeviceOK
<1>8. CASE RejectInput(in)
  BY <1>2, <1>3, <1>6, <1>8 DEF RejectInput
<1>9. CASE EmergencyStop(in)
  <2>1. PICK reply \in DeviceReplies :
          Commit(Execute(Quiet, StopCommand(Quiet, in.now, e), reply))
    BY <1>9 DEF EmergencyStop
  <2> DEFINE l == Execute(Quiet, StopCommand(Quiet, in.now, e), reply)
  <2>2. l \in Link /\ BurstFree(l)
    BY <1>1, SendEffect DEF StopCommand, ActionTypes
  <2>3. CacheInputs(in) /\ state' \in States /\ CandidatesOK' /\ FiringOK'
    BY <1>3, <1>5, <1>9 DEF EmergencyStop, States
  <2> HIDE DEF l
  <2> QED
    BY <2>1, <2>2, <2>3, PlainEffect DEF l
<1>10. CASE Disarm(in)
  <2>1. CacheInputs(in) /\ UNCHANGED <<readyAfterFrame, cooldownUntil>>
    BY <1>10 DEF Disarm
  <2>2. ASSUME UNCHANGED burstAcked \/ burstAcked' = FALSE PROVE FiringOK'
    BY <2>1, <2>2 DEF FiringOK
  <2>3. CASE Commit(Quiet) /\ UNCHANGED <<state, candidates, burstAcked>>
    BY <1>4, <2>1, <2>2, <2>3, QuietEffect
  <2>4. CASE ~(Commit(Quiet) /\ UNCHANGED <<state, candidates, burstAcked>>)
    <3>1. PICK reply \in DeviceReplies :
            LET command == MakeCommand(Quiet, "Disarm", None, 0, in.now, e)
                l == Execute(Quiet, command, reply)
            IN  IF Acknowledged(Quiet, command, reply)
                THEN /\ state' = "Disarmed" /\ Commit(l)
                     /\ ResetCandidates /\ burstAcked' = FALSE
                ELSE EnterFault(l, in.now, e) /\ UNCHANGED burstAcked
      BY <1>10, <2>4 DEF Disarm
    <3> DEFINE l == Execute(Quiet, MakeCommand(Quiet, "Disarm", None, 0, in.now, e), reply)
    <3>2. l \in Link /\ BurstFree(l)
      BY <1>1, SendEffect DEF ActionTypes
    <3>3. CASE state' = "Disarmed" /\ Commit(l) /\ ResetCandidates /\ burstAcked' = FALSE
      <4>1. state' \in States
        BY <3>3 DEF States
      <4> HIDE DEF l
      <4> QED
        BY <1>5, <2>1, <2>2, <3>2, <3>3, <4>1, PlainEffect
    <3>4. CASE EnterFault(l, in.now, e) /\ UNCHANGED burstAcked
      <4> HIDE DEF l
      <4> QED
        BY <1>6, <2>1, <2>2, <3>2, <3>4
    <3> QED
      BY <3>1, <3>3, <3>4
  <2> QED
    BY <2>3, <2>4
<1>11. CASE RejectUnexpectedArm(in)
  BY <1>2, <1>3, <1>6, <1>11 DEF RejectUnexpectedArm
<1>12. CASE StandBy(in)
  BY <1>3, <1>4, <1>12, QuietEffect DEF StandBy
<1>13. CASE Arm(in)
  <2>1. CacheInputs(in) /\ UNCHANGED firing
    BY <1>13 DEF Arm
  <2>2. PICK reply \in DeviceReplies :
          LET command == MakeCommand(Quiet, "Arm", None, 0, in.now, e)
              l == Execute(Quiet, command, reply)
          IN  IF Acknowledged(Quiet, command, reply)
              THEN state' = "Monitoring" /\ Commit(l) /\ UNCHANGED candidates
              ELSE EnterFault(l, in.now, e)
    BY <1>13 DEF Arm
  <2> DEFINE l == Execute(Quiet, MakeCommand(Quiet, "Arm", None, 0, in.now, e), reply)
  <2>3. l \in Link /\ BurstFree(l)
    BY <1>1, SendEffect DEF ActionTypes
  <2>4. CASE state' = "Monitoring" /\ Commit(l) /\ UNCHANGED candidates
    <3>1. state' \in States
      BY <2>4 DEF States
    <3> HIDE DEF l
    <3> QED
      BY <1>3, <1>4, <2>1, <2>3, <2>4, <3>1, PlainEffect
  <2>5. CASE EnterFault(l, in.now, e)
    <3> HIDE DEF l
    <3> QED
      BY <1>3, <1>6, <2>1, <2>3, <2>5
  <2> QED
    BY <2>2, <2>4, <2>5
<1>14. CASE FaultOnHardInterlock(in)
  BY <1>2, <1>3, <1>6, <1>14 DEF FaultOnHardInterlock
<1> QED
  BY <1>7, <1>8, <1>9, <1>10, <1>11, <1>12, <1>13, <1>14

\* The branches that follow the cat, up to the aim.
LEMMA TrackingBranches ==
  ASSUME TypeOK, NEW in \in Calls,
         \/ FinishBurst(in) \/ CoolDown(in)
         \/ HoldOnInterlock(in) \/ AwaitNewFrame(in)
         \/ StartTracking(in) \/ Track(in) \/ Confirm(in) \/ Aim(in)
  PROVE  Effect1(in)
<1> DEFINE e == CachedEvent(in)
<1> USE DEF TypeOK
<1>1. in.now \in Time /\ e \in EventLatch
  BY CallType, CachedType
<1>2. Quiet \in Link /\ BurstFree(Quiet)
  BY QuietType DEF DeviceOK
<1>3. UNCHANGED firing => FiringOK'
  BY DEF firing, FiringOK
<1>4. UNCHANGED candidates => CandidatesOK'
  BY DEF candidates, CandidatesOK
<1>5. ResetCandidates => CandidatesOK'
  BY DEF ResetCandidates, CandidatesOK
<1>6. ASSUME NEW l \in Link, BurstFree(l), CacheInputs(in), EnterFault(l, in.now, e), FiringOK'
      PROVE  Effect1(in)
  BY <1>6, FaultEffect DEF FiringOK
<1>7. CASE FinishBurst(in)
  <2>1. CASE burstAcked
    BY <1>3, <1>4, <1>7, <2>1, QuietEffect DEF FinishBurst, States
  <2>2. CASE ~burstAcked
    BY <1>2, <1>3, <1>6, <1>7, <2>2 DEF FinishBurst
  <2> QED
    BY <2>1, <2>2
<1>8. CASE CoolDown(in)
  <2>1. CandidatesOK' /\ state' \in States
    BY <1>4, <1>5, <1>8 DEF CoolDown, States
  <2> QED
    BY <1>3, <1>8, <2>1, QuietEffect DEF CoolDown
<1>9. CASE HoldOnInterlock(in)
  <2>1. CASE state \in {"Aiming", "Ready"}
    BY <1>3, <1>9, <2>1, AbortEffect DEF HoldOnInterlock
  <2>2. CASE state \notin {"Aiming", "Ready"}
    BY <1>3, <1>5, <1>9, <2>2, QuietEffect DEF HoldOnInterlock, States
  <2> QED
    BY <2>1, <2>2
<1>10. CASE AwaitNewFrame(in)
  BY <1>3, <1>4, <1>10, QuietEffect DEF AwaitNewFrame
<1>11. CASE StartTracking(in)
  <2>1. BeginTracking(in.frame) \in TrackCandidate
    BY <1>11, AdvancingFrame DEF StartTracking
  <2>2. CandidatesOK' /\ state' \in States
    BY <1>11, <2>1 DEF StartTracking, CandidatesOK, States
  <2> QED
    BY <1>3, <1>11, <2>2, QuietEffect DEF StartTracking, firing, FiringOK
<1>12. CASE Track(in)
  <2>1. /\ in.frame \in Perception
        /\ BeginTracking(in.frame) \in TrackCandidate
        /\ BeginConfirmation(in.frame) \in BehaviorCandidate
    BY <1>12, AdvancingFrame DEF Track
  <2>2. SameTrack(tracking, in.frame.shape) => Advance(tracking, in.frame) \in TrackCandidate
    BY <2>1, AdvanceType DEF SameTrack, CandidatesOK
  <2>3. CandidatesOK' /\ state' \in States
    BY <1>12, <2>1, <2>2 DEF Track, CandidatesOK, States
  <2> QED
    BY <1>3, <1>12, <2>3, QuietEffect DEF Track, firing, FiringOK
<1>13. CASE Confirm(in)
  <2> DEFINE sustained == /\ SameConfirmation(confirmation, in.frame.shape)
                          /\ HarmfulEvidence(in.frame.shape)
             advanced == Advance(confirmation, in.frame)
  <2>1. /\ in.frame \in Perception /\ in.frame.shape.preset \in Presets
        /\ BeginTracking(in.frame) \in TrackCandidate
    BY <1>13, AdvancingFrame DEF Confirm
  <2>2. sustained => advanced \in BehaviorCandidate
    BY <2>1, AdvanceType DEF SameConfirmation, SameTrack, CandidatesOK
  <2>3. CacheInputs(in) /\ FiringOK'
    BY <1>3, <1>13 DEF Confirm
  <2>4. ASSUME BackToTracking(in) PROVE Effect1(in)
    <3>1. CandidatesOK' /\ state' \in States
      BY <2>1, <2>4 DEF BackToTracking, CandidatesOK, States
    <3> QED
      BY <2>3, <2>4, <3>1, QuietEffect DEF BackToTracking
  <2>5. CASE ~sustained
    BY <1>13, <2>4, <2>5 DEF Confirm
  <2>6. CASE sustained /\ ~ConfirmationIsPersistent(advanced)
    <3>1. /\ confirmation' = advanced /\ Commit(Quiet)
          /\ UNCHANGED <<state, tracking, aimAckedAt>>
      BY <1>13, <2>6 DEF Confirm
    <3>2. CandidatesOK' /\ state' \in States
      BY <2>2, <2>6, <3>1 DEF CandidatesOK
    <3> QED
      BY <2>3, <3>1, <3>2, QuietEffect
  <2>7. CASE sustained /\ ConfirmationIsPersistent(advanced)
    <3>1. CASE ~CanAct(e)
      BY <1>13, <2>4, <2>7, <3>1 DEF Confirm
    <3>2. CASE CanAct(e)
      <4>1. RequestAim(in, e)
        BY <1>13, <2>7, <3>2 DEF Confirm
      <4>2. PICK reply \in DeviceReplies :
              LET command == MakeCommand(Quiet, "GotoPreset", in.frame.shape.preset, 0, in.now, e)
                  l == Execute(Quiet, command, reply)
              IN  IF Acknowledged(Quiet, command, reply)
                  THEN /\ state' = "Aiming" /\ aimAckedAt' = in.now
                       /\ confirmation' = advanced /\ Commit(l)
                       /\ UNCHANGED tracking
                  ELSE EnterFault(l, in.now, e)
        BY <4>1 DEF RequestAim
      <4> DEFINE l == Execute(Quiet, MakeCommand(Quiet, "GotoPreset",
                                in.frame.shape.preset, 0, in.now, e), reply)
      <4>3. l \in Link /\ BurstFree(l)
        BY <1>1, <2>1, SendEffect DEF ActionTypes
      <4>4. CASE /\ state' = "Aiming" /\ aimAckedAt' = in.now
                 /\ confirmation' = advanced /\ Commit(l)
                 /\ UNCHANGED tracking
        <5>1. CandidatesOK' /\ state' \in States
          BY <1>1, <2>2, <2>7, <4>4 DEF CandidatesOK, States
        <5> HIDE DEF l
        <5> QED
          BY <2>3, <4>3, <4>4, <5>1, PlainEffect
      <4>5. CASE EnterFault(l, in.now, e)
        <5> HIDE DEF l
        <5> QED
          BY <1>6, <2>3, <4>3, <4>5
      <4> QED
        BY <4>2, <4>4, <4>5
    <3> QED
      BY <3>1, <3>2
  <2> QED
    BY <2>5, <2>6, <2>7
<1>14. CASE Aim(in)
  <2>1. CacheInputs(in) /\ UNCHANGED <<burstAcked, cooldownUntil>> /\ in.frame \in Perception
    BY <1>14, AdvancingFrame DEF Aim
  <2>2. readyAfterFrame' \in FrameIds => FiringOK'
    BY <2>1 DEF FiringOK
  <2>3. CASE AbortAiming(in.now, e) /\ UNCHANGED readyAfterFrame
    BY <2>1, <2>2, <2>3, AbortEffect DEF FiringOK
  <2>4. CASE ~(AbortAiming(in.now, e) /\ UNCHANGED readyAfterFrame)
    <3>1. /\ \/ state' = "Ready" /\ readyAfterFrame' = in.frame.id
             \/ UNCHANGED <<state, readyAfterFrame>>
          /\ Commit(Quiet) /\ UNCHANGED candidates
      BY <1>14, <2>4 DEF Aim
    <3>2. readyAfterFrame' \in FrameIds /\ state' \in States
      BY <2>1, <3>1, ShapeType DEF States, FiringOK
    <3> QED
      BY <1>4, <2>1, <2>2, <3>1, <3>2, QuietEffect
  <2> QED
    BY <2>3, <2>4
<1> QED
  BY <1>7, <1>8, <1>9, <1>10, <1>11, <1>12, <1>13, <1>14
-----------------------------------------------------------------------------
(* Firing *)

\* The BURST commands a link hands over.
BurstsOf(l) == {a.command : a \in {x \in l.issued : x.command.type = "Burst"}}

\* A fault after a burst hands over that burst and nothing else.
LEMMA FaultKeepsBursts ==
  ASSUME NEW l, NEW at, NEW e, EnterFault(l, at, e)
  PROVE  bursts' = bursts \cup BurstsOf(l)
<1>1. PICK reply \in DeviceReplies : Commit(SafeStop(l, at, e, reply))
  BY DEF EnterFault
<1>2. BurstsOf(SafeStop(l, at, e, reply)) = BurstsOf(l)
  <2>1. StopCommand(l, at, e).type # "Burst"
    BY DEF StopCommand, MakeCommand
  <2>2. SafeStop(l, at, e, reply).issued = l.issued
        \/ SafeStop(l, at, e, reply).issued = l.issued \cup
             {[command |-> StopCommand(l, at, e),
               result |-> Result(l, StopCommand(l, at, e), reply)]}
    BY DEF SafeStop, Execute
  <2> QED
    BY <2>1, <2>2 DEF BurstsOf
<1> QED
  BY <1>1, <1>2 DEF Commit, BurstsOf

\* Deadlines saturate within the clock's width.
LEMMA SaturatingAddType ==
  ASSUME NEW left \in Time, NEW right \in Nat
  PROVE  SaturatingAdd(left, right) \in Time
BY ConfigAssumption DEF SaturatingAdd, Time

\* The branch that may fire: it waits, aborts, or latches and fires once.
LEMMA FireBranch ==
  ASSUME TypeOK, NEW in \in Calls, Fire(in)
  PROVE  Effect1(in) \/ (TypeOK' /\ Firing(in))
<1> DEFINE e == CachedEvent(in)
           latched == Latched(e)
           command == MakeCommand(Quiet, "Burst", None, BurstDuration, in.now, latched)
<1> USE DEF TypeOK
<1>1. in.now \in Time /\ e \in EventLatch
  BY CallType, CachedType
<1>2. Quiet \in Link /\ BurstFree(Quiet) /\ Quiet.issued = {}
  BY QuietType DEF DeviceOK
<1>3. UNCHANGED firing => FiringOK'
  BY DEF firing, FiringOK
<1>4. UNCHANGED candidates => CandidatesOK'
  BY DEF candidates, CandidatesOK
<1>5. CASE in.frame.id <= readyAfterFrame
  <2>1. CacheInputs(in) /\ Commit(Quiet) /\ UNCHANGED <<state, candidates, firing>>
    BY <1>5 DEF Fire
  <2> QED
    BY <1>3, <1>4, <2>1, QuietEffect
<1>6. CASE ~(in.frame.id <= readyAfterFrame) /\ (~OnTarget(in.frame.shape) \/ ~CanAct(e))
  <2>1. CacheInputs(in) /\ AbortAiming(in.now, e) /\ UNCHANGED firing
    BY <1>6 DEF Fire
  <2> QED
    BY <1>3, <2>1, AbortEffect
<1>7. CASE ~(in.frame.id <= readyAfterFrame) /\ ~(~OnTarget(in.frame.shape) \/ ~CanAct(e))
  <2>1. FireBurst(in, latched) /\ OnTarget(in.frame.shape) /\ CanAct(e)
    BY <1>7 DEF Fire
  <2>2. latched \in EventLatch /\ latched.id = e.id /\ latched.active
    BY <1>1, <2>1 DEF Latched, EventLatch, CanAct
  <2>3. InputsOK'
    BY <2>1, <2>2, TakeInputsType DEF FireBurst
  <2>4. PICK reply \in DeviceReplies :
          LET l == Execute(Quiet, command, reply)
          IN  /\ burstAcked' = Acknowledged(Quiet, command, reply)
              /\ IF burstAcked'
                 THEN state' = "Burst" /\ Commit(l) /\ UNCHANGED candidates
                 ELSE EnterFault(l, in.now, latched)
    BY <2>1 DEF FireBurst
  <2> DEFINE l == Execute(Quiet, command, reply)
  <2>5. command \in Command /\ command.event = e.id /\ command.issuedAt = in.now
    <3>1. command \in Command
      BY <1>1, <1>2, <2>2, ConfigAssumption, CommandType DEF ActionTypes
    <3> QED
      BY <2>2, <3>1 DEF MakeCommand
  <2>6. l \in Link
    BY <1>2, <2>5, ExecuteType
  <2>7. BurstsOf(l) = {} \/ BurstsOf(l) = {command}
    <3>1. l.issued = {} \/ l.issued = {[command |-> command,
                                      result  |-> Result(Quiet, command, reply)]}
      BY <1>2 DEF Execute
    <3> HIDE DEF l, command
    <3> QED
      BY <3>1 DEF BurstsOf
  <2>8. FiringOK'
    <3>1. burstAcked' \in BOOLEAN
      BY <2>4 DEF Acknowledged, CanIssue
    <3>2. cooldownUntil' \in Time
      BY <1>1, <2>1, ConfigAssumption, SaturatingAddType DEF FireBurst
    <3> QED
      BY <2>1, <3>1, <3>2 DEF FireBurst, FiringOK
  <2> HIDE DEF l, command
  <2>9. /\ state' \in {"Burst", "Fault"} /\ CandidatesOK' /\ DeviceOK'
        /\ bursts' = bursts \cup BurstsOf(l)
    <3>1. CASE state' = "Burst" /\ Commit(l) /\ UNCHANGED candidates
      BY <1>4, <2>6, <3>1, CommitEffect DEF Commit, BurstsOf, DeviceOK, States
    <3>2. CASE EnterFault(l, in.now, latched)
      <4>1. bursts' = bursts \cup BurstsOf(l)
        BY <3>2, FaultKeepsBursts
      <4>2. /\ state' = "Fault" /\ link' \in Link /\ bursts' \subseteq Command
            /\ tracking' = None /\ confirmation' = None /\ aimAckedAt' = None
        BY <1>1, <2>2, <2>6, <3>2, EnterFaultEffect DEF DeviceOK
      <4> QED
        BY <4>1, <4>2 DEF States, CandidatesOK, DeviceOK
    <3> QED
      BY <2>4, <3>1, <3>2 DEF l
  <2>10. TakeInputs(in, latched)
    BY <2>1 DEF FireBurst
  <2>11. Firing(in)
    BY <2>1, <2>5, <2>7, <2>9, <2>10 DEF Fire, Firing, AddsBurst
  <2> QED
    BY <2>3, <2>8, <2>9, <2>11 DEF States
<1> QED
  BY <1>5, <1>6, <1>7

\* Every call either leaves the record of bursts alone or fires once.
LEMMA StepEffect ==
  ASSUME TypeOK, NEW in \in Calls, Step(in)
  PROVE  TypeOK' /\ (Plain(in) \/ Firing(in))
BY ControlBranches, TrackingBranches, FireBranch DEF Step, Effect1

\* A device that changes by itself changes nothing else.
LEMMA DeviceEffect ==
  ASSUME TypeOK, NEW status \in DeviceStatuses, DeviceChanges(status)
  PROVE  TypeOK' /\ UNCHANGED <<state, event, nextEventId, bursts>>
<1>1. status \in ActuatorStatus
  BY EnvironmentAssumption
<1>2. link' \in Link
  BY <1>1 DEF DeviceChanges, Quiet, TypeOK, DeviceOK, Link
<1>3. UNCHANGED <<state, lastNow, perception, safety, event, nextEventId, tracking,
                  confirmation, aimAckedAt, readyAfterFrame, burstAcked, cooldownUntil, bursts>>
  BY DEF DeviceChanges, inputs, latch, candidates, firing
<1> QED
  BY <1>2, <1>3 DEF TypeOK, InputsOK, CandidatesOK, FiringOK, DeviceOK
-----------------------------------------------------------------------------
(* Type correctness *)

\* Every variable keeps its type and width, for any configuration and caller.
THEOREM TypeCorrect == Spec => []TypeOK
<1>1. Init => TypeOK
  <2>1. 0 \in Time /\ 0 \in FrameIds
    BY ConfigAssumption DEF Time, FrameIds
  <2>2. NoEvent \in EventLatch
    BY <2>1 DEF NoEvent, EventLatch
  <2>3. HealthyStatus \in ActuatorStatus
    BY DEF HealthyStatus, ActuatorStatus
  <2> SUFFICES ASSUME Init PROVE TypeOK
    OBVIOUS
  <2>4. DeviceOK
    BY <2>3, ConfigAssumption DEF Init, DeviceOK, Link
  <2>5. InputsOK
    BY <2>2 DEF Init, InputsOK
  <2> QED
    BY <2>1, <2>4, <2>5 DEF Init, TypeOK, States, CandidatesOK, FiringOK
<1>2. TypeOK /\ [Next]_vars => TypeOK'
  <2> SUFFICES ASSUME TypeOK, [Next]_vars PROVE TypeOK'
    OBVIOUS
  <2>1. CASE Next
    BY <2>1, StepEffect, DeviceEffect DEF Next
  <2>2. CASE UNCHANGED vars
    BY <2>2 DEF vars, inputs, latch, candidates, firing,
                TypeOK, InputsOK, CandidatesOK, FiringOK, DeviceOK
  <2> QED
    BY <2>1, <2>2
<1> QED
  BY <1>1, <1>2, PTL DEF Spec
-----------------------------------------------------------------------------
(* One burst per event *)

\* The inductive invariant: what the latch knows about the bursts fired so far.
\* Ids of later events are unused, and an open event with a burst is latched.
LatchInv ==
  /\ event.id < nextEventId
  /\ event.active => event.id # 0
  /\ \A x \in bursts : x.event \in Nat /\ x.event < nextEventId
  /\ \A x \in bursts : event.active /\ x.event = event.id => event.burstAttempted
  /\ \A x, y \in bursts : x.event = y.event => x = y

\* The latch a step works with: the next event when the call opens one, else
\* the same event, open only if it was and with its attempt remembered.
LEMMA CachedLatch ==
  ASSUME InputsOK, NEW in \in Calls
  PROVE  LET e == CachedEvent(in)
         IN  /\ e \in EventLatch
             /\ OpensEvent(in) =>
                  ~event.active /\ e.active /\ e.id = nextEventId /\ ~e.burstAttempted
             /\ ~OpensEvent(in) =>
                  /\ e.id = event.id
                  /\ e.active => event.active /\ e.burstAttempted = event.burstAttempted
<1>1. CASE FrameIsNew(in)
  <2>1. in.frame \in Perception /\ in.frame.shape.cats \in Nat
    BY <1>1, CachedType, ShapeType
  <2>2. CachedEvent(in) = EventAfter(event, in.frame)
    BY <1>1 DEF CachedEvent
  <2> QED
    BY <1>1, <2>1, <2>2, LatchStep DEF OpensEvent, InputsOK
<1>2. CASE ~FrameIsNew(in)
  BY <1>2, CachedType DEF CachedEvent, OpensEvent, InputsOK
<1> QED
  BY <1>1, <1>2

\* A step that fires no burst keeps the invariant, whatever the frame showed.
LEMMA PlainKeepsLatch ==
  ASSUME TypeOK, LatchInv, NEW in \in Calls, Plain(in)
  PROVE  LatchInv'
<1>1. bursts' = bursts
  BY DEF Plain
<1>2. CASE UNCHANGED latch
  BY <1>1, <1>2 DEF latch, LatchInv
<1>3. CASE CacheInputs(in)
  <2> DEFINE e == CachedEvent(in)
  <2>1. event' = e /\ nextEventId' = IF OpensEvent(in) THEN nextEventId + 1 ELSE nextEventId
    BY <1>3 DEF CacheInputs, TakeInputs
  <2>2. nextEventId \in Nat \ {0} /\ event.id \in Nat
    BY DEF TypeOK, InputsOK, EventLatch
  <2>3. /\ OpensEvent(in) => ~event.active /\ e.active /\ e.id = nextEventId
        /\ ~OpensEvent(in) => /\ e.id = event.id
                              /\ e.active => event.active /\ e.burstAttempted = event.burstAttempted
    BY CachedLatch DEF TypeOK
  <2> HIDE DEF e
  <2>4. CASE OpensEvent(in)
    BY <1>1, <2>1, <2>2, <2>3, <2>4 DEF LatchInv
  <2>5. CASE ~OpensEvent(in)
    BY <1>1, <2>1, <2>2, <2>3, <2>5 DEF LatchInv
  <2> QED
    BY <2>4, <2>5
<1> QED
  BY <1>2, <1>3 DEF Plain

\* A step that fires keeps it too: the event was live, so it had no burst yet,
\* and it is latched now.
LEMMA FiringKeepsLatch ==
  ASSUME TypeOK, LatchInv, NEW in \in Calls, Firing(in)
  PROVE  LatchInv'
<1> DEFINE e == CachedEvent(in)
<1>1. /\ e \in EventLatch /\ e.active /\ ~e.burstAttempted
      /\ event' = Latched(e)
      /\ nextEventId' = IF OpensEvent(in) THEN nextEventId + 1 ELSE nextEventId
  BY CachedLatch DEF Firing, CanAct, TakeInputs, TypeOK
<1>2. Latched(e).id = e.id /\ Latched(e).active /\ Latched(e).burstAttempted
  BY <1>1 DEF Latched, EventLatch
<1>3. /\ OpensEvent(in) => e.id = nextEventId
      /\ ~OpensEvent(in) => e.id = event.id /\ event.active /\ ~event.burstAttempted
  BY <1>1, CachedLatch DEF TypeOK
<1>4. nextEventId \in Nat \ {0} /\ event.id \in Nat /\ e.id \in Nat
  BY <1>1 DEF TypeOK, InputsOK, EventLatch
<1>5. e.id # 0 /\ e.id < nextEventId'
  BY <1>1, <1>3, <1>4 DEF LatchInv
<1>6. \A x \in bursts : x.event \in Nat /\ x.event < nextEventId' /\ x.event # e.id
  <2> SUFFICES ASSUME NEW x \in bursts
               PROVE  x.event \in Nat /\ x.event < nextEventId' /\ x.event # e.id
    OBVIOUS
  <2>1. x.event \in Nat /\ x.event < nextEventId
    BY DEF LatchInv
  <2>2. CASE OpensEvent(in)
    BY <1>1, <1>3, <1>4, <2>1, <2>2
  <2>3. CASE ~OpensEvent(in)
    BY <1>1, <1>3, <2>1, <2>3 DEF LatchInv
  <2> QED
    BY <2>2, <2>3
<1> HIDE DEF e
<1>7. CASE bursts' = bursts
  BY <1>1, <1>2, <1>5, <1>6, <1>7 DEF LatchInv
<1>8. CASE AddsBurst(in)
  <2>1. PICK c : c.event = e.id /\ bursts' = bursts \cup {c}
    BY <1>8 DEF e, AddsBurst
  <2>2. \A x, y \in bursts' : x.event = y.event => x = y
    BY <1>6, <2>1 DEF LatchInv
  <2>3. \A x \in bursts' : x.event \in Nat /\ x.event < nextEventId'
    BY <1>4, <1>5, <1>6, <2>1
  <2> QED
    BY <1>1, <1>2, <1>5, <2>2, <2>3 DEF LatchInv
<1> QED
  BY <1>7, <1>8 DEF Firing, e

\* The invariant holds from the start and is kept by every step.
LEMMA LatchInvariant == Spec => []LatchInv
<1>1. Init => LatchInv
  BY DEF Init, NoEvent, LatchInv
<1>2. TypeOK /\ LatchInv /\ [Next]_vars => LatchInv'
  <2> SUFFICES ASSUME TypeOK, LatchInv, [Next]_vars PROVE LatchInv'
    OBVIOUS
  <2>1. ASSUME NEW in \in Calls, Step(in) PROVE LatchInv'
    BY <2>1, StepEffect, PlainKeepsLatch, FiringKeepsLatch
  <2>2. ASSUME NEW status \in DeviceStatuses, DeviceChanges(status) PROVE LatchInv'
    BY <2>2, DeviceEffect DEF LatchInv
  <2>3. CASE UNCHANGED vars
    BY <2>3 DEF vars, latch, LatchInv
  <2> QED
    BY <2>1, <2>2, <2>3 DEF Next
<1> QED
  BY <1>1, <1>2, TypeCorrect, PTL DEF Spec

\* README.md, "no more than one brief deterrent event per confirmed incident":
\* whatever the cameras, the clock, the operator and the device do, a
\* continuous event gets at most one burst, and every burst has an event.
THEOREM AtMostOneBurst == Spec => []OneBurstPerEvent
<1>1. LatchInv => OneBurstPerEvent
  BY NoneAssumption DEF LatchInv, OneBurstPerEvent
<1> QED
  BY <1>1, LatchInvariant, PTL
-----------------------------------------------------------------------------
(* What an active policy may rely on *)

\* The inductive invariant: an active policy has a command id left, and one
\* that aims works for an open event.
ModeInv ==
  /\ ActivePolicyCanStop
  /\ state \in {"Aiming", "Ready"} => event.active

\* What each branch has to show: where it leaves the policy, and why.
KeepsMode(in) ==
  \/ state' \in Standby
  \/ /\ ~link'.exhausted
     /\ state' \in {"Aiming", "Ready"} => event'.active

\* An acknowledged command that is not fail-closed never takes the last id.
LEMMA AcknowledgedLeavesId ==
  ASSUME NEW l, NEW command, NEW reply,
         Acknowledged(l, command, reply), ~FailClosed(command.type)
  PROVE  ~Execute(l, command, reply).exhausted
<1>1. CanIssue(l, command.type) /\ ~l.exhausted /\ l.nextId # MaxCommandId
  BY DEF Acknowledged, CanIssue
<1>2. Execute(l, command, reply).exhausted = ConsumedId(l).exhausted
  BY <1>1 DEF Execute
<1>3. ConsumedId(l) = [l EXCEPT !.nextId = @ + 1]
  BY <1>1 DEF ConsumedId
<1> QED
  BY <1>1, <1>2, <1>3

\* abort_aiming ends in MONITORING with an id left, or in FAULT.
LEMMA AbortMode ==
  ASSUME NEW in, NEW e, AbortAiming(in.now, e)
  PROVE  KeepsMode(in)
<1> DEFINE command == MakeCommand(Quiet, "Hold", None, 0, in.now, e)
<1>1. ~FailClosed(command.type)
  BY DEF MakeCommand, FailClosed
<1>2. PICK reply \in DeviceReplies :
        IF Acknowledged(Quiet, command, reply)
        THEN state' = "Monitoring" /\ Commit(Execute(Quiet, command, reply)) /\ ResetCandidates
        ELSE EnterFault(Execute(Quiet, command, reply), in.now, e)
  BY DEF AbortAiming
<1> HIDE DEF command
<1>3. CASE Acknowledged(Quiet, command, reply)
  <2>1. link' = Execute(Quiet, command, reply) /\ state' = "Monitoring"
    BY <1>2, <1>3 DEF Commit
  <2> QED
    BY <1>1, <1>3, <2>1, AcknowledgedLeavesId DEF KeepsMode
<1>4. CASE ~Acknowledged(Quiet, command, reply)
  BY <1>2, <1>4 DEF EnterFault, KeepsMode, Standby
<1> QED
  BY <1>3, <1>4

\* A quiet step of an active policy has only the aim to justify.
LEMMA QuietMode ==
  ASSUME TypeOK, ModeInv, NEW in \in Calls, state \notin Standby, Commit(Quiet),
         state' \in {"Aiming", "Ready"} => event'.active
  PROVE  KeepsMode(in)
BY QuietType DEF TypeOK, DeviceOK, ModeInv, ActivePolicyCanStop, KeepsMode, Commit

\* No branch leaves the policy active without an id, or aiming at a closed event.
LEMMA StepMode ==
  ASSUME TypeOK, ModeInv, NEW in \in Calls, Step(in)
  PROVE  KeepsMode(in)
<1> DEFINE e == CachedEvent(in)
<1>1. ASSUME NEW l, NEW at, NEW ev, EnterFault(l, at, ev) PROVE KeepsMode(in)
  BY <1>1 DEF EnterFault, KeepsMode, Standby
<1>2. CacheInputs(in) => event' = e
  BY DEF CacheInputs, TakeInputs
<1>3. Advancing(in) => e.active
  <2> SUFFICES ASSUME Advancing(in) PROVE e.active
    OBVIOUS
  <2>1. in.frame \in Perception /\ in.frame.shape.cats = 1 /\ FrameIsNew(in)
    BY AdvancingFrame DEF TypeOK, Advancing
  <2> QED
    BY <2>1 DEF CachedEvent, EventAfter
<1> HIDE DEF e
<1>4. CASE RejectClockRegression(in) \/ RejectInput(in) \/ RejectUnexpectedArm(in)
           \/ FaultOnHardInterlock(in)
  <2>1. \E l, at, ev : EnterFault(l, at, ev)
    BY <1>4 DEF RejectClockRegression, RejectInput, RejectUnexpectedArm, FaultOnHardInterlock
  <2> QED
    BY <1>1, <2>1
<1>5. CASE EmergencyStop(in)
  BY <1>5 DEF EmergencyStop, KeepsMode, Standby
<1>6. CASE Disarm(in)
  BY <1>6 DEF Disarm, AlreadyDisarmed, EnterFault, KeepsMode, Standby
<1>7. CASE StandBy(in)
  BY <1>7 DEF StandBy, KeepsMode, Standby
<1>8. CASE Arm(in)
  <2> DEFINE command == MakeCommand(Quiet, "Arm", None, 0, in.now, CachedEvent(in))
  <2>1. PICK reply \in DeviceReplies :
          IF Acknowledged(Quiet, command, reply)
          THEN state' = "Monitoring" /\ Commit(Execute(Quiet, command, reply))
          ELSE EnterFault(Execute(Quiet, command, reply), in.now, CachedEvent(in))
    BY <1>8 DEF Arm
  <2>2. ~FailClosed(command.type)
    BY DEF MakeCommand, FailClosed
  <2> HIDE DEF command
  <2> QED
    BY <1>1, <2>1, <2>2, AcknowledgedLeavesId DEF KeepsMode, Commit
<1>9. CASE FinishBurst(in)
  <2>1. state \notin Standby
    BY <1>9 DEF FinishBurst, Standby
  <2> QED
    BY <1>1, <1>9, <2>1, QuietMode DEF FinishBurst
<1>10. CASE CoolDown(in)
  <2>1. state \notin Standby /\ Commit(Quiet) /\ state' \in {"Monitoring", "Cooldown"}
    BY <1>10 DEF CoolDown, Standby
  <2> QED
    BY <2>1, QuietMode
<1>11. CASE HoldOnInterlock(in)
  <2>1. state \notin Standby
    BY <1>11 DEF HoldOnInterlock, Watching, Cleared, Operating
  <2> QED
    BY <1>11, <2>1, AbortMode, QuietMode DEF HoldOnInterlock
<1>12. CASE AwaitNewFrame(in)
  <2>1. state \notin Standby /\ Commit(Quiet) /\ UNCHANGED state
    BY <1>12 DEF AwaitNewFrame, Unblocked, Watching, Cleared, Operating
  <2>2. event' = event
    BY <1>2, <1>12 DEF AwaitNewFrame, CachedEvent, e
  <2> QED
    BY <2>1, <2>2, QuietMode DEF ModeInv
<1>13. CASE StartTracking(in) \/ Track(in)
  <2>1. /\ state \notin Standby /\ Commit(Quiet)
        /\ state' \in {"Tracking", "Confirming"}
    BY <1>13 DEF StartTracking, Track, Standby
  <2> QED
    BY <2>1, QuietMode
<1>14. CASE Confirm(in)
  <2>1. state \notin Standby /\ Advancing(in) /\ state = "Confirming" /\ event' = e
    BY <1>2, <1>14 DEF Confirm, Standby
  <2>2. ASSUME RequestAim(in, e) PROVE KeepsMode(in)
    <3> DEFINE command == MakeCommand(Quiet, "GotoPreset", in.frame.shape.preset, 0, in.now, e)
    <3>1. PICK reply \in DeviceReplies :
            IF Acknowledged(Quiet, command, reply)
            THEN state' = "Aiming" /\ Commit(Execute(Quiet, command, reply))
            ELSE EnterFault(Execute(Quiet, command, reply), in.now, e)
      BY <2>2 DEF RequestAim
    <3>2. ~FailClosed(command.type)
      BY DEF MakeCommand, FailClosed
    <3> HIDE DEF command
    <3> QED
      BY <1>1, <1>3, <2>1, <3>1, <3>2, AcknowledgedLeavesId DEF KeepsMode, Commit
  <2>3. \/ RequestAim(in, e)
        \/ BackToTracking(in)
        \/ Commit(Quiet) /\ UNCHANGED state
    BY <1>14 DEF Confirm, e
  <2>4. ASSUME BackToTracking(in) PROVE KeepsMode(in)
    BY <2>1, <2>4, QuietMode DEF BackToTracking
  <2>5. ASSUME Commit(Quiet) /\ UNCHANGED state PROVE KeepsMode(in)
    BY <2>1, <2>5, QuietMode
  <2> QED
    BY <2>2, <2>3, <2>4, <2>5
<1>15. CASE Aim(in)
  <2>1. state \notin Standby /\ Advancing(in) /\ event' = e
    BY <1>2, <1>15 DEF Aim, Standby
  <2>2. AbortAiming(in.now, e) \/ Commit(Quiet)
    BY <1>15 DEF Aim, e
  <2> QED
    BY <1>3, <2>1, <2>2, AbortMode, QuietMode
<1>16. CASE Fire(in)
  <2>1. state \notin Standby /\ Advancing(in)
    BY <1>16 DEF Fire, Standby
  <2>2. ASSUME FireBurst(in, Latched(e)) PROVE KeepsMode(in)
    <3> DEFINE command == MakeCommand(Quiet, "Burst", None, BurstDuration, in.now, Latched(e))
    <3>1. PICK reply \in DeviceReplies :
            /\ burstAcked' = Acknowledged(Quiet, command, reply)
            /\ IF burstAcked'
               THEN state' = "Burst" /\ Commit(Execute(Quiet, command, reply))
               ELSE EnterFault(Execute(Quiet, command, reply), in.now, Latched(e))
      BY <2>2 DEF FireBurst
    <3>2. ~FailClosed(command.type)
      BY DEF MakeCommand, FailClosed
    <3> HIDE DEF command
    <3> QED
      BY <1>1, <3>1, <3>2, AcknowledgedLeavesId DEF KeepsMode, Commit
  <2>3. \/ FireBurst(in, Latched(e))
        \/ AbortAiming(in.now, e)
        \/ Commit(Quiet) /\ CacheInputs(in)
    BY <1>16 DEF Fire, e
  <2>4. ASSUME Commit(Quiet) /\ CacheInputs(in) PROVE KeepsMode(in)
    BY <1>2, <1>3, <2>1, <2>4, QuietMode
  <2> QED
    BY <2>2, <2>3, <2>4, AbortMode
<1> QED
  BY <1>4, <1>5, <1>6, <1>7, <1>8, <1>9, <1>10, <1>11, <1>12, <1>13, <1>14, <1>15, <1>16
     DEF Step

\* The mode invariant holds from the start and is kept by every step.
LEMMA ModeInvariant == Spec => []ModeInv
<1>1. Init => ModeInv
  BY DEF Init, ModeInv, ActivePolicyCanStop, Standby
<1>2. TypeOK /\ ModeInv /\ [Next]_vars => ModeInv'
  <2> SUFFICES ASSUME TypeOK, ModeInv, [Next]_vars PROVE ModeInv'
    OBVIOUS
  <2>1. ASSUME NEW in \in Calls, Step(in) PROVE ModeInv'
    BY <2>1, StepMode DEF KeepsMode, ModeInv, ActivePolicyCanStop, Standby
  <2>2. ASSUME NEW status \in DeviceStatuses, DeviceChanges(status) PROVE ModeInv'
    <3>1. link'.exhausted = link.exhausted
      BY <2>2, QuietType DEF DeviceChanges, Quiet, TypeOK, DeviceOK, Link
    <3> QED
      BY <2>2, <3>1, DeviceEffect DEF ModeInv, ActivePolicyCanStop
  <2>3. CASE UNCHANGED vars
    BY <2>3 DEF vars, latch, ModeInv, ActivePolicyCanStop
  <2> QED
    BY <2>1, <2>2, <2>3 DEF Next
<1> QED
  BY <1>1, <1>2, TypeCorrect, PTL DEF Spec

\* policy_engine.cpp keeps the last command id for a fail-closed command: an
\* active policy can always still stop its actuator.
THEOREM ActivePolicyKeepsAnId == Spec => []ActivePolicyCanStop
BY ModeInvariant, PTL DEF ModeInv
-----------------------------------------------------------------------------
(* The engine implements the one-shot policy *)

\* A step that fires no burst opens, closes or keeps the incident.
LEMMA PlainRefines ==
  ASSUME TypeOK, LatchInv, NEW in \in Calls, Plain(in)
  PROVE  OneShot!Observe
<1> DEFINE e == CachedEvent(in)
<1>1. nextEventId \in Nat \ {0} /\ event.id \in Nat
  BY DEF TypeOK, InputsOK, EventLatch
<1>2. {<<x.event, x.id>> : x \in bursts'} = {<<x.event, x.id>> : x \in bursts}
  BY DEF Plain
<1>3. OneShot!ChangeMode
  BY DEF OneShot!ChangeMode
<1>4. CASE UNCHANGED latch
  <2>1. OneShot!KeepIncident
    BY <1>4 DEF OneShot!KeepIncident, latch
  <2> QED
    BY <1>2, <1>3, <2>1 DEF OneShot!Observe
<1>5. CASE CacheInputs(in)
  <2>1. event' = e /\ nextEventId' = IF OpensEvent(in) THEN nextEventId + 1 ELSE nextEventId
    BY <1>5 DEF CacheInputs, TakeInputs
  <2>2. /\ OpensEvent(in) =>
             ~event.active /\ e.active /\ e.id = nextEventId /\ ~e.burstAttempted
        /\ ~OpensEvent(in) =>
             /\ e.id = event.id
             /\ e.active => event.active /\ e.burstAttempted = event.burstAttempted
    BY CachedLatch DEF TypeOK
  <2> HIDE DEF e
  <2>3. CASE OpensEvent(in)
    <3>1. OneShot!OpenIncident
      BY <1>1, <2>1, <2>2, <2>3 DEF OneShot!OpenIncident
    <3> QED
      BY <1>2, <1>3, <3>1 DEF OneShot!Observe
  <2>4. CASE ~OpensEvent(in) /\ e.active
    <3>1. OneShot!KeepIncident
      BY <2>1, <2>2, <2>4 DEF OneShot!KeepIncident
    <3> QED
      BY <1>2, <1>3, <3>1 DEF OneShot!Observe
  <2>5. CASE ~OpensEvent(in) /\ ~e.active /\ event.active
    <3>1. OneShot!CloseIncident
      BY <2>1, <2>2, <2>5 DEF OneShot!CloseIncident, LatchInv
    <3> QED
      BY <1>2, <1>3, <3>1 DEF OneShot!Observe
  <2>6. CASE ~OpensEvent(in) /\ ~e.active /\ ~event.active
    <3>1. OneShot!KeepIncident
      BY <2>1, <2>2, <2>6 DEF OneShot!KeepIncident
    <3> QED
      BY <1>2, <1>3, <3>1 DEF OneShot!Observe
  <2> QED
    BY <2>3, <2>4, <2>5, <2>6
<1> QED
  BY <1>4, <1>5 DEF Plain

\* The step that fires spends the open incident's one shot.
LEMMA FiringRefines ==
  ASSUME TypeOK, LatchInv, ModeInv, NEW in \in Calls, Firing(in)
  PROVE  OneShot!Shoot
<1> DEFINE e == CachedEvent(in)
<1>1. event.active /\ state = "Ready"
  BY DEF Firing, ModeInv
<1>2. ~OpensEvent(in)
  BY <1>1 DEF OpensEvent
<1>3. e \in EventLatch /\ e.active /\ ~e.burstAttempted /\ e.id = event.id /\ ~event.burstAttempted
  BY <1>2, CachedLatch DEF Firing, CanAct, TypeOK
<1>4. event' = Latched(e) /\ nextEventId' = nextEventId
  BY <1>2 DEF Firing, TakeInputs
<1>5. event'.id = event.id /\ event'.active /\ event'.burstAttempted
  BY <1>3, <1>4 DEF Latched, EventLatch
<1>6. OneShot!ChangeMode
  BY DEF OneShot!ChangeMode
<1>7. \/ bursts' = bursts
      \/ \E c \in Command : c.event = event.id /\ bursts' = bursts \cup {c}
  BY <1>3 DEF Firing, AddsBurst
<1> DEFINE before == {<<x.event, x.id>> : x \in bursts}
           after == {<<x.event, x.id>> : x \in bursts'}
<1>8. after = before \/ \E id \in CommandIds : after = before \cup {<<event.id, id>>}
  <2>1. CASE bursts' = bursts
    BY <2>1
  <2>2. ASSUME NEW c \in Command, c.event = event.id, bursts' = bursts \cup {c}
        PROVE  \E id \in CommandIds : after = before \cup {<<event.id, id>>}
    <3>1. c.id \in CommandIds
      BY DEF Command
    <3>2. after = before \cup {<<event.id, c.id>>}
      BY <2>2
    <3> QED
      BY <3>1, <3>2
  <2> QED
    BY <1>7, <2>1, <2>2
<1>9. event.id # 0
  BY <1>1 DEF LatchInv
<1> QED
  BY <1>1, <1>3, <1>4, <1>5, <1>6, <1>8, <1>9 DEF OneShot!Shoot, Standby

\* With all its clocks, frames, persistence, lost answers and faults, the
\* engine does nothing the one-shot policy would not do.
THEOREM EngineImplementsOneShot == Spec => ImplementsOneShot
<1>1. Init => OneShot!OneShotInit
  BY DEF Init, NoEvent, OneShot!OneShotInit, Standby
<1>2. TypeOK /\ LatchInv /\ ModeInv /\ [Next]_vars
        => [OneShot!OneShotNext]_(OneShot!oneShotVars)
  <2> SUFFICES ASSUME TypeOK, LatchInv, ModeInv, [Next]_vars
               PROVE  [OneShot!OneShotNext]_(OneShot!oneShotVars)
    OBVIOUS
  <2>1. ASSUME NEW in \in Calls, Step(in) PROVE OneShot!OneShotNext
    BY <2>1, StepEffect, PlainRefines, FiringRefines DEF OneShot!OneShotNext
  <2>2. ASSUME NEW status \in DeviceStatuses, DeviceChanges(status)
        PROVE  UNCHANGED OneShot!oneShotVars
    BY <2>2, DeviceEffect DEF OneShot!oneShotVars
  <2>3. CASE UNCHANGED vars
    BY <2>3 DEF vars, latch, OneShot!oneShotVars
  <2> QED
    BY <2>1, <2>2, <2>3 DEF Next
<1> QED
  BY <1>1, <1>2, TypeCorrect, LatchInvariant, ModeInvariant, PTL
     DEF Spec, ImplementsOneShot, OneShot!OneShotSpec
-----------------------------------------------------------------------------
(* What a step sends *)

\* The link with which a step commits or faults: nothing sent yet, or one
\* command made and executed first thing.
SentFirst(l) ==
  \/ l = Quiet
  \/ \E type \in ActionTypes, target \in Presets \cup {None}, duration \in Nat,
        at \in Time, e \in EventLatch, reply \in DeviceReplies :
       l = Execute(Quiet, MakeCommand(Quiet, type, target, duration, at, e), reply)

\* How a step ends: it commits one such link, and enters FAULT so only by an
\* emergency stop, or it faults with one.
Sends(in) ==
  \E l :
    /\ SentFirst(l)
    /\ \/ /\ Commit(l)
          /\ state' = "Fault" =>
               \/ state = "Fault"
               \/ \E e \in EventLatch, reply \in DeviceReplies :
                    l = Execute(Quiet, StopCommand(Quiet, in.now, e), reply)
       \/ \E at \in Time, e \in EventLatch : EnterFault(l, at, e)

\* A hold is sent first thing, whatever follows from its answer.
LEMMA AbortSends ==
  ASSUME NEW in \in Calls, NEW e \in EventLatch, AbortAiming(in.now, e)
  PROVE  Sends(in)
<1>1. PICK reply \in DeviceReplies :
        LET l == Execute(Quiet, MakeCommand(Quiet, "Hold", None, 0, in.now, e), reply)
        IN  \/ state' = "Monitoring" /\ Commit(l)
            \/ EnterFault(l, in.now, e)
  BY DEF AbortAiming
<1> DEFINE l == Execute(Quiet, MakeCommand(Quiet, "Hold", None, 0, in.now, e), reply)
<1>2. in.now \in Time
  BY CallType
<1>3. SentFirst(l)
  BY <1>2 DEF SentFirst, ActionTypes
<1> HIDE DEF l
<1> QED
  BY <1>1, <1>2, <1>3 DEF Sends, l

\* Each branch of step sends at most one command before it commits or faults.
LEMMA StepSends ==
  ASSUME TypeOK, NEW in \in Calls, Step(in)
  PROVE  Sends(in)
<1> DEFINE e == CachedEvent(in)
<1>1. in.now \in Time /\ e \in EventLatch /\ event \in EventLatch
  BY CallType, CachedType DEF TypeOK, InputsOK
<1>2. ASSUME Commit(Quiet), state' = "Fault" => state = "Fault" PROVE Sends(in)
  BY <1>2 DEF Sends, SentFirst
<1>3. ASSUME NEW at \in Time, NEW ev \in EventLatch, EnterFault(Quiet, at, ev) PROVE Sends(in)
  BY <1>3 DEF Sends, SentFirst
<1>4. ASSUME NEW type \in ActionTypes, NEW target \in Presets \cup {None},
             NEW duration \in Nat, NEW ev \in EventLatch, NEW reply \in DeviceReplies,
             LET l == Execute(Quiet, MakeCommand(Quiet, type, target, duration, in.now, ev), reply)
             IN  (state' # "Fault" /\ Commit(l)) \/ EnterFault(l, in.now, ev)
      PROVE  Sends(in)
  <2> DEFINE l == Execute(Quiet, MakeCommand(Quiet, type, target, duration, in.now, ev), reply)
  <2>1. SentFirst(l)
    BY <1>1 DEF SentFirst
  <2> HIDE DEF l
  <2> QED
    BY <1>1, <1>4, <2>1 DEF Sends, l
<1> HIDE DEF e
<1>5. CASE RejectClockRegression(in)
  <2>1. lastNow \in Time
    BY <1>5 DEF RejectClockRegression, Orderly, TypeOK, InputsOK
  <2> QED
    BY <1>1, <1>3, <1>5, <2>1 DEF RejectClockRegression
<1>6. CASE RejectInput(in) \/ RejectUnexpectedArm(in) \/ FaultOnHardInterlock(in)
  BY <1>1, <1>3, <1>6 DEF RejectInput, RejectUnexpectedArm, FaultOnHardInterlock, e
<1>7. CASE EmergencyStop(in)
  <2>1. PICK reply \in DeviceReplies : Commit(Execute(Quiet, StopCommand(Quiet, in.now, e), reply))
    BY <1>7 DEF EmergencyStop, e
  <2> DEFINE l == Execute(Quiet, StopCommand(Quiet, in.now, e), reply)
  <2>2. SentFirst(l)
    BY <1>1 DEF SentFirst, StopCommand, ActionTypes
  <2>3. \E ev \in EventLatch, r \in DeviceReplies :
          l = Execute(Quiet, StopCommand(Quiet, in.now, ev), r)
    BY <1>1
  <2> HIDE DEF l
  <2> QED
    BY <2>1, <2>2, <2>3 DEF Sends, l
<1>8. CASE Disarm(in)
  <2>1. CASE AlreadyDisarmed
    BY <1>2, <1>8, <2>1 DEF Disarm, AlreadyDisarmed
  <2>2. CASE ~AlreadyDisarmed
    <3>1. PICK reply \in DeviceReplies :
            LET l == Execute(Quiet, MakeCommand(Quiet, "Disarm", None, 0, in.now, e), reply)
            IN  (state' = "Disarmed" /\ Commit(l)) \/ EnterFault(l, in.now, e)
      BY <1>8, <2>2 DEF Disarm, e
    <3> QED
      BY <1>1, <1>4, <3>1 DEF ActionTypes
  <2> QED
    BY <2>1, <2>2
<1>9. CASE StandBy(in) \/ AwaitNewFrame(in)
  BY <1>2, <1>9 DEF StandBy, AwaitNewFrame
<1>10. CASE Arm(in)
  <2>1. PICK reply \in DeviceReplies :
          LET l == Execute(Quiet, MakeCommand(Quiet, "Arm", None, 0, in.now, e), reply)
          IN  (state' = "Monitoring" /\ Commit(l)) \/ EnterFault(l, in.now, e)
    BY <1>10 DEF Arm, e
  <2> QED
    BY <1>1, <1>4, <2>1 DEF ActionTypes
<1>11. CASE FinishBurst(in)
  BY <1>1, <1>2, <1>3, <1>11 DEF FinishBurst, e
<1>12. CASE CoolDown(in) \/ StartTracking(in) \/ Track(in)
  BY <1>2, <1>12 DEF CoolDown, StartTracking, Track
<1>13. CASE HoldOnInterlock(in)
  BY <1>1, <1>2, <1>13, AbortSends DEF HoldOnInterlock, e
<1>14. CASE Confirm(in)
  <2>1. \/ RequestAim(in, e)
        \/ BackToTracking(in)
        \/ Commit(Quiet) /\ UNCHANGED state
    BY <1>14 DEF Confirm, e
  <2>2. ASSUME RequestAim(in, e) PROVE Sends(in)
    <3>1. PICK reply \in DeviceReplies :
            LET l == Execute(Quiet, MakeCommand(Quiet, "GotoPreset",
                                in.frame.shape.preset, 0, in.now, e), reply)
            IN  (state' = "Aiming" /\ Commit(l)) \/ EnterFault(l, in.now, e)
      BY <2>2 DEF RequestAim
    <3>2. in.frame.shape.preset \in Presets
      BY <1>14, AdvancingFrame DEF Confirm, TypeOK
    <3> QED
      BY <1>1, <1>4, <3>1, <3>2 DEF ActionTypes
  <2> QED
    BY <1>2, <2>1, <2>2 DEF BackToTracking
<1>15. CASE Aim(in)
  <2>1. \/ AbortAiming(in.now, e)
        \/ Commit(Quiet) /\ (state' = "Ready" \/ UNCHANGED state)
    BY <1>15 DEF Aim, e
  <2> QED
    BY <1>1, <1>2, <2>1, AbortSends
<1>16. CASE Fire(in)
  <2>1. \/ FireBurst(in, Latched(e))
        \/ AbortAiming(in.now, e)
        \/ Commit(Quiet) /\ UNCHANGED state
    BY <1>16 DEF Fire, e
  <2>2. ASSUME FireBurst(in, Latched(e)) PROVE Sends(in)
    <3>1. PICK reply \in DeviceReplies :
            LET l == Execute(Quiet, MakeCommand(Quiet, "Burst", None, BurstDuration,
                                                in.now, Latched(e)), reply)
            IN  (state' = "Burst" /\ Commit(l)) \/ EnterFault(l, in.now, Latched(e))
      BY <2>2 DEF FireBurst
    <3>2. Latched(e) \in EventLatch
      BY <1>1 DEF Latched, EventLatch
    <3> QED
      BY <1>1, <1>4, <3>1, <3>2, ConfigAssumption DEF ActionTypes
  <2> QED
    BY <1>1, <1>2, <2>1, <2>2, AbortSends
<1> QED
  BY <1>5, <1>6, <1>7, <1>8, <1>9, <1>10, <1>11, <1>12, <1>13, <1>14, <1>15, <1>16 DEF Step
-----------------------------------------------------------------------------
(* Fresh ids and stopped actuators *)

\* The commands of a step so far have ids never used before it.
Fresh(l) ==
  /\ l \in Link
  /\ link.nextId <= l.nextId /\ (link.exhausted => l.exhausted)
  /\ \A x \in l.issued :
       /\ ~link.exhausted
       /\ x.command.id >= link.nextId
       /\ x.command.id < l.nextId \/ l.exhausted

\* One more command takes the next id, and the link moves past it.
LEMMA ExecuteFresh ==
  ASSUME link \in Link, NEW l, Fresh(l), NEW command \in Command, NEW reply \in DeviceReplies,
         command.id = l.nextId
  PROVE  Fresh(Execute(l, command, reply))
<1> DEFINE m == Execute(l, command, reply)
<1>1. m \in Link
  BY ExecuteType DEF Fresh
<1>2. CASE ~CanIssue(l, command.type)
  BY <1>2 DEF Execute
<1>3. CASE CanIssue(l, command.type)
  <2>1. /\ m.nextId = ConsumedId(l).nextId /\ m.exhausted = ConsumedId(l).exhausted
        /\ m.issued = l.issued \cup {[command |-> command, result |-> Result(l, command, reply)]}
    BY <1>3 DEF Execute
  <2>2. ~l.exhausted /\ l.nextId \in CommandIds /\ link.nextId \in CommandIds
        /\ l.exhausted \in BOOLEAN
    BY <1>3 DEF CanIssue, Fresh, Link
  <2>3. /\ l.nextId = MaxCommandId => m.exhausted /\ m.nextId = l.nextId
        /\ l.nextId # MaxCommandId => ~m.exhausted /\ m.nextId = l.nextId + 1
    <3>1. l \in Link
      BY DEF Fresh
    <3> QED
      BY <2>1, <2>2, <3>1 DEF ConsumedId, Link
  <2>4. link.nextId <= l.nextId /\ ~link.exhausted
    BY <2>2 DEF Fresh, Link
  <2> HIDE DEF m
  <2>5. ASSUME NEW x \in m.issued
        PROVE  x.command.id >= link.nextId /\ (x.command.id < m.nextId \/ m.exhausted)
    <3>1. CASE x \in l.issued
      <4>1. x.command.id >= link.nextId /\ x.command.id < l.nextId
        BY <2>2, <3>1 DEF Fresh
      <4>2. x.command.id \in Int
        <5>1. x.command \in Command
          BY <3>1 DEF Fresh, Link
        <5> QED
          BY <5>1 DEF Command, CommandIds
      <4> QED
        BY <2>2, <2>3, <4>1, <4>2 DEF CommandIds
    <3>2. CASE x.command = command
      BY <2>2, <2>3, <2>4, <3>2 DEF CommandIds
    <3> QED
      BY <2>1, <2>5, <3>1, <3>2
  <2>6. link.nextId <= m.nextId
    BY <2>2, <2>3, <2>4 DEF CommandIds
  <2> QED
    BY <1>1, <2>4, <2>5, <2>6 DEF Fresh, m
<1> QED
  BY <1>2, <1>3

\* Whatever a step sends first, and the stop of a fault after it, is fresh.
LEMMA SendsFresh ==
  ASSUME link \in Link, NEW l, SentFirst(l)
  PROVE  /\ Fresh(l)
         /\ \A at \in Time, e \in EventLatch, reply \in DeviceReplies :
              Fresh(SafeStop(l, at, e, reply))
<1>1. Fresh(Quiet)
  BY QuietType DEF Fresh, Link, CommandIds
<1>2. Fresh(l)
  <2>1. ASSUME NEW type \in ActionTypes, NEW target \in Presets \cup {None}, NEW duration \in Nat,
               NEW at \in Time, NEW e \in EventLatch, NEW reply \in DeviceReplies
        PROVE  Fresh(Execute(Quiet, MakeCommand(Quiet, type, target, duration, at, e), reply))
    <3>1. MakeCommand(Quiet, type, target, duration, at, e) \in Command
      BY CommandType, QuietType
    <3>2. MakeCommand(Quiet, type, target, duration, at, e).id = Quiet.nextId
      BY DEF MakeCommand
    <3> QED
      BY <1>1, <3>1, <3>2, ExecuteFresh
  <2> QED
    BY <1>1, <2>1 DEF SentFirst
<1>3. ASSUME NEW at \in Time, NEW e \in EventLatch, NEW reply \in DeviceReplies
      PROVE  Fresh(SafeStop(l, at, e, reply))
  <2>1. StopCommand(l, at, e) \in Command
    BY <1>2, CommandType DEF StopCommand, ActionTypes, Fresh
  <2>2. StopCommand(l, at, e).id = l.nextId
    BY DEF StopCommand, MakeCommand
  <2> QED
    BY <1>2, <2>1, <2>2, ExecuteFresh DEF SafeStop
<1> QED
  BY <1>2, <1>3

\* After a step the link is fresh.
LEMMA StepFresh ==
  ASSUME TypeOK, NEW in \in Calls, Step(in)
  PROVE  Fresh(link')
<1>1. link \in Link
  BY DEF TypeOK, DeviceOK
<1>2. PICK l : /\ SentFirst(l)
               /\ \/ Commit(l)
                  \/ \E at \in Time, e \in EventLatch : EnterFault(l, at, e)
  BY StepSends DEF Sends
<1>3. CASE Commit(l)
  BY <1>1, <1>2, <1>3, SendsFresh DEF Commit
<1>4. ASSUME NEW at \in Time, NEW e \in EventLatch, EnterFault(l, at, e) PROVE Fresh(link')
  <2>1. PICK reply \in DeviceReplies : link' = SafeStop(l, at, e, reply)
    BY <1>4 DEF EnterFault, Commit
  <2> QED
    BY <1>1, <1>2, <2>1, SendsFresh
<1> QED
  BY <1>2, <1>3, <1>4

\* policy_engine.cpp:649-665: no command id is used twice, also not the last
\* one, whatever a step sends.
THEOREM CommandIdsAreNeverReused == Spec => CommandIdsAreFresh
<1>1. TypeOK /\ [Next]_vars =>
        [\A x \in link'.issued :
           /\ ~link.exhausted
           /\ x.command.id >= link.nextId
           /\ x.command.id < link'.nextId \/ link'.exhausted]_vars
  <2> SUFFICES ASSUME TypeOK, Next
               PROVE  \A x \in link'.issued :
                        /\ ~link.exhausted
                        /\ x.command.id >= link.nextId
                        /\ x.command.id < link'.nextId \/ link'.exhausted
    OBVIOUS
  <2>1. ASSUME NEW in \in Calls, Step(in) PROVE Fresh(link')
    BY <2>1, StepFresh
  <2>2. ASSUME NEW status \in DeviceStatuses, DeviceChanges(status) PROVE link'.issued = {}
    BY <2>2, QuietType DEF DeviceChanges, Quiet, TypeOK, DeviceOK, Link
  <2> QED
    BY <2>1, <2>2 DEF Next, Fresh
<1> QED
  BY <1>1, TypeCorrect, PTL DEF Spec, CommandIdsAreFresh
-----------------------------------------------------------------------------
\* An acknowledged command leaves the connection alone, and only an emergency
\* stop stops the device.
LEMMA EffectStatus ==
  ASSUME NEW l \in Link, NEW command, NEW reply
  PROVE  /\ Effect(l, command, reply).connected = l.status.connected
         /\ command.type # "EmergencyStop" /\ Effect(l, command, reply).emergencyStop
              => l.status.emergencyStop
<1>1. l.status \in ActuatorStatus
  BY DEF Link
<1>2. Effect(l, command, reply) \in {l.status, AcknowledgedEffect(l.status, command.type)}
  BY DEF Effect, StatusAfter
<1> QED
  BY <1>1, <1>2 DEF AcknowledgedEffect, ActuatorStatus

StopSent(l) == \E x \in l.issued : x.command.type = "EmergencyStop"

\* Executing a command adds it to what was sent, when an id is left for it.
LEMMA ExecuteSends ==
  ASSUME NEW l, NEW command, NEW reply
  PROVE  /\ StopSent(l) => StopSent(Execute(l, command, reply))
         /\ CanIssue(l, command.type) /\ command.type = "EmergencyStop"
              => StopSent(Execute(l, command, reply))
         /\ CanIssue(l, command.type)
              => Execute(l, command, reply).status = Effect(l, command, reply)
         /\ ~CanIssue(l, command.type) => Execute(l, command, reply) = l
<1>1. CASE CanIssue(l, command.type)
  <2>1. /\ Execute(l, command, reply).status = Effect(l, command, reply)
        /\ Execute(l, command, reply).issued = l.issued \cup
             {[command |-> command, result |-> Result(l, command, reply)]}
    BY <1>1 DEF Execute
  <2> DEFINE m == Execute(l, command, reply)
             x == [command |-> command, result |-> Result(l, command, reply)]
  <2>2. l.issued \subseteq m.issued /\ x \in m.issued /\ x.command = command
    BY <2>1
  <2> HIDE DEF m, x
  <2>3. /\ StopSent(l) => StopSent(m)
        /\ command.type = "EmergencyStop" => StopSent(m)
    BY <2>2 DEF StopSent
  <2> QED
    BY <1>1, <2>1, <2>3 DEF m
<1>2. CASE ~CanIssue(l, command.type)
  BY <1>2 DEF Execute
<1> QED
  BY <1>1, <1>2

\* Before a fault's own stop the device is connected as it was, and stopped
\* only if it was or if the step has just stopped it.
LEMMA SentFirstStatus ==
  ASSUME link \in Link, NEW l, SentFirst(l)
  PROVE  /\ l.status.connected = link.status.connected
         /\ l.status.emergencyStop => link.status.emergencyStop \/ StopSent(l)
<1>1. Quiet \in Link /\ Quiet.status = link.status
  BY QuietType
<1>2. ASSUME NEW command, NEW reply, l = Execute(Quiet, command, reply)
      PROVE  /\ l.status.connected = link.status.connected
             /\ l.status.emergencyStop => link.status.emergencyStop \/ StopSent(l)
  BY <1>1, <1>2, EffectStatus, ExecuteSends
<1> QED
  BY <1>1, <1>2 DEF SentFirst

\* policy_engine.cpp:630-644: a fault leaves no device armed without having
\* tried to stop it, unless it was out of reach, stopped, or no id was left.
THEOREM FaultAlwaysStops == Spec => FaultStopsActuator
<1> DEFINE Stopped ==
      state # "Fault" /\ state' = "Fault" =>
        \/ ~link'.status.armed
        \/ \E x \in link'.issued : x.command.type = "EmergencyStop"
        \/ ~link.status.connected \/ link.status.emergencyStop
        \/ link'.exhausted
<1>1. TypeOK /\ [Next]_vars => [Stopped]_vars
  <2> SUFFICES ASSUME TypeOK, Next, state # "Fault", state' = "Fault"
               PROVE  \/ StopSent(link')
                      \/ ~link.status.connected \/ link.status.emergencyStop
                      \/ link'.exhausted
    BY DEF StopSent
  <2>1. PICK in \in Calls : Step(in)
    BY DEF Next, DeviceChanges
  <2>2. link \in Link
    BY DEF TypeOK, DeviceOK
  <2>3. PICK l : /\ SentFirst(l)
                 /\ \/ /\ Commit(l)
                       /\ \E e \in EventLatch, reply \in DeviceReplies :
                            l = Execute(Quiet, StopCommand(Quiet, in.now, e), reply)
                    \/ \E at \in Time, e \in EventLatch : EnterFault(l, at, e)
    BY <2>1, StepSends DEF Sends
  <2>4. ASSUME NEW e \in EventLatch, NEW reply \in DeviceReplies, Commit(l),
               l = Execute(Quiet, StopCommand(Quiet, in.now, e), reply)
        PROVE  StopSent(link') \/ link'.exhausted
    <3>1. StopCommand(Quiet, in.now, e).type = "EmergencyStop"
      BY DEF StopCommand, MakeCommand
    <3>2. CanIssue(Quiet, "EmergencyStop") \/ Quiet.exhausted
      BY DEF CanIssue, FailClosed
    <3> QED
      BY <2>4, <3>1, <3>2, ExecuteSends DEF Commit
  <2>5. ASSUME NEW at \in Time, NEW e \in EventLatch, EnterFault(l, at, e)
        PROVE  \/ StopSent(link') \/ link'.exhausted
               \/ ~link.status.connected \/ link.status.emergencyStop
    <3>1. PICK reply \in DeviceReplies : link' = SafeStop(l, at, e, reply)
      BY <2>5 DEF EnterFault, Commit
    <3>2. CASE MustStop(l)
      <4>1. StopCommand(l, at, e).type = "EmergencyStop"
        BY DEF StopCommand, MakeCommand
      <4>2. CanIssue(l, "EmergencyStop")
        BY <3>2 DEF MustStop, CanIssue, FailClosed
      <4> QED
        BY <3>1, <3>2, <4>1, <4>2, ExecuteSends DEF SafeStop
    <3>3. CASE ~MustStop(l)
      <4>1. link' = l
        BY <3>1, <3>3 DEF SafeStop
      <4> QED
        BY <2>2, <2>3, <3>3, <4>1, SentFirstStatus DEF MustStop
    <3> QED
      BY <3>2, <3>3
  <2> QED
    BY <2>3, <2>4, <2>5
<1> QED
  BY <1>1, TypeCorrect, PTL DEF Spec, FaultStopsActuator, Stopped
-----------------------------------------------------------------------------
(* Policy and device agree *)

\* What a step leaves behind of the agreement, when only the policy's commands
\* change the device: an active policy commits a link on which every command
\* was acknowledged, and a disarmed one has an unarmed device.
LEMMA AcknowledgedAgrees ==
  ASSUME NEW l \in Link, NEW command, NEW reply, Acknowledged(l, command, reply)
  PROVE  Execute(l, command, reply).status = AcknowledgedEffect(l.status, command.type)
<1>1. CanIssue(l, command.type) /\ Result(l, command, reply) = "Acknowledged"
  BY DEF Acknowledged
<1>2. reply # "Garbled" /\ Outcome(l.status, command, reply) = "Acknowledged"
  BY <1>1 DEF Result
<1> QED
  BY <1>1, <1>2, ExecuteSends DEF Effect, StatusAfter

\* One step keeps the agreement.
LEMMA StepAgrees ==
  ASSUME TypeOK, PolicyAndDeviceAgree, NEW in \in Calls, Step(in)
  PROVE  PolicyAndDeviceAgree'
<1> DEFINE e == CachedEvent(in)
           Armed(status) == status.armed /\ ~status.emergencyStop
           Executed(type, target, duration, ev, reply) ==
             Execute(Quiet, MakeCommand(Quiet, type, target, duration, in.now, ev), reply)
<1>1. Quiet \in Link /\ Quiet.status = link.status /\ link.status \in ActuatorStatus
  BY QuietType DEF TypeOK, DeviceOK, Link
<1>2. /\ state \notin Standby => Armed(link.status)
      /\ state = "Disarmed" => ~link.status.armed
  BY DEF PolicyAndDeviceAgree
<1>3. ASSUME NEW l, NEW at, NEW ev, EnterFault(l, at, ev) PROVE PolicyAndDeviceAgree'
  BY <1>3 DEF EnterFault, PolicyAndDeviceAgree, Standby
<1>4. ASSUME Armed(link'.status), state' # "Disarmed" PROVE PolicyAndDeviceAgree'
  BY <1>4 DEF PolicyAndDeviceAgree
<1>5. ASSUME NEW type \in ActionTypes, NEW target, NEW duration, NEW ev, NEW reply,
             Acknowledged(Quiet, MakeCommand(Quiet, type, target, duration, in.now, ev), reply),
             link' = Executed(type, target, duration, ev, reply)
      PROVE  link'.status = AcknowledgedEffect(link.status, type)
  <2>1. MakeCommand(Quiet, type, target, duration, in.now, ev).type = type
    BY DEF MakeCommand
  <2> QED
    BY <1>1, <1>5, <2>1, AcknowledgedAgrees
<1>6. /\ AcknowledgedEffect(link.status, "Disarm").armed = FALSE
      /\ AcknowledgedEffect(link.status, "Arm").armed
      /\ AcknowledgedEffect(link.status, "Arm").emergencyStop = link.status.emergencyStop
      /\ \A type \in {"Hold", "GotoPreset", "Burst"} :
           /\ AcknowledgedEffect(link.status, type).armed = link.status.armed
           /\ AcknowledgedEffect(link.status, type).emergencyStop = link.status.emergencyStop
  BY <1>1 DEF AcknowledgedEffect, FailClosed, ActuatorStatus
<1>7. ASSUME Commit(Quiet), state \notin Standby, state' # "Disarmed" PROVE PolicyAndDeviceAgree'
  BY <1>1, <1>2, <1>4, <1>7 DEF Commit
<1>8. ASSUME NEW type \in {"Hold", "GotoPreset", "Burst"}, NEW target, NEW duration, NEW ev,
             NEW reply, state \notin Standby, state' # "Disarmed",
             Acknowledged(Quiet, MakeCommand(Quiet, type, target, duration, in.now, ev), reply),
             Commit(Executed(type, target, duration, ev, reply))
      PROVE  PolicyAndDeviceAgree'
  <2>1. link'.status = AcknowledgedEffect(link.status, type)
    BY <1>5, <1>8 DEF Commit, ActionTypes
  <2> QED
    BY <1>2, <1>4, <1>6, <1>8, <2>1
<1>9. ASSUME NEW at, NEW ev, state \notin Standby, AbortAiming(at, ev), at = in.now
      PROVE  PolicyAndDeviceAgree'
  <2>1. PICK reply \in DeviceReplies :
          IF Acknowledged(Quiet, MakeCommand(Quiet, "Hold", None, 0, in.now, ev), reply)
          THEN state' = "Monitoring" /\ Commit(Executed("Hold", None, 0, ev, reply))
          ELSE EnterFault(Executed("Hold", None, 0, ev, reply), in.now, ev)
    BY <1>9 DEF AbortAiming
  <2> QED
    BY <1>3, <1>8, <1>9, <2>1
<1>10. CASE \/ RejectClockRegression(in) \/ RejectInput(in) \/ RejectUnexpectedArm(in)
            \/ FaultOnHardInterlock(in)
  <2>1. \E l, at, ev : EnterFault(l, at, ev)
    BY <1>10 DEF RejectClockRegression, RejectInput, RejectUnexpectedArm, FaultOnHardInterlock
  <2> QED
    BY <1>3, <2>1
<1>11. CASE EmergencyStop(in)
  BY <1>11 DEF EmergencyStop, PolicyAndDeviceAgree, Standby
<1>12. CASE Disarm(in)
  <2>1. CASE AlreadyDisarmed /\ Commit(Quiet) /\ UNCHANGED state
    BY <1>1, <2>1 DEF AlreadyDisarmed, Commit, PolicyAndDeviceAgree, Standby
  <2>2. CASE ~(AlreadyDisarmed /\ Commit(Quiet) /\ UNCHANGED state)
    <3>1. PICK reply \in DeviceReplies :
            IF Acknowledged(Quiet, MakeCommand(Quiet, "Disarm", None, 0, in.now, e), reply)
            THEN state' = "Disarmed" /\ Commit(Executed("Disarm", None, 0, e, reply))
            ELSE EnterFault(Executed("Disarm", None, 0, e, reply), in.now, e)
      BY <1>12, <2>2 DEF Disarm
    <3>2. CASE state' = "Disarmed"
      <4>1. link'.status = AcknowledgedEffect(link.status, "Disarm")
        BY <1>5, <3>1, <3>2 DEF Commit, ActionTypes, EnterFault
      <4> QED
        BY <1>6, <3>2, <4>1 DEF PolicyAndDeviceAgree, Standby
    <3>3. CASE state' # "Disarmed"
      BY <1>3, <3>1, <3>3
    <3> QED
      BY <3>2, <3>3
  <2> QED
    BY <2>1, <2>2
<1>13. CASE StandBy(in)
  BY <1>1, <1>2, <1>13 DEF StandBy, Commit, PolicyAndDeviceAgree, Standby
<1>14. CASE Arm(in)
  <2>1. ~link.status.emergencyStop
    BY <1>14 DEF Arm, HardInterlocks
  <2>2. PICK reply \in DeviceReplies :
          IF Acknowledged(Quiet, MakeCommand(Quiet, "Arm", None, 0, in.now, e), reply)
          THEN state' = "Monitoring" /\ Commit(Executed("Arm", None, 0, e, reply))
          ELSE EnterFault(Executed("Arm", None, 0, e, reply), in.now, e)
    BY <1>14 DEF Arm
  <2>3. CASE Acknowledged(Quiet, MakeCommand(Quiet, "Arm", None, 0, in.now, e), reply)
    <3>1. link'.status = AcknowledgedEffect(link.status, "Arm")
      BY <1>5, <2>2, <2>3 DEF Commit, ActionTypes
    <3> QED
      BY <1>4, <1>6, <2>1, <2>2, <2>3, <3>1
  <2> QED
    BY <1>3, <2>2, <2>3
<1>15. CASE \/ FinishBurst(in) \/ CoolDown(in) \/ AwaitNewFrame(in)
            \/ StartTracking(in) \/ Track(in)
  <2>1. state \notin Standby
    BY <1>15 DEF FinishBurst, CoolDown, AwaitNewFrame, StartTracking, Track, Advancing,
                 Unblocked, Watching, Cleared, Operating
  <2>2. \/ \E l, at, ev : EnterFault(l, at, ev)
        \/ Commit(Quiet) /\ state' # "Disarmed"
    BY <1>15, <2>1 DEF FinishBurst, CoolDown, AwaitNewFrame, StartTracking, Track, Standby
  <2> QED
    BY <1>3, <1>7, <2>1, <2>2
<1>16. CASE HoldOnInterlock(in)
  <2>1. state \notin Standby
    BY <1>16 DEF HoldOnInterlock, Watching, Cleared, Operating
  <2>2. \/ AbortAiming(in.now, e)
        \/ Commit(Quiet) /\ state' = "Monitoring"
    BY <1>16 DEF HoldOnInterlock
  <2> QED
    BY <1>7, <1>9, <2>1, <2>2
<1>17. CASE Confirm(in)
  <2>1. state = "Confirming" /\ state \notin Standby
    BY <1>17 DEF Confirm, Standby
  <2>2. \/ RequestAim(in, e)
        \/ Commit(Quiet) /\ state' \in {"Tracking", "Confirming"}
    BY <1>17, <2>1 DEF Confirm, BackToTracking
  <2>3. ASSUME RequestAim(in, e) PROVE PolicyAndDeviceAgree'
    <3>1. PICK reply \in DeviceReplies :
            IF Acknowledged(Quiet, MakeCommand(Quiet, "GotoPreset", in.frame.shape.preset,
                                               0, in.now, e), reply)
            THEN /\ state' = "Aiming"
                 /\ Commit(Executed("GotoPreset", in.frame.shape.preset, 0, e, reply))
            ELSE EnterFault(Executed("GotoPreset", in.frame.shape.preset, 0, e, reply), in.now, e)
      BY <2>3 DEF RequestAim
    <3> QED
      BY <1>3, <1>8, <2>1, <3>1
  <2> QED
    BY <1>7, <2>1, <2>2, <2>3
<1>18. CASE Aim(in)
  <2>1. state = "Aiming" /\ state \notin Standby
    BY <1>18 DEF Aim, Standby
  <2>2. \/ AbortAiming(in.now, e)
        \/ Commit(Quiet) /\ state' \in {"Aiming", "Ready"}
    BY <1>18, <2>1 DEF Aim
  <2> QED
    BY <1>7, <1>9, <2>1, <2>2
<1>19. CASE Fire(in)
  <2>1. state = "Ready" /\ state \notin Standby
    BY <1>19 DEF Fire, Standby
  <2>2. \/ FireBurst(in, Latched(e))
        \/ AbortAiming(in.now, e)
        \/ Commit(Quiet) /\ UNCHANGED state
    BY <1>19 DEF Fire
  <2>3. ASSUME FireBurst(in, Latched(e)) PROVE PolicyAndDeviceAgree'
    <3>1. PICK reply \in DeviceReplies :
            IF Acknowledged(Quiet, MakeCommand(Quiet, "Burst", None, BurstDuration,
                                               in.now, Latched(e)), reply)
            THEN state' = "Burst" /\ Commit(Executed("Burst", None, BurstDuration, Latched(e), reply))
            ELSE EnterFault(Executed("Burst", None, BurstDuration, Latched(e), reply),
                            in.now, Latched(e))
      BY <2>3 DEF FireBurst
    <3> QED
      BY <1>3, <1>8, <2>1, <3>1
  <2> QED
    BY <1>7, <1>9, <2>1, <2>2, <2>3
<1> QED
  BY <1>10, <1>11, <1>12, <1>13, <1>14, <1>15, <1>16, <1>17, <1>18, <1>19 DEF Step

\* With a device that changes only by command, the policy's belief about it is
\* right after every step, whatever answers are lost or garbled: armed and not
\* stopped while it is active, unarmed while it is disarmed.
THEOREM PolicyAndDeviceAlwaysAgree ==
  ASSUME DeviceStatuses = {}
  PROVE  Spec => []PolicyAndDeviceAgree
<1>1. Init => PolicyAndDeviceAgree
  BY DEF Init, HealthyStatus, PolicyAndDeviceAgree, Standby
<1>2. TypeOK /\ PolicyAndDeviceAgree /\ [Next]_vars => PolicyAndDeviceAgree'
  <2> SUFFICES ASSUME TypeOK, PolicyAndDeviceAgree, [Next]_vars PROVE PolicyAndDeviceAgree'
    OBVIOUS
  <2>1. CASE UNCHANGED vars
    BY <2>1 DEF vars, PolicyAndDeviceAgree
  <2> QED
    BY <2>1, StepAgrees DEF Next
<1> QED
  BY <1>1, <1>2, TypeCorrect, PTL DEF Spec
-----------------------------------------------------------------------------
(* How a step moves the candidates *)

Following == {"Tracking", "Confirming", "Aiming", "Ready"}

\* Each way in which a new frame may leave the policy following a cat.
Follows(in) ==
  \/ state' = "Tracking" /\ tracking' = BeginTracking(in.frame)
  \/ /\ state = "Tracking" /\ state' \in {"Tracking", "Confirming"}
     /\ SameTrack(tracking, in.frame.shape)
     /\ tracking' = Advance(tracking, in.frame)
     /\ state' = "Confirming" =>
          /\ TrackingIsPersistent(tracking') /\ HarmfulEvidence(in.frame.shape)
          /\ confirmation' = BeginConfirmation(in.frame)
  \/ /\ state = "Confirming" /\ state' \in {"Confirming", "Aiming"}
     /\ OnTarget(in.frame.shape) /\ SameConfirmation(confirmation, in.frame.shape)
     /\ tracking' = tracking /\ confirmation' = Advance(confirmation, in.frame)
     /\ state' = "Aiming" =>
          ConfirmationIsPersistent(confirmation') /\ aimAckedAt' = in.now
  \/ /\ state = "Aiming" /\ state' \in {"Aiming", "Ready"}
     /\ OnTarget(in.frame.shape)
     /\ UNCHANGED candidates
     /\ state' = "Ready" => Settled(in.now) /\ readyAfterFrame' = in.frame.id
  \/ /\ state = "Ready" /\ state' = "Ready"
     /\ in.frame.id <= readyAfterFrame
     /\ UNCHANGED <<candidates, readyAfterFrame>>

\* A step stops following, waits for a frame, or follows with a new one.
Progress(in) ==
  \/ state' \notin Following
  \/ /\ Unblocked(in) /\ ~FrameIsNew(in)
     /\ UNCHANGED <<state, candidates, readyAfterFrame>>
  \/ Advancing(in) /\ Follows(in)

\* A step that goes on following caches its inputs and was not blocked.
LEMMA StepProgress ==
  ASSUME TypeOK, NEW in \in Calls, Step(in)
  PROVE  Progress(in) /\ (state' \in Following => CacheInputs(in))
<1> DEFINE e == CachedEvent(in)
<1> USE DEF Following
<1>1. ASSUME NEW l, NEW at, NEW ev, EnterFault(l, at, ev) PROVE state' \notin Following
  BY <1>1 DEF EnterFault
<1>2. ASSUME NEW at, NEW ev, AbortAiming(at, ev) PROVE state' \notin Following
  <2>1. state' = "Monitoring" \/ \E l : EnterFault(l, at, ev)
    BY <1>2 DEF AbortAiming
  <2> QED
    BY <1>1, <2>1
<1>3. CASE state' \notin Following
  BY <1>3 DEF Progress
<1>4. CASE state' \in Following /\ AwaitNewFrame(in)
  BY <1>4 DEF AwaitNewFrame, Progress, firing
<1>5. CASE state' \in Following /\ StartTracking(in)
  BY <1>5 DEF StartTracking, Progress, Follows
<1>6. CASE state' \in Following /\ Track(in)
  BY <1>6 DEF Track, Progress, Follows
<1>7. CASE state' \in Following /\ Confirm(in)
  <2> DEFINE sustained == /\ SameConfirmation(confirmation, in.frame.shape)
                          /\ HarmfulEvidence(in.frame.shape)
  <2>1. CacheInputs(in) /\ Advancing(in) /\ state = "Confirming"
    BY <1>7 DEF Confirm
  <2>2. sustained => OnTarget(in.frame.shape)
    BY DEF SameConfirmation, OnTarget
  <2>3. ASSUME BackToTracking(in) PROVE Follows(in)
    BY <2>3 DEF BackToTracking, Follows
  <2>4. ASSUME RequestAim(in, e), sustained,
               ConfirmationIsPersistent(Advance(confirmation, in.frame))
        PROVE  Follows(in)
    <3>1. \/ /\ state' = "Aiming" /\ aimAckedAt' = in.now
             /\ confirmation' = Advance(confirmation, in.frame)
             /\ UNCHANGED tracking
          \/ \E l : EnterFault(l, in.now, e)
      BY <2>4 DEF RequestAim
    <3> QED
      BY <1>1, <1>7, <2>1, <2>2, <2>4, <3>1 DEF Follows
  <2>5. CASE ~sustained
    BY <1>7, <2>3, <2>5 DEF Confirm, Progress
  <2>6. CASE sustained /\ ~ConfirmationIsPersistent(Advance(confirmation, in.frame))
    <3>1. /\ confirmation' = Advance(confirmation, in.frame)
          /\ UNCHANGED <<state, tracking>>
      BY <1>7, <2>6 DEF Confirm
    <3> QED
      BY <2>1, <2>2, <2>6, <3>1 DEF Progress, Follows
  <2>7. CASE sustained /\ ConfirmationIsPersistent(Advance(confirmation, in.frame))
    BY <1>7, <2>3, <2>4, <2>7 DEF Confirm, Progress
  <2> QED
    BY <2>1, <2>5, <2>6, <2>7
<1>8. CASE state' \in Following /\ Aim(in)
  <2>1. CacheInputs(in) /\ Advancing(in) /\ state = "Aiming"
    BY <1>8 DEF Aim
  <2>2. \/ AbortAiming(in.now, e)
        \/ /\ OnTarget(in.frame.shape) /\ UNCHANGED candidates
           /\ IF Settled(in.now)
              THEN state' = "Ready" /\ readyAfterFrame' = in.frame.id
              ELSE UNCHANGED <<state, readyAfterFrame>>
    BY <1>8 DEF Aim
  <2> QED
    BY <1>2, <1>8, <2>1, <2>2 DEF Progress, Follows
<1>9. CASE state' \in Following /\ Fire(in)
  <2>1. Advancing(in) /\ state = "Ready"
    BY <1>9 DEF Fire
  <2>2. \/ AbortAiming(in.now, e)
        \/ FireBurst(in, Latched(e))
        \/ /\ in.frame.id <= readyAfterFrame /\ CacheInputs(in)
           /\ UNCHANGED <<state, candidates, firing>>
    BY <1>9 DEF Fire
  <2>3. ASSUME FireBurst(in, Latched(e)) PROVE FALSE
    <3>1. state' = "Burst" \/ \E l : EnterFault(l, in.now, Latched(e))
      BY <2>3 DEF FireBurst
    <3> QED
      BY <1>1, <1>9, <3>1
  <2> QED
    BY <1>2, <1>9, <2>1, <2>2, <2>3 DEF Progress, Follows, firing
<1>10. CASE \/ RejectClockRegression(in) \/ RejectInput(in)
            \/ EmergencyStop(in) \/ RejectUnexpectedArm(in)
            \/ FaultOnHardInterlock(in) \/ FinishBurst(in) \/ CoolDown(in)
  <2>1. \/ state' \in {"Fault", "Cooldown", "Monitoring"}
        \/ \E l, at, ev : EnterFault(l, at, ev)
    BY <1>10 DEF RejectClockRegression, RejectInput, EmergencyStop, RejectUnexpectedArm,
                 FaultOnHardInterlock, FinishBurst, CoolDown
  <2> QED
    BY <1>1, <2>1 DEF Progress
<1>11. CASE Disarm(in) \/ StandBy(in) \/ Arm(in)
  <2>1. \/ state' \in {"Fault", "Disarmed", "Monitoring"}
        \/ \E l, at, ev : EnterFault(l, at, ev)
    BY <1>11 DEF Disarm, AlreadyDisarmed, StandBy, Arm
  <2> QED
    BY <1>1, <2>1 DEF Progress
<1>12. CASE HoldOnInterlock(in)
  <2>1. \/ state' = "Monitoring"
        \/ \E at, ev : AbortAiming(at, ev)
    BY <1>12 DEF HoldOnInterlock
  <2> QED
    BY <1>2, <2>1 DEF Progress
<1> QED
  BY <1>3, <1>4, <1>5, <1>6, <1>7, <1>8, <1>9, <1>10, <1>11, <1>12
     DEF Step, AwaitNewFrame, StartTracking, Track, Confirm, Aim

\* What a call does to the cached inputs: nothing, or all of cache_inputs,
\* with the latch set on top of it by the branch that fires.
Caches(in) ==
  \/ ~Orderly(in) /\ UNCHANGED <<inputs, latch>>
  \/ Orderly(in) /\ CacheInputs(in)
  \/ Orderly(in) /\ Firing(in)

LEMMA StepCaches ==
  ASSUME TypeOK, NEW in \in Calls, Step(in)
  PROVE  Caches(in)
<1>1. ASSUME CacheInputs(in), Orderly(in) PROVE Caches(in)
  BY <1>1 DEF Caches
<1>2. Accepted(in) => Orderly(in)
  BY DEF Accepted
<1>3. CASE RejectClockRegression(in)
  BY <1>3 DEF RejectClockRegression, Caches
<1>4. CASE RejectInput(in) \/ EmergencyStop(in) \/ Disarm(in)
  BY <1>1, <1>2, <1>4 DEF RejectInput, EmergencyStop, Disarm
<1>5. CASE RejectUnexpectedArm(in) \/ StandBy(in) \/ Arm(in)
  BY <1>1, <1>2, <1>5 DEF RejectUnexpectedArm, StandBy, Arm, Controlled
<1>6. Advancing(in) => Orderly(in)
  BY <1>2 DEF Advancing, Unblocked, Watching, Cleared, Operating, Controlled
<1>7. CASE FaultOnHardInterlock(in) \/ FinishBurst(in) \/ CoolDown(in) \/ HoldOnInterlock(in)
           \/ AwaitNewFrame(in)
  BY <1>1, <1>2, <1>7 DEF FaultOnHardInterlock, FinishBurst, CoolDown, HoldOnInterlock,
       AwaitNewFrame, Unblocked, Watching, Cleared, Operating, Controlled
<1>8. CASE StartTracking(in) \/ Track(in) \/ Confirm(in) \/ Aim(in)
  BY <1>1, <1>6, <1>8 DEF StartTracking, Track, Confirm, Aim
<1>9. CASE Fire(in)
  <2>1. Advancing(in)
    BY <1>9 DEF Fire
  <2>2. CASE CacheInputs(in)
    BY <1>1, <1>6, <2>1, <2>2
  <2>3. CASE ~CacheInputs(in)
    <3>1. FireBurst(in, Latched(CachedEvent(in)))
      BY <1>9, <2>3 DEF Fire
    <3>2. state' \in {"Burst", "Fault"}
      BY <3>1 DEF FireBurst, EnterFault
    <3>3. /\ TakeInputs(in, Latched(CachedEvent(in))) /\ state = "Ready"
          /\ OnTarget(in.frame.shape) /\ CanAct(CachedEvent(in))
      BY <1>9, <2>3 DEF Fire, FireBurst
    <3>4. bursts' = bursts \/ AddsBurst(in)
      BY <1>9, <2>3, FireBranch DEF Effect1, Plain, Firing
    <3> QED
      BY <1>6, <2>1, <3>2, <3>3, <3>4 DEF Caches, Firing
  <2> QED
    BY <2>2, <2>3
<1> QED
  BY <1>3, <1>4, <1>5, <1>7, <1>8, <1>9 DEF Step
-----------------------------------------------------------------------------
(* An aimed policy works for a live event *)

AimInv ==
  state \in {"Aiming", "Ready"} =>
    /\ event.active /\ ~event.burstAttempted
    /\ aimAckedAt \in Time /\ confirmation \in BehaviorCandidate
    /\ perception.shape.cats = 1

\* A frame that passed shows one cat of an open event without a burst.
LEMMA AdvancingEvent ==
  ASSUME TypeOK, NEW in \in Calls, Advancing(in)
  PROVE  /\ CachedEvent(in).active /\ ~CachedEvent(in).burstAttempted
         /\ CachedEvent(in).clearSince = None
         /\ CachedPerception(in) = in.frame /\ in.frame \in Perception
         /\ in.frame.shape.cats = 1
         /\ in.now - in.frame.observedAt <= PerceptionStaleAfter
<1>1. /\ in.frame \in Perception /\ in.frame.shape.cats = 1
      /\ FrameIsNew(in) /\ PerceptionInterlocks(in) = {}
  BY AdvancingFrame DEF TypeOK, Advancing, Unblocked
<1>2. CachedPerception(in) = in.frame /\ in.frame # None
  BY <1>1 DEF CachedPerception, FrameIsNew
<1>3. CachedEvent(in).active /\ CachedEvent(in).clearSince = None
  BY <1>1 DEF CachedEvent, EventAfter
<1>4. ~CachedEvent(in).burstAttempted
  BY <1>1, <1>2, <1>3 DEF PerceptionInterlocks
<1>5. ~(in.now - in.frame.observedAt > PerceptionStaleAfter)
  BY <1>1, <1>2 DEF PerceptionInterlocks
<1>6. in.now \in Nat /\ in.frame.observedAt \in Nat
  BY <1>1, CallType, ShapeType DEF Time
<1> QED
  BY <1>1, <1>2, <1>3, <1>4, <1>5, <1>6, ConfigAssumption

\* One step keeps it.
LEMMA StepKeepsAim ==
  ASSUME TypeOK, AimInv, NEW in \in Calls, Step(in)
  PROVE  AimInv'
<1> SUFFICES ASSUME state' \in {"Aiming", "Ready"}
             PROVE  /\ event'.active /\ ~event'.burstAttempted
                    /\ aimAckedAt' \in Time /\ confirmation' \in BehaviorCandidate
                    /\ perception'.shape.cats = 1
  BY DEF AimInv
<1>1. CacheInputs(in) /\ Progress(in) /\ state' \in Following
  BY StepProgress DEF Following
<1>2. event' = CachedEvent(in) /\ perception' = CachedPerception(in)
  BY <1>1 DEF CacheInputs, TakeInputs
<1>3. CASE ~FrameIsNew(in) /\ UNCHANGED <<state, candidates>>
  <2>1. event' = event /\ perception' = perception
    BY <1>2, <1>3 DEF CachedEvent, CachedPerception
  <2> QED
    BY <1>3, <2>1 DEF AimInv, candidates
<1>4. CASE Advancing(in) /\ Follows(in)
  <2>1. /\ event'.active /\ ~event'.burstAttempted /\ perception'.shape.cats = 1
        /\ in.frame \in Perception
    BY <1>2, <1>4, AdvancingEvent
  <2>2. CASE state \in {"Aiming", "Ready"}
    <3>1. UNCHANGED candidates
      BY <1>4, <2>2 DEF Follows
    <3> QED
      BY <2>1, <2>2, <3>1 DEF AimInv, candidates
  <2>3. CASE state \notin {"Aiming", "Ready"}
    <3>1. /\ OnTarget(in.frame.shape) /\ aimAckedAt' = in.now
          /\ confirmation' = Advance(confirmation, in.frame)
      BY <1>4, <2>3 DEF Follows
    <3>2. confirmation \in BehaviorCandidate
      BY <3>1 DEF OnTarget, SameTrack, TypeOK, CandidatesOK
    <3> QED
      BY <2>1, <3>1, <3>2, AdvanceType, CallType
  <2> QED
    BY <2>2, <2>3
<1> QED
  BY <1>1, <1>3, <1>4 DEF Progress

LEMMA AimInvariant == Spec => []AimInv
<1>1. Init => AimInv
  BY DEF Init, AimInv
<1>2. TypeOK /\ AimInv /\ [Next]_vars => AimInv'
  <2> SUFFICES ASSUME TypeOK, AimInv, [Next]_vars PROVE AimInv'
    OBVIOUS
  <2>1. ASSUME NEW status \in DeviceStatuses, DeviceChanges(status) PROVE AimInv'
    BY <2>1 DEF DeviceChanges, inputs, latch, candidates, AimInv
  <2>2. CASE UNCHANGED vars
    BY <2>2 DEF vars, inputs, latch, candidates, AimInv
  <2> QED
    BY <2>1, <2>2, StepKeepsAim DEF Next
<1> QED
  BY <1>1, <1>2, TypeCorrect, PTL DEF Spec

\* policy_engine.cpp:281-371: while it aims or is ready the policy works for an
\* open event that had no burst, with an acknowledged aim and one cat in view;
\* what changed since the aim was requested never goes unnoticed.
THEOREM AimsAtLiveEvents == Spec => []AimedEventIsLive
<1>1. AimInv => AimedEventIsLive
  BY NoneAssumption, AbsenceAssumption DEF AimInv, AimedEventIsLive, Time
<1> QED
  BY <1>1, AimInvariant, PTL
-----------------------------------------------------------------------------
(* Two bursts are spaced *)

\* Every step hands the device's record exactly the bursts it sent.
LEMMA StepCommits ==
  ASSUME TypeOK, NEW in \in Calls, Step(in)
  PROVE  bursts' = bursts \cup {a.command : a \in {x \in link'.issued : x.command.type = "Burst"}}
<1>1. PICK l : Commit(l) \/ \E at \in Time, e \in EventLatch : EnterFault(l, at, e)
  BY StepSends DEF Sends
<1> QED
  BY <1>1 DEF EnterFault, Commit

\* Where the clearing of event id stands, seen from the time at: it counts only
\* frames from at on, and once the event is closed it took its whole period.
ClearedSince(id, at) ==
  /\ perception \in Perception /\ perception.observedAt >= at
  /\ IF event.active /\ event.id = id
     THEN event.clearSince \in Time => event.clearSince >= at
     ELSE perception.observedAt >= at + EventClearPersistence

\* Caching a call's inputs, with or without latching an attempt, keeps it.
LEMMA KeepsClearedSince ==
  ASSUME TypeOK, NEW id \in Nat, NEW at \in Int, ClearedSince(id, at), id < nextEventId,
         NEW in \in Calls,
         \/ UNCHANGED <<inputs, latch>>
         \/ \E e \in {CachedEvent(in), Latched(CachedEvent(in))} : TakeInputs(in, e)
  PROVE  ClearedSince(id, at)'
<1>1. CASE UNCHANGED <<inputs, latch>>
  BY <1>1 DEF ClearedSince, inputs, latch
<1>2. ASSUME NEW e \in {CachedEvent(in), Latched(CachedEvent(in))}, TakeInputs(in, e)
      PROVE  ClearedSince(id, at)'
  <2> DEFINE c == CachedEvent(in)
  <2>1. c \in EventLatch /\ event \in EventLatch /\ nextEventId \in Nat
    BY CachedType DEF TypeOK, InputsOK
  <2>2. /\ event' = e /\ perception' = CachedPerception(in)
        /\ e.active = c.active /\ e.id = c.id /\ e.clearSince = c.clearSince
    BY <1>2, <2>1 DEF TakeInputs, Latched, EventLatch
  <2>3. CASE ~FrameIsNew(in)
    <3>1. c = event /\ perception' = perception
      BY <2>2, <2>3 DEF CachedEvent, CachedPerception
    <3> QED
      BY <2>2, <3>1 DEF ClearedSince
  <2>4. CASE FrameIsNew(in)
    <3> DEFINE frame == in.frame
    <3>1. c = EventAfter(event, frame) /\ perception' = frame /\ frame \in Perception
      BY <2>2, <2>4, CachedType DEF CachedEvent, CachedPerception, TypeOK
    <3>2. frame.observedAt \in Time /\ perception.observedAt \in Time /\ frame.shape.cats \in Nat
      BY <3>1, ShapeType DEF ClearedSince
    <3>3. frame.observedAt >= perception.observedAt
      <4>1. ~(frame.observedAt < perception.observedAt)
        BY <2>4, AbsenceAssumption DEF FrameIsNew, FrameOutOfOrder, ClearedSince
      <4> QED
        BY <3>2, <4>1 DEF Time
    <3>4. perception.observedAt >= at /\ frame.observedAt >= at
      BY <3>2, <3>3 DEF ClearedSince, Time
    <3>5. EventClearPersistence \in Nat
      BY ConfigAssumption
    <3>6. CASE ~(event.active /\ event.id = id)
      <4>1. frame.observedAt >= at + EventClearPersistence
        BY <3>2, <3>3, <3>5, <3>6 DEF ClearedSince, Time
      <4>2. ~(c.active /\ c.id = id)
        <5>1. /\ OpensEvent(in) => c.id = nextEventId
              /\ ~OpensEvent(in) => c.id = event.id /\ (c.active => event.active)
          BY CachedLatch DEF TypeOK
        <5> HIDE DEF c
        <5> QED
          BY <2>1, <3>6, <5>1
      <4> QED
        BY <2>2, <3>1, <3>4, <4>1, <4>2 DEF ClearedSince
    <3>7. CASE event.active /\ event.id = id
      <4>1. event.clearSince \in Time => event.clearSince >= at
        BY <3>7 DEF ClearedSince
      <4>2. event.clearSince \in Time \cup {None}
        BY <2>1 DEF EventLatch
      <4>3. CASE frame.shape.cats > 0
        <5>1. c.clearSince = None /\ c.active /\ c.id = id
          BY <3>1, <3>7, <4>3 DEF EventAfter
        <5> QED
          BY <2>2, <3>1, <3>4, <5>1, NoneAssumption DEF ClearedSince, Time
      <4>4. CASE ~(frame.shape.cats > 0) /\ EventCleared(event, frame)
        <5>1. c = [Clearing(event, frame) EXCEPT !.active = FALSE, !.burstAttempted = FALSE,
                                                 !.clearSince = None, !.clearFrames = 0]
          BY <3>1, <3>7, <4>4 DEF EventAfter
        <5>2. Clearing(event, frame) \in EventLatch
          BY <2>1, <3>1, ClearingType
        <5>3. ~c.active
          BY <5>1, <5>2 DEF EventLatch
        <5>4. event.clearSince \in Time /\ frame.observedAt - event.clearSince >= EventClearPersistence
          BY <4>2, <4>4 DEF EventCleared
        <5>5. frame.observedAt >= at + EventClearPersistence
          BY <3>2, <3>5, <4>1, <5>4 DEF Time
        <5> QED
          BY <2>2, <3>1, <3>4, <5>3, <5>5 DEF ClearedSince
      <4>5. CASE ~(frame.shape.cats > 0) /\ ~EventCleared(event, frame)
        <5>1. c = Clearing(event, frame)
          BY <3>1, <3>7, <4>5 DEF EventAfter
        <5>2. /\ c.active /\ c.id = id
              /\ c.clearSince = IF event.clearSince = None THEN frame.observedAt ELSE event.clearSince
          BY <2>1, <3>7, <5>1 DEF Clearing, EventLatch
        <5>3. c.clearSince \in Time => c.clearSince >= at
          BY <3>4, <4>1, <5>2
        <5> QED
          BY <2>2, <3>1, <3>4, <5>2, <5>3 DEF ClearedSince
      <4> QED
        BY <4>3, <4>4, <4>5
    <3> QED
      BY <3>6, <3>7
  <2> QED
    BY <2>3, <2>4
<1> QED
  BY <1>1, <1>2
-----------------------------------------------------------------------------
\* What following a cat from the time at on has taken so far: each candidate
\* starts when the one before it has persisted, the aim is acknowledged when
\* the confirmation has, and a policy is ready once the aim has settled.
PacedSince(at) ==
  /\ state \in Following => tracking \in TrackCandidate /\ tracking.startedAt >= at
  /\ state \in {"Confirming", "Aiming", "Ready"} =>
       /\ confirmation \in BehaviorCandidate
       /\ confirmation.startedAt >= at + TrackingPersistence
  /\ state \in {"Aiming", "Ready"} =>
       /\ aimAckedAt \in Time
       /\ aimAckedAt >= at + TrackingPersistence + ConfirmationPersistence
  /\ state = "Ready" => lastNow \in Time /\ Settled(lastNow)

\* A later time is settled as well.
LEMMA StaysSettled ==
  ASSUME aimAckedAt \in Time, NEW t \in Time, NEW u \in Time, t <= u, Settled(t)
  PROVE  Settled(u)
<1> DEFINE s == SaturatingAdd(aimAckedAt, AimSettle)
<1>1. s \in Nat
  <2>1. AimSettle \in Nat /\ MaxTimestamp \in Nat
    BY ConfigAssumption
  <2> QED
    BY <2>1 DEF SaturatingAdd, Time
<1>2. s <= t
  BY <1>1 DEF Settled, Time
<1> HIDE DEF s
<1>3. u >= s
  BY <1>1, <1>2 DEF Time
<1> QED
  BY <1>3 DEF Settled, s

\* A step keeps the pace when the frame it follows with came late enough.
LEMMA KeepsPace ==
  ASSUME TypeOK, NEW at \in Int, PacedSince(at), NEW in \in Calls, Step(in),
         Advancing(in) => in.frame.observedAt >= at
  PROVE  PacedSince(at)'
<1> SUFFICES ASSUME state' \in Following PROVE PacedSince(at)'
  BY DEF PacedSince, Following
<1>1. Progress(in) /\ lastNow' = in.now /\ in.now \in Time
  <2>1. CacheInputs(in) /\ Progress(in)
    BY StepProgress
  <2> QED
    BY <2>1, CallType DEF CacheInputs, TakeInputs
<1>2. lastNow \in Time => lastNow <= in.now
  <2>1. Orderly(in)
    BY <1>1 DEF Progress, Advancing, Unblocked, Watching, Cleared, Operating, Controlled, Accepted
  <2> QED
    BY <1>1, <2>1, NoneAssumption DEF Orderly, Time
<1>3. {TrackingPersistence, ConfirmationPersistence} \subseteq Nat
  BY ConfigAssumption
<1>4. ASSUME UNCHANGED <<state, candidates>> PROVE PacedSince(at)'
  <2>1. state = "Ready" => Settled(in.now)
    BY <1>1, <1>2, StaysSettled DEF PacedSince
  <2> QED
    BY <1>1, <1>4, <2>1 DEF PacedSince, candidates, Settled
<1>5. CASE Advancing(in) /\ Follows(in)
  <2> DEFINE frame == in.frame
  <2>1. /\ frame \in Perception /\ frame.observedAt \in Time /\ frame.observedAt >= at
        /\ BeginTracking(frame) \in TrackCandidate
        /\ BeginConfirmation(frame) \in BehaviorCandidate
        /\ frame.observedAt <= in.now
    <3>1. frame \in Perception /\ frame.observedAt \in Time
      BY <1>5, AdvancingFrame, ShapeType DEF TypeOK
    <3>2. ~(frame.observedAt > in.now)
      BY <1>5 DEF Advancing, FrameIsNew, FrameMalformed
    <3> QED
      BY <1>1, <1>5, <3>1, <3>2, AdvancingFrame DEF TypeOK, Time
  <2>2. BeginTracking(frame).startedAt = frame.observedAt
        /\ BeginConfirmation(frame).startedAt = frame.observedAt
    BY DEF BeginTracking, BeginConfirmation
  <2>3. /\ tracking \in TrackCandidate =>
             /\ Advance(tracking, frame) \in TrackCandidate
             /\ Advance(tracking, frame).startedAt = tracking.startedAt
             /\ Advance(tracking, frame).latestAt = frame.observedAt
        /\ confirmation \in BehaviorCandidate =>
             /\ Advance(confirmation, frame) \in BehaviorCandidate
             /\ Advance(confirmation, frame).startedAt = confirmation.startedAt
             /\ Advance(confirmation, frame).latestAt = frame.observedAt
    BY <2>1, AdvanceType DEF Advance, TrackCandidate, BehaviorCandidate
  <2> HIDE DEF frame
  <2>4. CASE state' = "Tracking" /\ tracking' = BeginTracking(frame)
    BY <2>1, <2>2, <2>4 DEF PacedSince
  <2>5. CASE /\ state = "Tracking" /\ state' \in {"Tracking", "Confirming"}
             /\ tracking' = Advance(tracking, frame)
             /\ state' = "Confirming" =>
                  TrackingIsPersistent(tracking') /\ confirmation' = BeginConfirmation(frame)
    <3>1. /\ tracking' \in TrackCandidate /\ tracking'.startedAt = tracking.startedAt
          /\ tracking'.latestAt = frame.observedAt
          /\ tracking.startedAt >= at /\ tracking.startedAt \in Time
      BY <2>3, <2>5 DEF PacedSince, Following, TrackCandidate
    <3>2. state' = "Confirming" => frame.observedAt - tracking.startedAt >= TrackingPersistence
      BY <2>5, <3>1 DEF TrackingIsPersistent, Persistent
    <3>3. state' = "Confirming" => frame.observedAt >= at + TrackingPersistence
      BY <1>3, <2>1, <3>1, <3>2 DEF Time
    <3> QED
      BY <2>1, <2>2, <2>5, <3>1, <3>3 DEF PacedSince
  <2>6. CASE /\ state = "Confirming" /\ state' \in {"Confirming", "Aiming"}
             /\ tracking' = tracking /\ confirmation' = Advance(confirmation, frame)
             /\ state' = "Aiming" =>
                  ConfirmationIsPersistent(confirmation') /\ aimAckedAt' = in.now
    <3>1. /\ confirmation' \in BehaviorCandidate
          /\ confirmation'.startedAt = confirmation.startedAt
          /\ confirmation'.latestAt = frame.observedAt
          /\ confirmation.startedAt >= at + TrackingPersistence
          /\ confirmation.startedAt \in Time
          /\ tracking' \in TrackCandidate /\ tracking'.startedAt >= at
      BY <2>3, <2>6 DEF PacedSince, Following, BehaviorCandidate
    <3>2. state' = "Aiming" => frame.observedAt - confirmation.startedAt >= ConfirmationPersistence
      BY <2>6, <3>1 DEF ConfirmationIsPersistent, Persistent
    <3>3. state' = "Aiming" => in.now >= at + TrackingPersistence + ConfirmationPersistence
      BY <1>1, <1>3, <2>1, <3>1, <3>2 DEF Time
    <3> QED
      BY <1>1, <2>6, <3>1, <3>3 DEF PacedSince
  <2>7. CASE /\ state = "Aiming" /\ state' \in {"Aiming", "Ready"}
             /\ UNCHANGED candidates
             /\ state' = "Ready" => Settled(in.now)
    BY <1>1, <2>7 DEF PacedSince, Following, candidates, Settled
  <2>8. CASE state = "Ready" /\ state' = "Ready" /\ UNCHANGED candidates
    BY <1>4, <2>8
  <2> QED
    BY <1>5, <2>4, <2>5, <2>6, <2>7, <2>8 DEF Follows, frame
<1> QED
  BY <1>1, <1>4, <1>5 DEF Progress
-----------------------------------------------------------------------------
\* The earliest time a frame that a burst was fired at may have.
Floor(x) == x.issuedAt - PerceptionStaleAfter

\* The inductive invariant: since each burst its event had to clear, and
\* whatever the policy follows by now it found only after that.
SpacedInv ==
  /\ \A x \in bursts :
       /\ x.id < link.nextId \/ link.exhausted
       /\ ClearedSince(x.event, Floor(x))
       /\ PacedSince(Floor(x) + EventClearPersistence)
  /\ BurstsAreSpaced

\* What a burst's record holds.
LEMMA BurstType ==
  ASSUME TypeOK, LatchInv, NEW x \in bursts
  PROVE  /\ x.event \in Nat /\ x.event < nextEventId
         /\ x.issuedAt \in Time /\ x.id \in CommandIds
         /\ Floor(x) \in Int /\ Floor(x) + EventClearPersistence \in Int
<1>1. x \in Command
  BY DEF TypeOK, DeviceOK
<1>2. x.issuedAt \in Time /\ x.id \in CommandIds
  BY <1>1 DEF Command
<1>3. PerceptionStaleAfter \in Nat /\ EventClearPersistence \in Nat
  BY ConfigAssumption
<1> QED
  BY <1>2, <1>3 DEF LatchInv, Floor, Time

\* Every step keeps the old bursts' part of the invariant.
LEMMA StepKeepsFloors ==
  ASSUME TypeOK, LatchInv, SpacedInv, NEW in \in Calls, Step(in), NEW x \in bursts
  PROVE  /\ x.id < link'.nextId \/ link'.exhausted
         /\ ClearedSince(x.event, Floor(x))'
         /\ PacedSince(Floor(x) + EventClearPersistence)'
<1> DEFINE at == Floor(x)
           id == x.event
           late == Floor(x) + EventClearPersistence
<1>1. id \in Nat /\ id < nextEventId /\ at \in Int /\ late \in Int
      /\ x.id \in CommandIds
  BY BurstType
<1>2. ClearedSince(id, at) /\ PacedSince(late) /\ (x.id < link.nextId \/ link.exhausted)
  BY DEF SpacedInv
<1>3. late = at + EventClearPersistence
  OBVIOUS
<1>4. x.id < link'.nextId \/ link'.exhausted
  <2>1. link.nextId <= link'.nextId /\ (link.exhausted => link'.exhausted) /\ link' \in Link
    BY StepFresh DEF Fresh
  <2>2. link.nextId \in CommandIds /\ link'.nextId \in CommandIds
    BY <2>1 DEF Link, TypeOK, DeviceOK
  <2> QED
    BY <1>1, <1>2, <2>1, <2>2 DEF CommandIds
<1>5. \/ UNCHANGED <<inputs, latch>>
      \/ \E e \in {CachedEvent(in), Latched(CachedEvent(in))} : TakeInputs(in, e)
  BY StepCaches DEF Caches, CacheInputs, Firing
<1> HIDE DEF at, id, late
<1>6. ClearedSince(id, at)'
  BY <1>1, <1>2, <1>5, KeepsClearedSince
<1>7. Advancing(in) => in.frame.observedAt >= late
  <2> SUFFICES ASSUME Advancing(in) PROVE in.frame.observedAt >= late
    OBVIOUS
  <2> DEFINE c == CachedEvent(in)
  <2>1. /\ c.active /\ ~c.burstAttempted /\ in.frame \in Perception
        /\ CachedPerception(in) = in.frame
    BY AdvancingEvent
  <2>2. c.id # id
    <3>1. c.id = IF OpensEvent(in) THEN nextEventId ELSE event.id
      BY CachedLatch DEF TypeOK
    <3>2. ~OpensEvent(in) => event.active /\ ~event.burstAttempted
      BY <2>1, CachedLatch DEF TypeOK
    <3>3. event.active /\ event.id = id => event.burstAttempted
      BY DEF LatchInv, id
    <3>4. nextEventId \in Nat
      BY DEF TypeOK, InputsOK
    <3> QED
      BY <1>1, <3>1, <3>2, <3>3, <3>4
  <2>3. Orderly(in)
    BY DEF Advancing, Unblocked, Watching, Cleared, Operating, Controlled, Accepted
  <2>4. PICK e \in {c, Latched(c)} : TakeInputs(in, e)
    BY <2>3, StepCaches DEF Caches, CacheInputs, Firing
  <2>5. event'.id = c.id /\ perception' = in.frame
    <3>1. c \in EventLatch
      BY CachedLatch DEF TypeOK
    <3> QED
      BY <2>1, <2>4, <3>1 DEF TakeInputs, Latched, EventLatch
  <2> QED
    BY <1>6, <2>2, <2>5 DEF ClearedSince, late, at
<1>8. PacedSince(late)'
  BY <1>1, <1>2, <1>7, KeepsPace
<1> QED
  BY <1>4, <1>6, <1>8 DEF at, id, late

\* A step that fires is late enough after every earlier burst, and its own
\* burst starts the next wait.
LEMMA FiringIsSpaced ==
  ASSUME TypeOK, LatchInv, SpacedInv, NEW in \in Calls, Step(in), Firing(in),
         NEW c \in bursts', c \notin bursts
  PROVE  /\ c.id \in CommandIds /\ ~link.exhausted /\ c.id >= link.nextId
         /\ c.id < link'.nextId \/ link'.exhausted
         /\ c.issuedAt = in.now
         /\ ClearedSince(c.event, Floor(c))'
         /\ PacedSince(Floor(c) + EventClearPersistence)'
         /\ \A x \in bursts :
              \/ c.issuedAt - x.issuedAt + PerceptionStaleAfter >=
                   EventClearPersistence + TrackingPersistence + ConfirmationPersistence + AimSettle
              \/ c.issuedAt = MaxTimestamp
<1> DEFINE e == CachedEvent(in)
<1>1. /\ c \in Command /\ c.event = e.id /\ c.issuedAt = in.now
  BY DEF Firing, AddsBurst
<1>2. c.id \in CommandIds /\ in.now \in Time
  BY <1>1, CallType DEF Command
<1>3. \E a \in link'.issued : a.command = c
  BY StepCommits
<1>4. ~link.exhausted /\ c.id >= link.nextId /\ (c.id < link'.nextId \/ link'.exhausted)
  BY <1>3, StepFresh DEF Fresh
<1>5. Advancing(in) /\ state = "Ready" /\ TakeInputs(in, Latched(e)) /\ state' \notin Following
  BY DEF Firing, Following
<1>6. /\ e.active /\ e.clearSince = None /\ in.frame \in Perception /\ e \in EventLatch
      /\ CachedPerception(in) = in.frame
      /\ in.now - in.frame.observedAt <= PerceptionStaleAfter
  BY <1>5, AdvancingEvent, CachedLatch DEF TypeOK
<1>7. /\ event'.active /\ event'.id = c.event /\ event'.clearSince = None
      /\ perception' = in.frame
  BY <1>1, <1>5, <1>6 DEF TakeInputs, Latched, EventLatch
<1>8. in.frame.observedAt \in Time /\ in.frame.observedAt >= Floor(c)
  <2>1. in.frame.observedAt \in Time
    BY <1>6, ShapeType
  <2> QED
    BY <1>1, <1>2, <1>6, <2>1, ConfigAssumption DEF Floor, Time
<1>9. ClearedSince(c.event, Floor(c))'
  <2>1. None \notin Time
    BY NoneAssumption DEF Time
  <2> QED
    BY <1>6, <1>7, <1>8, <2>1 DEF ClearedSince, Floor
<1>10. PacedSince(Floor(c) + EventClearPersistence)'
  BY <1>5 DEF PacedSince, Following
<1>11. ASSUME NEW x \in bursts
       PROVE  \/ c.issuedAt - x.issuedAt + PerceptionStaleAfter >=
                   EventClearPersistence + TrackingPersistence + ConfirmationPersistence + AimSettle
              \/ c.issuedAt = MaxTimestamp
  <2>1. x.issuedAt \in Time
    BY BurstType
  <2>2. {PerceptionStaleAfter, EventClearPersistence, TrackingPersistence,
         ConfirmationPersistence, AimSettle, MaxTimestamp} \subseteq Nat
    BY ConfigAssumption
  <2>3. /\ aimAckedAt \in Time /\ lastNow \in Time /\ Settled(lastNow)
        /\ aimAckedAt >= Floor(x) + EventClearPersistence
                           + TrackingPersistence + ConfirmationPersistence
    BY <1>5 DEF SpacedInv, PacedSince
  <2>4. in.now >= lastNow
    BY <1>5, <2>3, NoneAssumption DEF Advancing, Unblocked, Watching, Cleared, Operating,
         Controlled, Accepted, Orderly, Time
  <2>5. in.now >= SaturatingAdd(aimAckedAt, AimSettle)
    BY <1>2, <2>3, <2>4, StaysSettled DEF Settled, Time
  <2>6. CASE AimSettle > MaxTimestamp - aimAckedAt
    BY <1>1, <1>2, <2>2, <2>5, <2>6 DEF SaturatingAdd, Time
  <2>7. CASE ~(AimSettle > MaxTimestamp - aimAckedAt)
    <3>1. in.now >= aimAckedAt + AimSettle
      BY <2>5, <2>7 DEF SaturatingAdd
    <3> QED
      BY <1>1, <1>2, <2>1, <2>2, <2>3, <3>1 DEF Floor, Time
  <2> QED
    BY <2>6, <2>7
<1> QED
  BY <1>1, <1>2, <1>4, <1>9, <1>10, <1>11
-----------------------------------------------------------------------------
\* One step keeps the invariant.
LEMMA StepKeepsSpacing ==
  ASSUME TypeOK, LatchInv, SpacedInv, NEW in \in Calls, Step(in)
  PROVE  SpacedInv'
<1>1. ASSUME NEW c \in bursts', c \notin bursts PROVE Firing(in)
  <2>1. Plain(in) \/ Firing(in)
    BY StepEffect
  <2> QED
    BY <1>1, <2>1 DEF Plain
<1>2. bursts \subseteq bursts'
  BY StepCommits
<1>3. ASSUME NEW x \in bursts'
      PROVE  /\ x.id < link'.nextId \/ link'.exhausted
             /\ ClearedSince(x.event, Floor(x))'
             /\ PacedSince(Floor(x) + EventClearPersistence)'
  BY <1>1, StepKeepsFloors, FiringIsSpaced
<1>4. ASSUME NEW x \in bursts', NEW y \in bursts', x.id < y.id
      PROVE  \/ y.issuedAt - x.issuedAt + PerceptionStaleAfter >=
                   EventClearPersistence + TrackingPersistence + ConfirmationPersistence + AimSettle
             \/ y.issuedAt = MaxTimestamp
  <2>1. CASE x \in bursts /\ y \in bursts
    BY <1>4, <2>1 DEF SpacedInv, BurstsAreSpaced
  <2>2. CASE x \in bursts /\ y \notin bursts
    BY <1>1, <2>2, FiringIsSpaced
  <2>3. CASE x \notin bursts
    <3>1. Firing(in)
      BY <1>1, <2>3
    <3>2. x.id \in CommandIds /\ ~link.exhausted /\ x.id >= link.nextId
      BY <2>3, <3>1, FiringIsSpaced
    <3>3. ASSUME y \in bursts PROVE FALSE
      <4>1. y.id < link.nextId /\ y.id \in CommandIds
        BY <3>2, <3>3, BurstType DEF SpacedInv
      <4>2. link.nextId \in CommandIds
        BY DEF TypeOK, DeviceOK, Link
      <4> QED
        BY <1>4, <3>2, <4>1, <4>2 DEF CommandIds
    <3>4. y \notin bursts => x = y
      BY <2>3, <3>1 DEF Firing, AddsBurst
    <3> QED
      BY <1>4, <3>2, <3>3, <3>4 DEF CommandIds
  <2> QED
    BY <2>1, <2>2, <2>3
<1> QED
  BY <1>3, <1>4 DEF SpacedInv, BurstsAreSpaced, Floor

\* The invariant holds from the start and is kept by every step.
LEMMA SpacedInvariant == Spec => []SpacedInv
<1>1. Init => SpacedInv
  BY DEF Init, SpacedInv, BurstsAreSpaced
<1>2. TypeOK /\ LatchInv /\ SpacedInv /\ [Next]_vars => SpacedInv'
  <2> SUFFICES ASSUME TypeOK, LatchInv, SpacedInv, [Next]_vars PROVE SpacedInv'
    OBVIOUS
  <2>1. ASSUME NEW status \in DeviceStatuses, DeviceChanges(status) PROVE SpacedInv'
    <3>1. link'.nextId = link.nextId /\ link'.exhausted = link.exhausted
      BY <2>1, QuietType DEF DeviceChanges, Quiet, TypeOK, DeviceOK, Link
    <3>2. UNCHANGED <<state, inputs, latch, candidates, bursts>>
      BY <2>1 DEF DeviceChanges
    <3> QED
      BY <3>1, <3>2 DEF SpacedInv, ClearedSince, PacedSince, Settled, BurstsAreSpaced, Floor,
                        inputs, latch, candidates
  <2>2. CASE UNCHANGED vars
    BY <2>2 DEF vars, SpacedInv, ClearedSince, PacedSince, Settled, BurstsAreSpaced, Floor,
                inputs, latch, candidates
  <2> QED
    BY <2>1, <2>2, StepKeepsSpacing DEF Next
<1> QED
  BY <1>1, <1>2, TypeCorrect, LatchInvariant, PTL DEF Spec

\* policy_engine.cpp, from the clearing of an event (:461-497) to the settled
\* aim (:319-328): two bursts lie as far apart as the clearing of the first event, a
\* new tracking, a new confirmation and a new settled aim need, however the
\* clock, the frames, faults and re-arming interleave. At the clock's last
\* value only, where the aim's deadline saturates, it may be less.
THEOREM BurstsAlwaysSpaced == Spec => []BurstsAreSpaced
BY SpacedInvariant, PTL DEF SpacedInv
-----------------------------------------------------------------------------
(* The observer: every burst is earned *)

\* What the observer has seen is a run that ends with the cached frame.
IsRun(run) ==
  run # None =>
    /\ run \in Run /\ run.first <= run.last /\ run.frames >= 1
    /\ perception \in Perception /\ run.last = perception.observedAt

\* A run of the track that began by then and has so many frames.
Covers(run, track, first, frames) ==
  run # None /\ run.track = track /\ run.first <= first /\ run.frames >= frames

\* The inductive invariant: the engine's candidates never claim more than the
\* observer saw: a confirmation is one behaviour's, an aim has a proven one, and
\* READY waits for a frame after the one that made it so.
EarnedInv ==
  /\ IsRun(seen) /\ IsRun(harming) /\ \A harm \in Harms : IsRun(alike[harm])
  /\ proven \in 0 .. 3
  /\ state = "Tracking" =>
       /\ tracking \in TrackCandidate
       /\ Covers(seen, tracking.track, tracking.startedAt, tracking.frames)
  /\ state \in {"Confirming", "Aiming", "Ready"} =>
       /\ confirmation \in BehaviorCandidate /\ confirmation.frames >= 1
       /\ Covers(seen, confirmation.track, confirmation.startedAt - TrackingPersistence,
               MinTrackingFrames + confirmation.frames - 1)
       /\ Covers(harming, confirmation.track, confirmation.startedAt, confirmation.frames)
  /\ state = "Confirming" =>
       /\ confirmation.behavior \in Harms
       /\ Covers(alike[confirmation.behavior], confirmation.track, confirmation.startedAt,
               confirmation.frames)
  /\ state \in {"Aiming", "Ready"} =>
       /\ proven >= 1
       /\ confirmation.frames >= MinConfirmationFrames
       /\ perception.observedAt - confirmation.startedAt >= ConfirmationPersistence
  /\ state = "Ready" =>
       /\ proven >= 2
       /\ Covers(seen, confirmation.track, confirmation.startedAt - TrackingPersistence,
               MinTrackingFrames + MinConfirmationFrames)
       /\ Covers(harming, confirmation.track, confirmation.startedAt, MinConfirmationFrames + 1)
       /\ readyAfterFrame <= perception.id

\* A qualifying frame extends a run of its track by one, or begins one.
LEMMA ExtendsRun ==
  ASSUME NEW run, IsRun(run), NEW frame \in Perception,
         perception \in Perception => frame.observedAt >= perception.observedAt,
         NEW qualifies \in BOOLEAN, qualifies => frame.shape.track \in Tracks
  PROVE  LET r == Extend(run, frame, qualifies)
         IN  /\ ~qualifies => r = None
             /\ qualifies =>
                  /\ r \in Run /\ r # None /\ r.first <= r.last /\ r.frames >= 1
                  /\ r.track = frame.shape.track /\ r.last = frame.observedAt
             /\ qualifies /\ run # None /\ run.track = frame.shape.track =>
                  r.first = run.first /\ r.frames = run.frames + 1
<1>1. frame.observedAt \in Time
  BY ShapeType
<1>2. CASE ~qualifies
  BY <1>2 DEF Extend
<1>3. CASE qualifies /\ run # None /\ run.track = frame.shape.track
  <2>1. /\ run \in Run /\ run.first <= run.last /\ run.frames >= 1
        /\ perception \in Perception /\ run.last = perception.observedAt
    BY <1>3 DEF IsRun
  <2> DEFINE n == run.frames + 1
             t == frame.observedAt
             r == Extend(run, frame, qualifies)
  <2>2. r = [run EXCEPT !.last = t, !.frames = n]
    BY <1>3 DEF Extend
  <2>3. n \in Nat /\ t \in Time /\ n >= 1
    BY <1>1, <2>1 DEF Run
  <2>4. run.first <= t /\ run.first \in Time
    BY <1>1, <2>1 DEF Run, Time
  <2>5. n = run.frames + 1 /\ t = frame.observedAt
    OBVIOUS
  <2> HIDE DEF n, t, r
  <2>6. /\ r \in Run /\ r.first = run.first /\ r.last = t /\ r.frames = n /\ r.track = run.track
    BY <2>1, <2>2, <2>3 DEF Run
  <2> QED
    BY <1>3, <2>3, <2>4, <2>5, <2>6, NoRunAssumption DEF r
<1>4. CASE qualifies /\ ~(run # None /\ run.track = frame.shape.track)
  <2>1. Extend(run, frame, qualifies) =
          [track |-> frame.shape.track, first |-> frame.observedAt,
           last |-> frame.observedAt, frames |-> 1]
    BY <1>4 DEF Extend
  <2>2. frame.shape.track \in Tracks
    BY <1>4
  <2>3. Extend(run, frame, qualifies) \in Run
    BY <1>1, <2>1, <2>2 DEF Run
  <2> DEFINE r == Extend(run, frame, qualifies)
  <2>4. /\ r.track = frame.shape.track /\ r.first = frame.observedAt
        /\ r.last = frame.observedAt /\ r.frames = 1
    BY <2>1
  <2> HIDE DEF r
  <2>5. r.first <= r.last /\ r.frames >= 1
    BY <1>1, <2>4 DEF Time
  <2> QED
    BY <1>4, <2>3, <2>5, <2>4, NoRunAssumption DEF r
<1> QED
  BY <1>2, <1>3, <1>4

\* A step takes the frame the observer counts, and no other.
LEMMA TakesFrame ==
  ASSUME TypeOK, NEW in \in Calls, Step(in)
  PROVE  /\ Orderly(in) => perception' = CachedPerception(in) /\ lastNow' = in.now
         /\ ~(Orderly(in) /\ FrameIsNew(in)) => perception' = perception
         /\ Orderly(in) /\ FrameIsNew(in) =>
              /\ in.frame \in Perception /\ perception' = in.frame
              /\ perception \in Perception =>
                   in.frame.observedAt >= perception.observedAt /\ in.frame.id > perception.id
<1>1. Orderly(in) => perception' = CachedPerception(in) /\ lastNow' = in.now
  BY StepCaches DEF Caches, CacheInputs, Firing, TakeInputs
<1>2. ~Orderly(in) => perception' = perception
  BY StepCaches DEF Caches, inputs, CacheInputs, Firing
<1>3. ~FrameIsNew(in) => CachedPerception(in) = perception
  BY DEF CachedPerception
<1>4. ASSUME Orderly(in), FrameIsNew(in)
      PROVE  /\ in.frame \in Perception /\ perception' = in.frame
             /\ perception \in Perception =>
                  in.frame.observedAt >= perception.observedAt /\ in.frame.id > perception.id
  <2>1. in.frame \in Perception /\ perception' = in.frame
    BY <1>1, <1>4, CachedType DEF TypeOK
  <2>2. ASSUME perception \in Perception
        PROVE  in.frame.observedAt >= perception.observedAt /\ in.frame.id > perception.id
    <3>1. /\ ~(in.frame.observedAt < perception.observedAt)
          /\ ~(in.frame.id < perception.id) /\ in.frame.id # perception.id
      BY <1>4, <2>2, AbsenceAssumption DEF FrameIsNew, FrameOutOfOrder
    <3>2. {in.frame.observedAt, perception.observedAt, in.frame.id, perception.id} \subseteq Nat
      BY <2>1, <2>2, ShapeType DEF Time, FrameIds
    <3> QED
      BY <3>1, <3>2
  <2> QED
    BY <2>1, <2>2
<1> QED
  BY <1>1, <1>2, <1>3, <1>4

\* The observer's runs end with the cached frame, after every step.
LEMMA KeepsRuns ==
  ASSUME TypeOK, IsRun(seen), IsRun(harming), \A harm \in Harms : IsRun(alike[harm]),
         NEW in \in Calls, Step(in), ObserveFrame(in)
  PROVE  IsRun(seen)' /\ IsRun(harming)' /\ \A harm \in Harms : IsRun(alike[harm])'
<1>1. CASE ~(Orderly(in) /\ FrameIsNew(in))
  <2>1. UNCHANGED <<seen, harming, alike, perception>>
    BY <1>1, TakesFrame DEF ObserveFrame, observation
  <2> QED
    BY <2>1 DEF IsRun
<1>2. CASE Orderly(in) /\ FrameIsNew(in)
  <2> DEFINE frame == in.frame
             ok == Qualifies(frame.shape)
             bad == Damages(frame.shape)
             same(harm) == bad /\ frame.shape.behavior = harm
  <2>1. /\ frame \in Perception /\ perception' = frame
        /\ perception \in Perception => frame.observedAt >= perception.observedAt
    BY <1>2, TakesFrame
  <2>2. ok => frame.shape.track \in Tracks
    BY <2>1, ShapeType DEF Qualifies, ShapeInterlocks, FrameShape
  <2>3. ok \in BOOLEAN /\ bad \in BOOLEAN /\ \A harm : same(harm) \in BOOLEAN
    BY DEF Qualifies, Damages
  <2>4. /\ seen' = Extend(seen, frame, ok) /\ harming' = Extend(harming, frame, bad)
        /\ \A harm \in Harms : alike'[harm] = Extend(alike[harm], frame, same(harm))
    BY <1>2 DEF ObserveFrame
  <2>5. (bad => ok) /\ \A harm : same(harm) => ok
    BY DEF Damages
  <2> HIDE DEF frame, ok, bad, same
  <2>6. ASSUME NEW run, IsRun(run), NEW q \in BOOLEAN, q => ok
        PROVE  LET r == Extend(run, frame, q)
               IN  r # None => /\ r \in Run /\ r.first <= r.last /\ r.frames >= 1
                               /\ r.last = frame.observedAt
    BY <2>1, <2>2, <2>6, ExtendsRun
  <2>7. /\ IsRun(seen)' /\ IsRun(harming)'
    BY <2>1, <2>3, <2>4, <2>5, <2>6 DEF IsRun
  <2>8. ASSUME NEW harm \in Harms PROVE IsRun(alike[harm])'
    BY <2>1, <2>3, <2>4, <2>5, <2>6 DEF IsRun
  <2> QED
    BY <2>7, <2>8
<1> QED
  BY <1>1, <1>2

\* A frame the policy follows adds to what has been seen of its track, and one
\* on target to the harm that has been seen.
LEMMA FollowedIsSeen ==
  ASSUME TypeOK, IsRun(seen), IsRun(harming), \A harm \in Harms : IsRun(alike[harm]),
         NEW in \in Calls, Step(in), ObserveFrame(in), Advancing(in)
  PROVE  /\ perception' = in.frame /\ in.frame \in Perception
         /\ perception \in Perception =>
              in.frame.observedAt >= perception.observedAt /\ in.frame.id > perception.id
         /\ Covers(seen', in.frame.shape.track, in.frame.observedAt, 1)
         /\ \A first, n \in Int :
              Covers(seen, in.frame.shape.track, first, n) =>
                Covers(seen', in.frame.shape.track, first, n + 1)
         /\ HarmfulEvidence(in.frame.shape) =>
              /\ Covers(harming', in.frame.shape.track, in.frame.observedAt, 1)
              /\ \A first, n \in Int :
                   Covers(harming, in.frame.shape.track, first, n) =>
                     Covers(harming', in.frame.shape.track, first, n + 1)
              /\ in.frame.shape.behavior \in Harms
              /\ Covers(alike'[in.frame.shape.behavior], in.frame.shape.track,
                      in.frame.observedAt, 1)
              /\ \A first, n \in Int :
                   Covers(alike[in.frame.shape.behavior], in.frame.shape.track, first, n) =>
                     Covers(alike'[in.frame.shape.behavior], in.frame.shape.track, first, n + 1)
         /\ proven' = CountProven(harming, harming', alike')
<1> DEFINE frame == in.frame
           harm == in.frame.shape.behavior
<1>1. Orderly(in) /\ FrameIsNew(in) /\ frame.shape.track \in Tracks
  BY AdvancingFrame DEF Advancing, Unblocked, Watching, Cleared, Operating, Controlled, Accepted,
     TypeOK
<1>2. /\ frame \in Perception /\ perception' = frame
      /\ perception \in Perception =>
           frame.observedAt >= perception.observedAt /\ frame.id > perception.id
  BY <1>1, TakesFrame
<1>3. Qualifies(frame.shape)
  <2>1. PerceptionInterlocks(in) = {} /\ CachedPerception(in) = frame /\ frame # None
    BY <1>1 DEF Advancing, Unblocked, CachedPerception, FrameIsNew
  <2> QED
    BY <2>1 DEF PerceptionInterlocks, Qualifies
<1>4. /\ seen' = Extend(seen, frame, TRUE)
      /\ HarmfulEvidence(frame.shape) =>
           /\ harming' = Extend(harming, frame, TRUE)
           /\ harm \in Harms /\ alike'[harm] = Extend(alike[harm], frame, TRUE)
      /\ proven' = CountProven(harming, harming', alike')
  <2>1. /\ seen' = Extend(seen, frame, Qualifies(frame.shape))
        /\ harming' = Extend(harming, frame, Damages(frame.shape))
        /\ \A b \in Harms :
             alike'[b] = Extend(alike[b], frame, Damages(frame.shape) /\ frame.shape.behavior = b)
        /\ proven' = CountProven(harming, harming', alike')
    BY <1>1 DEF ObserveFrame
  <2>2. Qualifies(frame.shape) = TRUE
    BY <1>3 DEF Qualifies
  <2>3. HarmfulEvidence(frame.shape) =>
          /\ Damages(frame.shape) = TRUE /\ harm \in Harms
          /\ (Damages(frame.shape) /\ frame.shape.behavior = harm) = TRUE
    BY <2>2 DEF Damages, HarmfulEvidence, Harms
  <2> QED
    BY <2>1, <2>2, <2>3
<1>5. frame.observedAt \in Nat
  BY <1>2, ShapeType DEF Time
<1>6. ASSUME NEW run, IsRun(run)
      PROVE  LET r == Extend(run, frame, TRUE)
             IN  /\ Covers(r, frame.shape.track, frame.observedAt, 1)
                 /\ \A first, n \in Int :
                      Covers(run, frame.shape.track, first, n) =>
                        Covers(r, frame.shape.track, first, n + 1)
  <2> DEFINE r == Extend(run, frame, TRUE)
  <2>1. run # None => run \in Run
    BY <1>6 DEF IsRun
  <2>2. run \in Run => run.frames \in Int
    BY DEF Run
  <2>3. /\ r # None /\ r.track = frame.shape.track /\ r.last = frame.observedAt
        /\ r \in Run /\ r.first <= r.last /\ r.frames >= 1
        /\ run # None /\ run.track = frame.shape.track =>
             r.first = run.first /\ r.frames = run.frames + 1 /\ run.frames \in Int
    <3> HIDE DEF frame
    <3> QED
      BY <1>1, <1>2, <1>6, <2>1, <2>2, ExtendsRun
  <2> HIDE DEF frame, r
  <2>4. Covers(r, frame.shape.track, frame.observedAt, 1)
    BY <2>3 DEF Covers
  <2>5. ASSUME NEW first \in Int, NEW n \in Int, Covers(run, frame.shape.track, first, n)
        PROVE  Covers(r, frame.shape.track, first, n + 1)
    BY <2>3, <2>5 DEF Covers
  <2> QED
    BY <2>4, <2>5 DEF r
<1> HIDE DEF frame, harm
<1>7. /\ Covers(seen', frame.shape.track, frame.observedAt, 1)
      /\ \A first, n \in Int :
           Covers(seen, frame.shape.track, first, n) =>
             Covers(seen', frame.shape.track, first, n + 1)
  BY <1>4, <1>6
<1>8. HarmfulEvidence(frame.shape) =>
        /\ Covers(harming', frame.shape.track, frame.observedAt, 1)
        /\ \A first, n \in Int :
             Covers(harming, frame.shape.track, first, n) =>
               Covers(harming', frame.shape.track, first, n + 1)
  BY <1>4, <1>6
<1>9. HarmfulEvidence(frame.shape) =>
        /\ harm \in Harms
        /\ Covers(alike'[harm], frame.shape.track, frame.observedAt, 1)
        /\ \A first, n \in Int :
             Covers(alike[harm], frame.shape.track, first, n) =>
               Covers(alike'[harm], frame.shape.track, first, n + 1)
  BY <1>4, <1>6
<1> QED
  BY <1>2, <1>4, <1>7, <1>8, <1>9 DEF frame, harm

\* Who covers more covers less.
LEMMA CoversLess ==
  ASSUME NEW run, run # None => run \in Run, NEW track, NEW first \in Int, NEW frames \in Int,
         NEW later \in Int, NEW fewer \in Int, first <= later, fewer <= frames,
         Covers(run, track, first, frames)
  PROVE  Covers(run, track, later, fewer)
<1>1. run.first \in Int /\ run.frames \in Int
  BY DEF Covers, Run, Time
<1> QED
  BY <1>1 DEF Covers

\* One step keeps the invariant.
LEMMA StepKeepsEarned ==
  ASSUME TypeOK, EarnedInv, NEW in \in Calls, Step(in), ObserveFrame(in)
  PROVE  EarnedInv'
<1>1. /\ IsRun(seen)' /\ IsRun(harming)' /\ \A harm \in Harms : IsRun(alike[harm])'
      /\ (seen' # None => seen' \in Run) /\ (harming' # None => harming' \in Run)
      /\ \A harm \in Harms : alike'[harm] # None => alike'[harm] \in Run
      /\ proven' \in 0 .. 3
  <2>1. /\ IsRun(seen)' /\ IsRun(harming)' /\ \A harm \in Harms : IsRun(alike[harm])'
    BY KeepsRuns DEF EarnedInv
  <2>2. proven' \in 0 .. 3
    BY DEF EarnedInv, ObserveFrame, CountProven, observation
  <2> QED
    BY <2>1, <2>2 DEF IsRun
<1> SUFFICES ASSUME state' \in Following PROVE EarnedInv'
  BY <1>1 DEF EarnedInv, Following
<1>2. Progress(in)
  BY StepProgress
<1>3. CASE Unblocked(in) /\ ~FrameIsNew(in) /\ UNCHANGED <<state, candidates, readyAfterFrame>>
  <2>1. UNCHANGED <<observation, perception>>
    BY <1>3, TakesFrame DEF ObserveFrame
  <2> QED
    BY <1>1, <1>3, <2>1 DEF EarnedInv, candidates, observation
<1>4. CASE Advancing(in) /\ Follows(in)
  <2> DEFINE frame == in.frame
             track == in.frame.shape.track
             at == in.frame.observedAt
             harm == in.frame.shape.behavior
  <2>1. {TrackingPersistence, ConfirmationPersistence, MinTrackingFrames,
         MinConfirmationFrames} \subseteq Nat
    BY ConfigAssumption
  <2>2. /\ perception' = frame /\ frame \in Perception
        /\ perception \in Perception => at >= perception.observedAt /\ frame.id > perception.id
        /\ Covers(seen', track, at, 1)
        /\ \A first, n \in Int : Covers(seen, track, first, n) => Covers(seen', track, first, n + 1)
        /\ HarmfulEvidence(frame.shape) =>
             /\ Covers(harming', track, at, 1)
             /\ \A first, n \in Int :
                  Covers(harming, track, first, n) => Covers(harming', track, first, n + 1)
             /\ harm \in Harms /\ Covers(alike'[harm], track, at, 1)
             /\ \A first, n \in Int :
                  Covers(alike[harm], track, first, n) => Covers(alike'[harm], track, first, n + 1)
        /\ proven' = CountProven(harming, harming', alike')
    BY <1>4, FollowedIsSeen DEF EarnedInv
  <2>3. at \in Nat /\ frame.id \in Nat
    BY <2>2, ShapeType DEF Time, FrameIds
  <2>4. /\ BeginTracking(frame) \in TrackCandidate /\ BeginTracking(frame).track = track
        /\ BeginTracking(frame).startedAt = at /\ BeginTracking(frame).frames = 1
        /\ BeginConfirmation(frame) \in BehaviorCandidate
        /\ BeginConfirmation(frame).track = track /\ BeginConfirmation(frame).behavior = harm
        /\ BeginConfirmation(frame).startedAt = at /\ BeginConfirmation(frame).frames = 1
    BY <1>4, AdvancingFrame DEF TypeOK, BeginTracking, BeginConfirmation
  <2>5. /\ tracking \in TrackCandidate =>
             /\ Advance(tracking, frame) \in TrackCandidate
             /\ Advance(tracking, frame).track = tracking.track
             /\ Advance(tracking, frame).startedAt = tracking.startedAt
             /\ Advance(tracking, frame).latestAt = at
             /\ Advance(tracking, frame).frames \in {tracking.frames, tracking.frames + 1}
        /\ confirmation \in BehaviorCandidate =>
             /\ Advance(confirmation, frame) \in BehaviorCandidate
             /\ Advance(confirmation, frame).track = confirmation.track
             /\ Advance(confirmation, frame).behavior = confirmation.behavior
             /\ Advance(confirmation, frame).startedAt = confirmation.startedAt
             /\ Advance(confirmation, frame).latestAt = at
             /\ Advance(confirmation, frame).frames \in {confirmation.frames, confirmation.frames + 1}
    BY <2>2, AdvanceType DEF Advance, TrackCandidate, BehaviorCandidate
  <2>6. /\ tracking \in TrackCandidate => tracking.startedAt \in Nat /\ tracking.frames \in Nat
        /\ confirmation \in BehaviorCandidate =>
             confirmation.startedAt \in Nat /\ confirmation.frames \in Nat
    BY DEF TrackCandidate, BehaviorCandidate, Time
  <2> HIDE DEF frame, track, at, harm
  <2>7. CASE state' = "Tracking" /\ tracking' = BeginTracking(frame)
    BY <1>1, <2>2, <2>4, <2>7 DEF EarnedInv
  <2>8. CASE /\ state = "Tracking" /\ state' \in {"Tracking", "Confirming"}
             /\ SameTrack(tracking, frame.shape)
             /\ tracking' = Advance(tracking, frame)
             /\ state' = "Confirming" =>
                  /\ TrackingIsPersistent(tracking') /\ HarmfulEvidence(frame.shape)
                  /\ confirmation' = BeginConfirmation(frame)
    <3> DEFINE first == tracking.startedAt
               n == tracking.frames
               m == tracking'.frames
    <3>1. /\ tracking \in TrackCandidate /\ tracking.track = track
          /\ Covers(seen, track, first, n)
      BY <2>8 DEF EarnedInv, SameTrack, track, frame
    <3>2. first \in Nat /\ n \in Nat /\ m \in {n, n + 1}
      BY <2>5, <2>6, <2>8, <3>1
    <3>3. /\ tracking' \in TrackCandidate /\ tracking'.track = track
          /\ tracking'.startedAt = first /\ tracking'.latestAt = at
      BY <2>5, <2>8, <3>1
    <3> HIDE DEF first, n, m
    <3>4. Covers(seen', track, first, n + 1) /\ m <= n + 1 /\ m \in Nat
      BY <2>2, <3>1, <3>2
    <3>5. Covers(seen', track, first, m)
      BY <1>1, <3>2, <3>4, CoversLess DEF m
    <3>6. CASE state' = "Tracking"
      BY <1>1, <3>3, <3>5, <3>6 DEF EarnedInv, m
    <3>7. CASE state' = "Confirming"
      <4>1. first <= at - TrackingPersistence /\ MinTrackingFrames <= m
        BY <2>1, <2>3, <2>8, <3>2, <3>3, <3>7 DEF TrackingIsPersistent, Persistent, m
      <4>2. Covers(seen', track, at - TrackingPersistence, MinTrackingFrames + 1 - 1)
        BY <1>1, <2>1, <2>3, <3>2, <3>4, <3>5, <4>1, CoversLess
      <4>3. Covers(harming', track, at, 1) /\ harm \in Harms /\ Covers(alike'[harm], track, at, 1)
        BY <2>2, <2>8, <3>7
      <4> QED
        BY <1>1, <2>4, <2>8, <3>7, <4>2, <4>3 DEF EarnedInv
    <3> QED
      BY <2>8, <3>6, <3>7
  <2>9. CASE /\ state \in {"Confirming", "Aiming"} /\ state' \in {"Confirming", "Aiming", "Ready"}
             /\ OnTarget(frame.shape)
             /\ \/ /\ state = "Confirming" /\ confirmation' = Advance(confirmation, frame)
                   /\ SameConfirmation(confirmation, frame.shape)
                   /\ state' # "Ready"
                   /\ state' = "Aiming" => ConfirmationIsPersistent(confirmation')
                \/ /\ state = "Aiming" /\ UNCHANGED candidates /\ state' # "Confirming"
                   /\ state' = "Ready" => readyAfterFrame' = frame.id
    <3> DEFINE first == confirmation.startedAt
               n == confirmation.frames
               m == confirmation'.frames
               begun == first - TrackingPersistence
    <3>1. /\ confirmation \in BehaviorCandidate /\ confirmation.track = track /\ n >= 1
          /\ Covers(seen, track, begun, MinTrackingFrames + n - 1)
          /\ Covers(harming, track, first, n)
          /\ HarmfulEvidence(frame.shape)
          /\ state = "Confirming" =>
               confirmation.behavior = harm /\ Covers(alike[harm], track, first, n)
      BY <2>9 DEF EarnedInv, OnTarget, SameConfirmation, SameTrack, track, harm, frame
    <3>2. first \in Nat /\ n \in Nat /\ begun \in Int
      BY <2>1, <2>6, <3>1
    <3>3. /\ confirmation' \in BehaviorCandidate /\ confirmation'.track = track
          /\ confirmation'.startedAt = first /\ m \in {n, n + 1}
      BY <2>5, <2>9, <3>1 DEF candidates
    <3> HIDE DEF first, n, m, begun
    <3>4. /\ Covers(seen', track, begun, MinTrackingFrames + n)
          /\ Covers(harming', track, first, n + 1)
          /\ state = "Confirming" => Covers(alike'[harm], track, first, n + 1)
      <4>1. MinTrackingFrames + n - 1 \in Int /\ (MinTrackingFrames + n - 1) + 1 = MinTrackingFrames + n
        BY <2>1, <3>2
      <4> QED
        BY <2>2, <3>1, <3>2, <4>1
    <3>5. /\ Covers(seen', track, begun, MinTrackingFrames + m - 1)
          /\ Covers(harming', track, first, m)
          /\ state = "Confirming" => Covers(alike'[harm], track, first, m)
          /\ m >= 1 /\ m \in Nat
      <4>1. /\ m >= 1 /\ m \in Nat /\ m <= n + 1 /\ MinTrackingFrames + m - 1 \in Int
            /\ MinTrackingFrames + m - 1 <= MinTrackingFrames + n
            /\ MinTrackingFrames + n \in Int /\ begun <= begun /\ first <= first
        BY <2>1, <3>1, <3>2, <3>3
      <4> QED
        BY <1>1, <2>2, <3>1, <3>2, <3>4, <4>1, CoversLess
    <3>6. state' \in {"Aiming", "Ready"} =>
            m >= MinConfirmationFrames /\ at - first >= ConfirmationPersistence
      <4>1. CASE state = "Confirming"
        BY <2>5, <2>9, <3>1, <3>3, <4>1 DEF ConfirmationIsPersistent, Persistent, m
      <4>2. CASE state = "Aiming"
        <5>1. n >= MinConfirmationFrames /\ perception.observedAt - first >= ConfirmationPersistence
          BY <4>2 DEF EarnedInv, n, first
        <5>2. perception \in Perception
          BY <3>1 DEF EarnedInv, Covers, IsRun
        <5>3. at >= perception.observedAt /\ perception.observedAt \in Nat
          BY <2>2, <5>2, ShapeType DEF Time
        <5>4. m = n
          BY <2>9, <4>2 DEF candidates, m, n
        <5> QED
          BY <2>1, <2>3, <3>2, <5>1, <5>3, <5>4
      <4> QED
        BY <2>9, <4>1, <4>2
    <3>7. state' = "Ready" =>
            /\ Covers(seen', track, begun, MinTrackingFrames + MinConfirmationFrames)
            /\ Covers(harming', track, first, MinConfirmationFrames + 1)
            /\ readyAfterFrame' <= perception'.id
      <4> SUFFICES ASSUME state' = "Ready"
                   PROVE  /\ Covers(seen', track, begun, MinTrackingFrames + MinConfirmationFrames)
                          /\ Covers(harming', track, first, MinConfirmationFrames + 1)
                          /\ readyAfterFrame' <= perception'.id
        OBVIOUS
      <4>1. state = "Aiming" /\ readyAfterFrame' = frame.id /\ n >= MinConfirmationFrames
        BY <2>9 DEF EarnedInv, n
      <4>2. /\ MinTrackingFrames + MinConfirmationFrames <= MinTrackingFrames + n
            /\ MinConfirmationFrames + 1 <= n + 1 /\ begun <= begun /\ first <= first
            /\ {MinTrackingFrames + MinConfirmationFrames, MinTrackingFrames + n, n + 1,
                MinConfirmationFrames + 1} \subseteq Int
        BY <2>1, <3>2, <4>1
      <4> QED
        BY <1>1, <2>2, <2>3, <3>2, <3>4, <4>1, <4>2, CoversLess
    <3>8. /\ state' \in {"Aiming", "Ready"} => proven' >= 1
          /\ state' = "Ready" => proven' >= 2
      <4>1. harming # None /\ harming' # None /\ harming.track = harming'.track
        BY <3>1, <3>4 DEF Covers
      <4>2. CASE proven >= 1
        BY <1>1, <2>2, <4>1, <4>2 DEF CountProven, EarnedInv
      <4>3. CASE proven < 1 /\ state' \in {"Aiming", "Ready"}
        <5>1. state = "Confirming" /\ state' = "Aiming"
          BY <2>9, <4>3 DEF EarnedInv
        <5>2. Covers(alike'[harm], track, first, m) /\ harm \in Harms
          BY <2>2, <3>1, <3>5, <5>1
        <5>3. /\ alike'[harm] \in Run /\ alike'[harm].last = at
              /\ alike'[harm].first \in Nat /\ alike'[harm].frames \in Nat
          BY <1>1, <2>2, <5>2 DEF IsRun, Covers, Run, Time, at, frame
        <5>4. Lasted(alike'[harm], ConfirmationPersistence, MinConfirmationFrames)
          BY <2>1, <2>3, <3>2, <3>5, <3>6, <4>3, <5>2, <5>3 DEF Covers, Lasted
        <5> QED
          BY <2>2, <4>1, <4>3, <5>1, <5>2, <5>4 DEF CountProven, LongAlike, EarnedInv
      <4> QED
        BY <2>9, <4>2, <4>3 DEF EarnedInv
    <3>9. state' = "Confirming" =>
            confirmation'.behavior \in Harms /\ Covers(alike'[confirmation'.behavior], track, first, m)
      BY <2>2, <2>5, <2>9, <3>1, <3>5
    <3> QED
      BY <1>1, <2>2, <2>9, <3>3, <3>5, <3>6, <3>7, <3>8, <3>9 DEF EarnedInv, m, begun, at, frame
  <2>10. CASE state = "Ready" /\ frame.id <= readyAfterFrame
    <3>1. readyAfterFrame <= perception.id /\ perception \in Perception
      BY <2>10 DEF EarnedInv, Covers, IsRun
    <3>2. perception.id \in Nat /\ readyAfterFrame \in Nat
      BY <3>1, ShapeType DEF FrameIds, TypeOK, FiringOK
    <3> QED
      BY <2>2, <2>3, <2>10, <3>1, <3>2
  <2> QED
    BY <1>4, <2>7, <2>8, <2>9, <2>10 DEF Follows, frame, firing
<1> QED
  BY <1>2, <1>3, <1>4 DEF Progress

\* The observer does not disturb the engine.
LEMMA ObservedStep == ObserverNext => Next
BY DEF ObserverNext, Next

LEMMA ObservedTypeCorrect == ObserverSpec => []TypeOK
<1>1. [ObserverNext]_observed => [Next]_vars
  BY ObservedStep DEF observed
<1> QED
  BY <1>1, TypeCorrect, PTL DEF ObserverSpec, ObserverInit, Spec

\* The invariant holds from the start and is kept by every step.
LEMMA EarnedInvariant == ObserverSpec => []EarnedInv
<1>1. ObserverInit => EarnedInv
  BY DEF ObserverInit, Init, EarnedInv, IsRun
<1>2. TypeOK /\ EarnedInv /\ [ObserverNext]_observed => EarnedInv'
  <2> SUFFICES ASSUME TypeOK, EarnedInv, [ObserverNext]_observed PROVE EarnedInv'
    OBVIOUS
  <2>1. ASSUME NEW status \in DeviceStatuses, DeviceChanges(status), UNCHANGED observation
        PROVE  EarnedInv'
    BY <2>1 DEF DeviceChanges, inputs, candidates, firing, observation, EarnedInv, IsRun
  <2>2. CASE UNCHANGED observed
    BY <2>2 DEF observed, observation, vars, inputs, candidates, firing, EarnedInv, IsRun
  <2> QED
    BY <2>1, <2>2, StepKeepsEarned DEF ObserverNext
<1> QED
  BY <1>1, <1>2, ObservedTypeCorrect, PTL DEF ObserverSpec

\* The frame that fires completes the evidence.
LEMMA FiringIsEarned ==
  ASSUME TypeOK, EarnedInv, NEW in \in Calls, Step(in), ObserveFrame(in), Firing(in)
  PROVE  /\ proven' = 3
         /\ Lasted(harming', ConfirmationPersistence, MinConfirmationFrames + 2)
         /\ Lasted(seen', TrackingPersistence + ConfirmationPersistence,
                   MinTrackingFrames + MinConfirmationFrames + 1)
         /\ harming'.track = seen'.track
<1> DEFINE track == in.frame.shape.track
           at == in.frame.observedAt
           first == confirmation.startedAt
           begun == first - TrackingPersistence
<1>1. /\ state = "Ready" /\ Advancing(in) /\ OnTarget(in.frame.shape)
      /\ confirmation \in BehaviorCandidate /\ confirmation.track = track
      /\ Covers(seen, track, begun, MinTrackingFrames + MinConfirmationFrames)
      /\ Covers(harming, track, first, MinConfirmationFrames + 1)
      /\ perception.observedAt - first >= ConfirmationPersistence
      /\ perception \in Perception /\ proven \in 2 .. 3
  BY DEF Firing, EarnedInv, OnTarget, SameTrack, Covers, IsRun
<1>2. {TrackingPersistence, ConfirmationPersistence, MinTrackingFrames,
       MinConfirmationFrames} \subseteq Nat
  BY ConfigAssumption
<1>3. first \in Nat /\ perception.observedAt \in Nat /\ begun \in Int
  BY <1>1, <1>2, ShapeType DEF BehaviorCandidate, Time
<1>4. /\ in.frame \in Perception /\ perception' = in.frame /\ at >= perception.observedAt
      /\ Covers(seen', track, begun, MinTrackingFrames + MinConfirmationFrames + 1)
      /\ Covers(harming', track, first, MinConfirmationFrames + 2)
      /\ proven' = CountProven(harming, harming', alike')
  <2>1. {MinTrackingFrames + MinConfirmationFrames, MinConfirmationFrames + 1} \subseteq Int
        /\ (MinConfirmationFrames + 1) + 1 = MinConfirmationFrames + 2
    BY <1>2
  <2>2. HarmfulEvidence(in.frame.shape)
    BY <1>1 DEF OnTarget
  <2> HIDE DEF first, begun
  <2> QED
    BY <1>1, <1>3, <2>1, <2>2, FollowedIsSeen DEF EarnedInv
<1>5. at \in Nat
  BY <1>4, ShapeType DEF Time
<1>6. /\ seen' \in Run /\ seen'.last = at /\ harming' \in Run /\ harming'.last = at
  BY <1>4, KeepsRuns DEF EarnedInv, IsRun, Covers
<1>7. seen'.first \in Nat /\ harming'.first \in Nat
  BY <1>6 DEF Run, Time
<1>8. /\ seen'.first <= first - TrackingPersistence /\ harming'.first <= first
      /\ seen'.frames >= MinTrackingFrames + MinConfirmationFrames + 1
      /\ harming'.frames >= MinConfirmationFrames + 2
      /\ seen' # None /\ harming' # None /\ seen'.track = harming'.track
  BY <1>4 DEF Covers
<1>9. at - first >= ConfirmationPersistence
  BY <1>1, <1>2, <1>3, <1>4, <1>5
<1>11. proven' = 3
  BY <1>1, <1>4 DEF CountProven, Covers
<1> HIDE DEF at, first, begun, track
<1>10. /\ harming'.last - harming'.first >= ConfirmationPersistence
       /\ seen'.last - seen'.first >= TrackingPersistence + ConfirmationPersistence
  BY <1>2, <1>3, <1>5, <1>6, <1>7, <1>8, <1>9
<1> QED
  BY <1>8, <1>10, <1>11 DEF Lasted

\* README.md:59, "confirms persistence and checks safety interlocks"
\* (policy_engine.cpp:235-365): every burst is earned. Whatever is lost, late
\* or repeated, the frames the engine accepted before it show one track without
\* a break: in view for the whole tracking period, in one and the same harmful
\* behaviour for the confirmation, and harmful in two frames more.
THEOREM BurstsAreEarned == ObserverSpec => BurstIsEarned
<1>1. TypeOK /\ EarnedInv /\ [ObserverNext]_observed =>
        [bursts' # bursts =>
           /\ proven' = 3
           /\ Lasted(harming', ConfirmationPersistence, MinConfirmationFrames + 2)
           /\ Lasted(seen', TrackingPersistence + ConfirmationPersistence,
                     MinTrackingFrames + MinConfirmationFrames + 1)
           /\ harming'.track = seen'.track]_observed
  <2> SUFFICES ASSUME TypeOK, EarnedInv, ObserverNext, bursts' # bursts
               PROVE  /\ proven' = 3
                      /\ Lasted(harming', ConfirmationPersistence, MinConfirmationFrames + 2)
                      /\ Lasted(seen', TrackingPersistence + ConfirmationPersistence,
                                MinTrackingFrames + MinConfirmationFrames + 1)
                      /\ harming'.track = seen'.track
    OBVIOUS
  <2>1. PICK in \in Calls : Step(in) /\ ObserveFrame(in)
    BY DeviceEffect DEF ObserverNext
  <2>2. Firing(in)
    BY <2>1, StepEffect DEF Plain
  <2> QED
    BY <2>1, <2>2, FiringIsEarned
<1> QED
  BY <1>1, ObservedTypeCorrect, EarnedInvariant, PTL DEF ObserverSpec, BurstIsEarned
=============================================================================
