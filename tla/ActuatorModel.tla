---------------------------- MODULE ActuatorModel ----------------------------
(***************************************************************************)
(* The actuator boundary the policy talks to: the status an IActuator      *)
(* reports, what the mock adapter answers to a command in a given status,  *)
(* and what an acknowledged command changes.  Pure operators, shared by    *)
(* the policy engine and by the mock's own state machine.                  *)
(***************************************************************************)
EXTENDS Naturals

CONSTANT None              \* the empty optional: no track, no preset, no time

ASSUME NoneAssumption == None \notin Nat

\* Action types the policy sends.  The remaining types of the enumeration
\* (Home, PanLeft, ..., Status) are handled by the mock exactly like Hold.
ActionTypes == {"Arm", "Disarm", "GotoPreset", "Hold", "Burst", "EmergencyStop"}

ActionStatuses == {"Acknowledged", "Denied", "Failed", "TimedOut"}

ActuatorStatus == [connected : BOOLEAN, ready : BOOLEAN, armed : BOOLEAN,
                   emergencyStop : BOOLEAN, fault : BOOLEAN]

HealthyStatus == [connected |-> TRUE, ready |-> TRUE, armed |-> FALSE,
                  emergencyStop |-> FALSE, fault |-> FALSE]

\* Commands that make the device safer are accepted whatever its health.
FailClosed(type) == type \in {"Disarm", "EmergencyStop"}

\* A command the device has no use for: aiming or firing while disarmed, an
\* aim without a preset, a burst without a duration.
Unusable(status, command) ==
  \/ command.type \in {"GotoPreset", "Burst"} /\ ~status.armed
  \/ command.type = "GotoPreset" /\ command.target = None
  \/ command.type = "Burst" /\ command.duration = 0

DefaultResult(status, command) ==
  LET guarded == ~FailClosed(command.type)
  IN  IF ~status.connected                                    THEN "TimedOut"
      ELSE IF guarded /\ status.fault                         THEN "Failed"
      ELSE IF guarded /\ (~status.ready \/ status.emergencyStop) THEN "Denied"
      ELSE IF Unusable(status, command)                       THEN "Denied"
      ELSE "Acknowledged"

\* apply_acknowledged_effect: the other commands leave the status alone.
AcknowledgedEffect(status, type) ==
  [status EXCEPT !.armed = (type = "Arm") \/ (@ /\ ~FailClosed(type)),
                 !.emergencyStop = (type = "EmergencyStop") \/ (@ /\ type # "Disarm")]

\* A caller of the mock may script the next answer to a command; otherwise
\* the device's own status decides.
Replies == ActionStatuses \cup {"Default"}

Outcome(status, command, reply) ==
  IF reply = "Default" THEN DefaultResult(status, command) ELSE reply

StatusAfter(status, command, reply) ==
  IF Outcome(status, command, reply) = "Acknowledged"
  THEN AcknowledgedEffect(status, command.type)
  ELSE status
=============================================================================
