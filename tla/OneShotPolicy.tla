---------------------------- MODULE OneShotPolicy ----------------------------
(***************************************************************************)
(* What the safety policy promises, without clocks, frames or commands:    *)
(* incidents open and close one at a time, an operator and faults decide   *)
(* whether the policy may act, and while it may act it shoots at most once *)
(* in an incident that is open.                                            *)
(***************************************************************************)
EXTENDS Naturals

CONSTANT ShotIds       \* what tells one shot from another

VARIABLES
  acting,        \* the policy is neither disarmed nor faulted
  incident,      \* number of the open incident, 0 when there is none
  opened,        \* how many incidents were ever opened
  spent,         \* the open incident had its shot
  shots          \* pairs <<incident, shot id>>

oneShotVars == <<acting, incident, opened, spent, shots>>

OneShotInit ==
  acting = FALSE /\ incident = 0 /\ opened = 0 /\ spent = FALSE /\ shots = {}

\* Anything may happen to the permission to act, also together with a shot.
ChangeMode == acting' \in BOOLEAN

OpenIncident ==
  /\ incident = 0
  /\ opened' = opened + 1 /\ incident' = opened + 1
  /\ spent' = FALSE

CloseIncident ==
  /\ incident # 0
  /\ incident' = 0 /\ spent' = FALSE
  /\ UNCHANGED opened

KeepIncident == UNCHANGED <<incident, opened, spent>>

Observe ==
  /\ OpenIncident \/ CloseIncident \/ KeepIncident
  /\ ChangeMode
  /\ UNCHANGED shots

\* The shot is spent before the device is reached, so it may never go off.
Shoot ==
  /\ acting /\ incident # 0 /\ ~spent
  /\ spent' = TRUE
  /\ \/ UNCHANGED shots
     \/ \E id \in ShotIds : shots' = shots \cup {<<incident, id>>}
  /\ ChangeMode
  /\ UNCHANGED <<incident, opened>>

OneShotNext == Observe \/ Shoot

OneShotSpec == OneShotInit /\ [][OneShotNext]_oneShotVars
=============================================================================
