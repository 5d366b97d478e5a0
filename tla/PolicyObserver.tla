---------------------------- MODULE PolicyObserver ----------------------------
(***************************************************************************)
(* PolicyEngine watched by an independent observer that sees the accepted  *)
(* frames only, never the engine's candidates or states: how long has one  *)
(* track been visible without an interlock, and how long harmful?          *)
(***************************************************************************)
EXTENDS PolicyEngine

VARIABLES
  seen,        \* the unbroken run of frames showing one track, unblocked
  harming,     \* the unbroken run of frames showing it harmful as well
  alike,       \* for each harmful behaviour: the run showing it in just that one
  proven       \* how many frames of harming came since one behaviour had lasted

observation == <<seen, harming, alike, proven>>
observed == <<vars, observation>>

\* A run of frames of one track: its first and last time and its length.
Run == [track : Tracks, first : Time, last : Time, frames : Nat]

ASSUME NoRunAssumption == None \notin Run

Extend(run, frame, qualifies) ==
  IF ~qualifies THEN None
  ELSE IF run # None /\ run.track = frame.shape.track
  THEN [run EXCEPT !.last = frame.observedAt, !.frames = @ + 1]
  ELSE [track |-> frame.shape.track, first |-> frame.observedAt,
        last |-> frame.observedAt, frames |-> 1]

Qualifies(shape) == ShapeInterlocks(shape) = {}
Damages(shape) == Qualifies(shape) /\ HarmfulEvidence(shape)

Lasted(run, period, frames) ==
  run # None /\ run.last - run.first >= period /\ run.frames >= frames

Harms == {"Eating", "Digging"}

\* One behaviour of this frame's track has lasted as long as a confirmation.
LongAlike(runs) ==
  \E harm \in Harms : Lasted(runs[harm], ConfirmationPersistence, MinConfirmationFrames)

\* The first frame that completes a confirmation, and those of the run after
\* it; the third is enough for all that is claimed.
CountProven(before, after, runs) ==
  LET goesOn == before # None /\ before.track = after.track
  IN  IF after = None THEN 0
      ELSE IF goesOn /\ proven > 0 THEN IF proven = 3 THEN 3 ELSE proven + 1
      ELSE IF LongAlike(runs) THEN 1 ELSE 0

ObserveFrame(in) ==
  IF Orderly(in) /\ FrameIsNew(in)
  THEN LET shape == in.frame.shape
       IN  /\ seen' = Extend(seen, in.frame, Qualifies(shape))
           /\ harming' = Extend(harming, in.frame, Damages(shape))
           /\ alike' = [harm \in Harms |->
                          Extend(alike[harm], in.frame, Damages(shape) /\ shape.behavior = harm)]
           /\ proven' = CountProven(harming, harming', alike')
  ELSE UNCHANGED observation

ObserverInit ==
  /\ Init /\ seen = None /\ harming = None
  /\ alike = [harm \in Harms |-> None] /\ proven = 0

ObserverNext ==
  \/ \E in \in Calls : Step(in) /\ ObserveFrame(in)
  \/ /\ \E status \in DeviceStatuses : DeviceChanges(status)
     /\ UNCHANGED observation

ObserverSpec == ObserverInit /\ [][ObserverNext]_observed
-----------------------------------------------------------------------------
\* A burst is earned: just before it, one and the same track was harmful in an
\* unbroken run of new frames, of which a stretch in one and the same behaviour
\* was long enough for the confirmation; the frame that made the policy ready
\* and the one that fires came after it (they may show the other behaviour).
\* The track had been in view, unblocked, for the whole tracking period before.
BurstIsEarned ==
  [][bursts' # bursts =>
       /\ proven' = 3
       /\ Lasted(harming', ConfirmationPersistence, MinConfirmationFrames + 2)
       /\ Lasted(seen', TrackingPersistence + ConfirmationPersistence,
                 MinTrackingFrames + MinConfirmationFrames + 1)
       /\ harming'.track = seen'.track]_observed
=============================================================================
