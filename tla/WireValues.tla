----------------------------- MODULE WireValues -----------------------------
(***************************************************************************)
(* The numbers of the JSON contracts (common.schema.json, and the checks   *)
(* of the shadow package's contracts.py): safe integers, and numbers from  *)
(* 0.0 to 1.0 on a grid of WireSteps.                                      *)
(***************************************************************************)
EXTENDS Integers

CONSTANTS
  MaxSafeInteger,      \* 2^53 - 1 in the code
  WireSteps            \* 1.0 (10^6 steps: what perception writes has six digits)

ASSUME WireAssumption == MaxSafeInteger \in Nat /\ WireSteps \in Nat \ {0}

SafeInteger == 0 .. MaxSafeInteger
Ratio == 0 .. WireSteps

\* A box is positive and inside the image.
InsideImage(box) ==
  /\ box.x \in Ratio /\ box.w \in Ratio
  /\ box.w > 0
  /\ box.x + box.w <= WireSteps

Near(sum, slack) == WireSteps - slack <= sum /\ sum <= WireSteps + slack
=============================================================================
