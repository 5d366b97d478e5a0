--------------------------- MODULE IncidentArchive ---------------------------
(***************************************************************************)
(* What the incident store promises to those who read its incidents:       *)
(* an incident appears as a whole, under a name of its own, only when both *)
(* budgets allow it, and disappears only to make space, lowest name first. *)
(* A failure of the machine may undo what was not yet made safe.           *)
(***************************************************************************)
EXTENDS Naturals, FiniteSets, FiniteSetsExt

CONSTANTS Names, Sizes, MaxIncidents, MaxDiskBytes

VARIABLES
  archive,                   \* the incidents a reader finds: name -> bytes
  safe                       \* those a failure of the machine cannot undo

Total(kept) == MapThenSumSet(LAMBDA n : kept[n], DOMAIN kept)

Roomy(kept, bytes) ==
  Cardinality(DOMAIN kept) < MaxIncidents /\ Total(kept) + bytes <= MaxDiskBytes

Publish ==
  /\ \E name \in Names \ DOMAIN archive, bytes \in Sizes :
       /\ Roomy(archive, bytes)
       /\ archive' = [n \in DOMAIN archive \cup {name} |->
                        IF n = name THEN bytes ELSE archive[n]]
  /\ UNCHANGED safe

Evict ==
  /\ \E bytes \in Sizes : bytes <= MaxDiskBytes /\ ~Roomy(archive, bytes)
  /\ \E oldest \in DOMAIN archive :
       /\ \A name \in DOMAIN archive : oldest <= name
       /\ archive' = [n \in DOMAIN archive \ {oldest} |-> archive[n]]
  /\ UNCHANGED safe

MakeSafe == safe' = archive /\ UNCHANGED archive

Same(n) ==
  n \in DOMAIN archive /\ n \in DOMAIN safe /\ archive[n] = safe[n]

MachineFails ==
  /\ safe' = archive'
  /\ \A n \in DOMAIN archive' :
       \/ n \in DOMAIN archive /\ archive'[n] = archive[n]
       \/ n \in DOMAIN safe /\ archive'[n] = safe[n]
  /\ \A n \in Names : Same(n) => n \in DOMAIN archive'

ArchiveInit == archive = [n \in {} |-> 0] /\ safe = archive

ArchiveNext == Publish \/ Evict \/ MakeSafe \/ MachineFails

ArchiveSpec == ArchiveInit /\ [][ArchiveNext]_<<archive, safe>>
=============================================================================
