------------------------- MODULE IncidentStoreProofs -------------------------
(***************************************************************************)
(* Proofs about IncidentStore, for any set of names and sizes and any      *)
(* budgets, with exceptions, killed processes and power losses at every    *)
(* step.                                                                   *)
(*                                                                         *)
(* Durability rests on an order of system calls, so the invariant is about *)
(* what each point of publish may count on: the stage is written and       *)
(* synced before its rename, nothing is half there once retention runs,    *)
(* and whatever is durable but gone was evicted.                           *)
(*                                                                         *)
(* The budgets need sums over finite sets, which SharedLemmas provides, *)
(* and so does the archive that readers see, of which the store is shown   *)
(* to be an implementation.                                                *)
(***************************************************************************)
EXTENDS IncidentStore, SharedLemmas

\* From here on publish has validated every incident.
Validated == {"Evict", "SyncStage", "Rename", "SyncIncidents"}
Synced == {"MakeSpace", "Evict", "SyncStage", "Rename"}

\* What is staged when the rename comes.
StageInv ==
  /\ pc \in Progress => lastName \in Names
  /\ pc \in Synced \cup {"SyncFiles"} => stage.written
  /\ pc \in Synced => stage.filesSynced
  /\ pc = "Rename" => stage.entriesSynced
  /\ pc \notin Staged => stage = None

\* No directory is ever visible before its files are synced.
NothingLoose ==
  \A n \in Names : incidents[n].condition # "Loose" /\ durable[n].condition # "Loose"

\* The incident being published.
TargetInv ==
  /\ pc \in Staged => incidents[lastName].condition = "Absent"
  /\ pc = "SyncIncidents" => incidents[lastName].condition = "Whole"

\* Half incidents: only an eviction leaves one, and publication stops at it.
HalfInv ==
  /\ victim # None => pc = "Evict" /\ victim \in Names /\ victim \in evicted
                        /\ incidents[victim].condition = "Half"
  /\ \A n \in Names : incidents[n].condition = "Half" => n \in evicted
  /\ \A n \in Names : durable[n].condition = "Half" => incidents[n].condition = "Half"
  /\ pc \in Validated =>
       \A n \in Names : /\ durable[n].condition # "Half"
                        /\ incidents[n].condition = "Half" => n = victim

\* What a power loss could bring back was evicted.
GoneInv ==
  \A n \in Names :
    durable[n].condition # "Absent" /\ incidents[n].condition = "Absent" => n \in evicted

IInv ==
  /\ TypeOK /\ StageInv /\ NothingLoose /\ TargetInv /\ HalfInv /\ GoneInv
  /\ ReportedIsDurable /\ StagingIsThisSessions

-----------------------------------------------------------------------------
\* A power loss keeps directories directories, keeps what was durable and still
\* there, and halves only what was evicted.
LEMMA SurvivorsFacts ==
  ASSUME IInv, NEW n \in Names, NEW kept \in Survivors(n)
  PROVE  /\ kept \in Directory
         /\ kept.condition # "Loose"
         /\ kept.condition = "Half" => n \in evicted
         /\ n \in reported => kept.condition = "Whole"
<1> DEFINE seen == incidents[n]
           safe == durable[n]
<1>1. seen \in Directory /\ safe \in Directory
  BY DEF IInv, TypeOK
<1>2. seen.condition # "Loose"
  BY DEF IInv, NothingLoose
<1>3. \/ kept = seen
      \/ kept = safe
      \/ /\ safe.condition # "Absent" /\ seen.condition \in {"Absent", "Half"}
         /\ kept = [safe EXCEPT !.condition = "Half"]
  BY <1>2 DEF Survivors
<1>4. [safe EXCEPT !.condition = "Half"] \in Directory
  BY <1>1 DEF Directory, Conditions
<1>5. [safe EXCEPT !.condition = "Half"].condition = "Half"
  BY <1>1 DEF Directory
<1>6. safe.condition # "Absent" /\ seen.condition \in {"Absent", "Half"} => n \in evicted
  BY DEF IInv, GoneInv, HalfInv
<1>7. /\ safe.condition # "Loose"
      /\ seen.condition = "Half" => n \in evicted
      /\ safe.condition = "Half" => n \in evicted
  BY DEF IInv, NothingLoose, HalfInv
<1>8. n \in reported => seen.condition = "Whole" /\ safe.condition = "Whole"
  BY DEF IInv, ReportedIsDurable
<1> HIDE DEF seen, safe
<1> QED
  BY <1>1, <1>2, <1>3, <1>4, <1>5, <1>6, <1>7, <1>8

LEMMA InitHolds == Init => IInv
<1> SUFFICES ASSUME Init PROVE IInv
  OBVIOUS
<1>1. Absent \in Directory /\ Absent.condition = "Absent"
  BY DEF Absent, Directory, Conditions
<1> QED
  BY <1>1, StoreAssumption
     DEF Init, IInv, TypeOK, StageInv, NothingLoose, TargetInv, HalfInv, GoneInv,
         ReportedIsDurable, StagingIsThisSessions, IsNew, Progress, Staged, Synced, Validated

-----------------------------------------------------------------------------
\* Steps of publish that only work on the stage.
LEMMA StagingKeepsInv ==
  ASSUME IInv,
         \/ \E bytes \in Sizes : Encode(bytes)
         \/ WriteMetadata \/ SyncFiles \/ MakeSpace \/ SpaceMade \/ SyncStage
  PROVE  IInv'
<1> USE StoreAssumption DEF IInv, TypeOK, StageInv, NothingLoose, TargetInv, HalfInv, GoneInv,
         ReportedIsDurable, StagingIsThisSessions, IsNew, Progress, Staged, Synced, Validated, Goto, Stage, disk, history
<1>1. ASSUME NEW bytes \in Sizes, Encode(bytes) PROVE IInv'
  BY <1>1 DEF Encode
<1>2. CASE WriteMetadata
  BY <1>2 DEF WriteMetadata
<1>3. CASE SyncFiles
  BY <1>3 DEF SyncFiles
<1>4. CASE MakeSpace
  BY <1>4 DEF MakeSpace, AllValid, In
<1>5. CASE SpaceMade
  BY <1>5 DEF SpaceMade
<1>6. CASE SyncStage
  BY <1>6 DEF SyncStage
<1> QED
  BY <1>1, <1>2, <1>3, <1>4, <1>5, <1>6

\* A new directory belongs to the latest name, and the others are older still.
LEMMA StagingGrows ==
  ASSUME IInv, NEW name \in Names, pc = "Idle", NextName(name), lastName' = name,
         incidents' = incidents,
         \/ staging' = staging
         \/ staging' = staging \cup {name} /\ incidents[name].condition = "Absent"
  PROVE  StagingIsThisSessions'
<1>1. ASSUME NEW n \in staging PROVE n <= name /\ incidents[n].condition = "Absent"
  <2>1. lastName # None /\ n <= lastName /\ incidents[n].condition = "Absent"
    BY DEF IInv, StagingIsThisSessions, IsNew
  <2>2. n \in Nat /\ lastName \in Nat /\ name \in Nat /\ name > lastName
    BY <2>1, StoreAssumption DEF IInv, TypeOK, NextName
  <2> QED
    BY <2>1, <2>2
<1>2. \A n \in staging' : n <= name /\ incidents[n].condition = "Absent"
  BY <1>1, StoreAssumption
<1>3. name # None
  BY StoreAssumption
<1> QED
  BY <1>2, <1>3 DEF StagingIsThisSessions, IsNew

LEMMA BeginKeepsInv ==
  ASSUME IInv, NEW name \in Names, Begin(name)
  PROVE  IInv'
<1> DEFINE empty == [bytes |-> 0, written |-> FALSE, filesSynced |-> FALSE,
                     entriesSynced |-> FALSE]
<1>1. /\ pc = "Idle" /\ NextName(name) /\ lastName' = name
      /\ incidents[name].condition = "Absent"
      /\ pc' = "Encode" /\ stage' = empty /\ staging' = staging \cup {name}
      /\ UNCHANGED <<victim, incidents, durable, reported, evicted>>
  BY DEF Begin, Called, IsNew, history
<1>2. empty \in Stage
  BY DEF Stage
<1> HIDE DEF empty
<1>3. victim = None
  BY <1>1 DEF IInv, HalfInv
<1>4. TypeOK' /\ StageInv'
  BY <1>1, <1>2 DEF IInv, TypeOK, StageInv, Progress, Staged, Synced
<1>5. TargetInv' /\ GoneInv' /\ NothingLoose' /\ ReportedIsDurable'
  BY <1>1 DEF IInv, TargetInv, GoneInv, NothingLoose, ReportedIsDurable, Progress, Staged
<1>6. HalfInv'
  BY <1>1, <1>3 DEF IInv, HalfInv, Validated
<1>7. StagingIsThisSessions'
  BY <1>1, StagingGrows
<1> QED
  BY <1>4, <1>5, <1>6, <1>7 DEF IInv

LEMMA RefusalKeepsInv ==
  ASSUME IInv, NEW name \in Names, Refuse(name) \/ Abandon(name)
  PROVE  IInv'
<1>1. /\ pc = "Idle" /\ NextName(name) /\ lastName' = name
      /\ \/ staging' = staging
         \/ staging' = staging \cup {name} /\ incidents[name].condition = "Absent"
      /\ UNCHANGED <<pc, stage, victim, incidents, durable, reported, evicted>>
  BY DEF Refuse, Abandon, Called, IsNew, disk, history
<1>2. StagingIsThisSessions'
  BY <1>1, StagingGrows
<1>3. TypeOK' /\ StageInv' /\ NothingLoose' /\ TargetInv' /\ HalfInv'
  BY <1>1 DEF IInv, TypeOK, StageInv, NothingLoose, TargetInv, HalfInv, Progress, Staged,
              Synced, Validated
<1>4. GoneInv' /\ ReportedIsDurable'
  BY <1>1 DEF IInv, GoneInv, ReportedIsDurable
<1> QED
  BY <1>2, <1>3, <1>4 DEF IInv

\* Retention takes what it removes out of the durable promise first.
LEMMA EvictFilesKeepsInv ==
  ASSUME IInv, NEW name \in Names, EvictFiles(name)
  PROVE  IInv'
<1> DEFINE half == [incidents[name] EXCEPT !.condition = "Half"]
<1>1. half \in Directory /\ half.condition = "Half"
  BY DEF IInv, TypeOK, Directory, Conditions
<1>2. incidents' = [incidents EXCEPT ![name] = half]
  BY DEF EvictFiles
<1>3. \A n \in Names : incidents'[n] = IF n = name THEN half ELSE incidents[n]
  BY <1>2 DEF IInv, TypeOK
<1>4. incidents' \in [Names -> Directory]
  BY <1>1, <1>2 DEF IInv, TypeOK
<1>5. incidents[name].condition # "Absent"
  BY DEF EvictFiles, Present
<1> HIDE DEF half
<1> QED
  BY <1>1, <1>3, <1>4, <1>5, StoreAssumption
     DEF EvictFiles, history, IInv, TypeOK, StageInv, NothingLoose, TargetInv, HalfInv, GoneInv,
         ReportedIsDurable, StagingIsThisSessions, IsNew, Progress, Staged, Synced, Validated

LEMMA EvictDirectoryKeepsInv ==
  ASSUME IInv, EvictDirectory
  PROVE  IInv'
<1>1. victim \in Names
  BY DEF EvictDirectory, IInv, HalfInv
<1>2. \A n \in Names : incidents'[n] = IF n = victim THEN Absent ELSE incidents[n]
  BY <1>1 DEF EvictDirectory, IInv, TypeOK
<1>3. Absent \in Directory /\ Absent.condition = "Absent"
  BY DEF Absent, Directory, Conditions
<1>4. incidents' \in [Names -> Directory]
  BY <1>3 DEF EvictDirectory, IInv, TypeOK
<1> QED
  BY <1>1, <1>2, <1>3, <1>4, StoreAssumption
     DEF EvictDirectory, IInv, TypeOK, StageInv, NothingLoose, TargetInv, HalfInv, GoneInv,
         ReportedIsDurable, StagingIsThisSessions, IsNew, Progress, Staged, Synced, Validated

LEMMA RenameKeepsInv ==
  ASSUME IInv, Rename
  PROVE  IInv'
<1>1. lastName \in Names /\ stage \in Stage
  BY DEF Rename, Goto, IInv, StageInv, TypeOK, Progress, Staged
<1>2. stage.written /\ stage.filesSynced /\ stage.entriesSynced
  BY DEF Rename, Goto, IInv, StageInv, Synced
<1>3. Renamed \in Directory /\ Renamed.condition = "Whole"
  BY <1>1, <1>2 DEF Renamed, Stage, Directory, Conditions
<1>4. \A n \in Names : incidents'[n] = IF n = lastName THEN Renamed ELSE incidents[n]
  BY <1>1 DEF Rename, IInv, TypeOK
<1>5. incidents' \in [Names -> Directory]
  BY <1>1, <1>3 DEF Rename, IInv, TypeOK
<1>6. lastName \notin reported
  BY <1>1 DEF Rename, Goto, IInv, TargetInv, ReportedIsDurable, Staged, Progress
<1> QED
  BY <1>1, <1>3, <1>4, <1>5, <1>6, StoreAssumption
     DEF Rename, Goto, IInv, TypeOK, StageInv, NothingLoose, TargetInv, HalfInv, GoneInv,
         ReportedIsDurable, StagingIsThisSessions, IsNew, Progress, Staged, Synced, Validated

\* The promise is made only when the visible state has become the durable one.
LEMMA SyncIncidentsKeepsInv ==
  ASSUME IInv, SyncIncidents
  PROVE  IInv'
BY StoreAssumption
   DEF SyncIncidents, Goto, IInv, TypeOK, StageInv, NothingLoose, TargetInv, HalfInv, GoneInv,
         ReportedIsDurable, StagingIsThisSessions, IsNew, Progress, Staged, Synced, Validated

-----------------------------------------------------------------------------
\* Failures.
LEMMA RaiseKeepsInv ==
  ASSUME IInv, Raise
  PROVE  IInv'
BY StoreAssumption
   DEF Raise, disk, history, IInv, TypeOK, StageInv, NothingLoose, TargetInv, HalfInv, GoneInv,
         ReportedIsDurable, StagingIsThisSessions, IsNew, Progress, Staged, Synced, Validated

LEMMA CrashKeepsInv ==
  ASSUME IInv, Crash
  PROVE  IInv'
BY StoreAssumption
   DEF Crash, disk, history, IInv, TypeOK, StageInv, NothingLoose, TargetInv, HalfInv, GoneInv,
         ReportedIsDurable, StagingIsThisSessions, IsNew, Progress, Staged, Synced, Validated

LEMMA PowerLossKeepsInv ==
  ASSUME IInv, PowerLoss
  PROVE  IInv'
<1>1. PICK files \in [Names -> UNION {Survivors(n) : n \in Names}] :
        /\ \A n \in Names : files[n] \in Survivors(n)
        /\ incidents' = files /\ durable' = files
  BY DEF PowerLoss
<1>2. \A n \in Names : /\ files[n] \in Directory
                       /\ files[n].condition # "Loose"
                       /\ files[n].condition = "Half" => n \in evicted
                       /\ n \in reported => files[n].condition = "Whole"
  BY <1>1, SurvivorsFacts
<1>3. files \in [Names -> Directory]
  BY <1>1, <1>2
<1>4. /\ pc' = "Down" /\ victim' = None
      /\ stage' = None /\ staging' \subseteq Names
      /\ UNCHANGED <<lastName, reported, evicted>>
  BY DEF PowerLoss
<1> QED
  BY <1>1, <1>2, <1>3, <1>4, StoreAssumption
     DEF IInv, TypeOK, StageInv, NothingLoose, TargetInv, HalfInv, GoneInv,
         ReportedIsDurable, StagingIsThisSessions, IsNew, Progress, Staged, Synced, Validated

LEMMA OpenKeepsInv ==
  ASSUME IInv, Open \/ OpenFails
  PROVE  IInv'
BY StoreAssumption
   DEF Open, OpenFails, Reopened, disk, history, IInv, TypeOK, StageInv, NothingLoose, TargetInv, HalfInv, GoneInv,
         ReportedIsDurable, StagingIsThisSessions, IsNew, Progress, Staged, Synced, Validated

LEMMA StutterKeepsInv ==
  ASSUME IInv, UNCHANGED vars
  PROVE  IInv'
BY DEF vars, process, disk, history, IInv, TypeOK, StageInv, NothingLoose, TargetInv, HalfInv, GoneInv,
         ReportedIsDurable, StagingIsThisSessions, IsNew, Progress, Staged, Synced, Validated, Stage

-----------------------------------------------------------------------------
LEMMA InvHolds == Spec => []IInv
<1>1. Init => IInv
  BY InitHolds
<1>2. IInv /\ [Next]_vars => IInv'
  <2> SUFFICES ASSUME IInv, [Next]_vars PROVE IInv'
    OBVIOUS
  <2>1. CASE Step
    BY <2>1, StagingKeepsInv, BeginKeepsInv, RefusalKeepsInv, EvictFilesKeepsInv, EvictDirectoryKeepsInv,
       RenameKeepsInv, SyncIncidentsKeepsInv DEF Step
  <2>2. CASE Raise \/ Crash \/ PowerLoss \/ Open \/ OpenFails
    BY <2>2, RaiseKeepsInv, CrashKeepsInv, PowerLossKeepsInv, OpenKeepsInv
  <2>3. CASE UNCHANGED vars
    BY <2>3, StutterKeepsInv
  <2> QED
    BY <2>1, <2>2, <2>3 DEF Next
<1> QED
  BY <1>1, <1>2, PTL DEF Spec

\* Every variable keeps its type, whatever fails.
THEOREM StoreTypeCorrect == Spec => []TypeOK
<1>1. IInv => TypeOK
  BY DEF IInv
<1> QED
  BY <1>1, InvHolds, PTL

\* What publish reported is there, whole and durable, until retention removes
\* it, over any sequence of exceptions, kills and power losses.
THEOREM ReportsAreDurable == Spec => []ReportedIsDurable
<1>1. IInv => ReportedIsDurable
  BY DEF IInv
<1> QED
  BY <1>1, InvHolds, PTL

\* Only an eviction that was cut short ever leaves half an incident.
THEOREM OnlyEvictionsHalve == Spec => []HalfMeansEvicted
<1>1. IInv => HalfMeansEvicted
  BY DEF IInv, HalfInv, HalfMeansEvicted, In
<1> QED
  BY <1>1, InvHolds, PTL

\* Failed publications may leave directories in staging, but what a running
\* recorder finds there is from its own session, and never also an incident.
THEOREM StagingHoldsThisSession == Spec => []StagingIsThisSessions
<1>1. IInv => StagingIsThisSessions
  BY DEF IInv
<1> QED
  BY <1>1, InvHolds, PTL

-----------------------------------------------------------------------------
\* The budgets: from MakeSpace to the rename publish knows that the stage fits.

\* The incidents a directory listing would show, and what they hold.
Listed(files) == {n \in Names : files[n].condition # "Absent"}
Lengths(files) == [n \in Names |-> files[n].bytes]
Stored(files) == MapThenSumSet(LAMBDA n : files[n].bytes, Listed(files))

\* What publish knows of the space it needs.
SpaceInv ==
  /\ IsFiniteSet(Listed(incidents)) /\ IsFiniteSet(Listed(durable))
  /\ pc \in Staged \ {"Encode"} => stage.bytes \in Sizes
  /\ pc \in {"Evict", "SyncStage", "Rename"} => Affordable
  /\ pc \in {"SyncStage", "Rename"} => ~NeedsSpace
  /\ BudgetsKept

\* The fold that adds up a directory is the sum over its incidents.
LEMMA StoredIsSummed ==
  ASSUME NEW files
  PROVE  Stored(files) = SumOver(Listed(files), Lengths(files))
<1> DEFINE P == Listed(files)
           L == Lengths(files)
           ByFold(t) == t = [s \in SUBSET P |->
                IF s = {} THEN 0
                ELSE files[CHOOSE x \in s : TRUE].bytes + t[s \ {CHOOSE x \in s : TRUE}]]
           BySum(t) == SumsUp(t, SUBSET P, L)
<1>1. Stored(files) = (CHOOSE t : ByFold(t))[P]
  BY Zenon DEF Stored, MapThenSumSet, MapThenFoldSet
<1>2. \A t : ByFold(t) <=> BySum(t)
  <2> TAKE t
  <2>1. \A s \in SUBSET P : s # {} => L[CHOOSE x \in s : TRUE] = files[CHOOSE x \in s : TRUE].bytes
    BY DEF Listed, Lengths
  <2> HIDE DEF P, L
  <2> QED
    BY <2>1 DEF SumsUp, Chosen
<1> HIDE DEF P, L, ByFold, BySum
<1>3. (CHOOSE t : ByFold(t)) = (CHOOSE t : BySum(t))
  BY <1>2
<1>4. Stored(files) = SumOver(P, L)
  BY <1>1, <1>3 DEF BySum, SumOver
<1> QED
  BY <1>4 DEF P, L

\* So is the one that adds up the archive.
LEMMA TotalIsSummed ==
  ASSUME NEW kept
  PROVE  Archive!Total(kept) = SumOver(DOMAIN kept, kept)
<1> DEFINE P == DOMAIN kept
           L == kept
           ByFold(t) == t = [s \in SUBSET P |->
                IF s = {} THEN 0
                ELSE kept[CHOOSE x \in s : TRUE] + t[s \ {CHOOSE x \in s : TRUE}]]
           BySum(t) == SumsUp(t, SUBSET P, L)
<1>1. Archive!Total(kept) = (CHOOSE t : ByFold(t))[P]
  BY Zenon DEF Archive!Total, Archive!MapThenSumSet, Archive!MapThenFoldSet, MapThenSumSet, MapThenFoldSet
<1>2. \A t : ByFold(t) <=> BySum(t)
  <2> TAKE t
  <2>1. \A s \in SUBSET P : s # {} => L[CHOOSE x \in s : TRUE] = kept[CHOOSE x \in s : TRUE]
    BY DEF Listed, Lengths
  <2> HIDE DEF P, L
  <2> QED
    BY <2>1 DEF SumsUp, Chosen
<1> HIDE DEF P, L, ByFold, BySum
<1>3. (CHOOSE t : ByFold(t)) = (CHOOSE t : BySum(t))
  BY <1>2
<1>4. Archive!Total(kept) = SumOver(P, L)
  BY <1>1, <1>3 DEF BySum, SumOver
<1> QED
  BY <1>4 DEF P, L

\* What retention counts is what is listed.
LEMMA SpaceFacts ==
  /\ Present = Listed(incidents)
  /\ Bytes = Stored(incidents)
<1>1. Present = Listed(incidents)
  BY DEF Present, Listed
<1> QED
  BY <1>1, Zenon DEF Bytes, Stored, MapThenSumSet, MapThenFoldSet

LEMMA LengthsType ==
  ASSUME NEW files \in [Names -> Directory]
  PROVE  \A n \in Names : Lengths(files)[n] = files[n].bytes /\ Lengths(files)[n] \in Nat
BY DEF Lengths, Directory

\* Retention's question depends on the directory and the stage alone.
LEMMA SpaceUnchanged ==
  ASSUME incidents' = incidents, stage'.bytes = stage.bytes
  PROVE  /\ Present' = Present /\ Bytes' = Bytes
         /\ NeedsSpace' = NeedsSpace /\ Affordable' = Affordable
<1>1. Present' = Present
  BY DEF Present
<1>2. Bytes' = Bytes
  BY <1>1 DEF Bytes, MapThenSumSet, MapThenFoldSet
<1> QED
  BY <1>1, <1>2 DEF NeedsSpace, Affordable

\* Steps that leave the directory alone.
LEMMA WorkKeepsSpace ==
  ASSUME IInv, SpaceInv,
         \/ \E name \in Names : Begin(name) \/ Refuse(name) \/ Abandon(name)
         \/ \E bytes \in Sizes : Encode(bytes)
         \/ WriteMetadata \/ SyncFiles \/ MakeSpace
  PROVE  SpaceInv'
<1>1. incidents' = incidents /\ durable' = durable
  BY DEF Begin, Refuse, Abandon, Encode, WriteMetadata, SyncFiles, MakeSpace, disk
<1>2. IsFiniteSet(Listed(incidents))' /\ IsFiniteSet(Listed(durable))'
  BY <1>1 DEF SpaceInv, Listed
<1>3. ASSUME NEW name \in Names, Begin(name) \/ Refuse(name) \/ Abandon(name)
      PROVE  SpaceInv'
  BY <1>2, <1>3 DEF Begin, Refuse, Abandon, Called, SpaceInv, BudgetsKept, Staged, Progress
<1>4. ASSUME NEW bytes \in Sizes, Encode(bytes) PROVE SpaceInv'
  <2>1. stage \in Stage
    BY <1>4 DEF IInv, TypeOK, Encode, Goto, Staged, Progress
  <2>2. stage'.bytes = bytes /\ pc' = "Metadata"
    BY <1>4, <2>1 DEF Encode, Goto, Stage
  <2> QED
    BY <1>2, <2>2 DEF SpaceInv, BudgetsKept, Staged, Progress
<1>5. CASE WriteMetadata \/ SyncFiles
  <2>1. stage \in Stage /\ pc \in Staged \ {"Encode"}
    BY <1>5 DEF IInv, TypeOK, WriteMetadata, SyncFiles, Goto, Staged, Progress
  <2>2. stage'.bytes = stage.bytes /\ pc' \in {"SyncFiles", "MakeSpace"}
    BY <1>5, <2>1 DEF WriteMetadata, SyncFiles, Goto, Stage
  <2> QED
    BY <1>2, <2>1, <2>2 DEF SpaceInv, BudgetsKept
<1>6. CASE MakeSpace
  <2>1. stage' = stage /\ pc = "MakeSpace" /\ pc' = "Evict" /\ Affordable
    BY <1>6 DEF MakeSpace, Goto
  <2>2. Affordable'
    BY <1>1, <2>1, SpaceUnchanged
  <2> QED
    BY <1>2, <2>1, <2>2 DEF SpaceInv, BudgetsKept, Staged, Progress
<1> QED
  BY <1>3, <1>4, <1>5, <1>6

\* Retention removes: what is listed only shrinks, and the stage stays.
LEMMA EvictionKeepsSpace ==
  ASSUME IInv, SpaceInv, \/ \E name \in Names : EvictFiles(name)
                         \/ EvictDirectory
  PROVE  SpaceInv'
<1>1. stage' = stage /\ pc' = "Evict" /\ pc = "Evict" /\ durable' = durable
  BY DEF EvictFiles, EvictDirectory
<1>2. Listed(incidents)' \subseteq Listed(incidents)
  <2>1. ASSUME NEW name \in Names, EvictFiles(name)
        PROVE  Listed(incidents)' \subseteq Listed(incidents)
    <3>1. name \in Listed(incidents)
      BY <2>1, SpaceFacts DEF EvictFiles
    <3>2. \A n \in Names \ {name} : incidents'[n] = incidents[n]
      BY <2>1 DEF EvictFiles, IInv, TypeOK
    <3> QED
      BY <3>1, <3>2 DEF Listed
  <2>2. CASE EvictDirectory
    <3>1. victim \in Names /\ incidents' = [incidents EXCEPT ![victim] = Absent]
      BY <2>2 DEF EvictDirectory, IInv, TypeOK
    <3>2. /\ incidents'[victim].condition = "Absent"
          /\ \A n \in Names \ {victim} : incidents'[n] = incidents[n]
      BY <3>1 DEF IInv, TypeOK, Absent
    <3> QED
      BY <3>1, <3>2 DEF Listed
  <2> QED
    BY <2>1, <2>2
<1>3. IsFiniteSet(Listed(incidents)') /\ IsFiniteSet(Listed(durable)')
  BY <1>1, <1>2, FS_Subset DEF SpaceInv, Listed
<1>4. Affordable'
  BY <1>1 DEF SpaceInv, Affordable
<1> QED
  BY <1>1, <1>3, <1>4 DEF SpaceInv, BudgetsKept, Staged, Progress

\* From the moment there is space until the rename nothing is added.
LEMMA RoomIsKept ==
  ASSUME IInv, SpaceInv, SpaceMade \/ SyncStage
  PROVE  SpaceInv'
<1>1. /\ incidents' = incidents /\ durable' = durable
      /\ pc \in {"Evict", "SyncStage"} /\ pc' \in {"SyncStage", "Rename"}
  BY DEF SpaceMade, SyncStage, Goto, disk
<1>2. stage \in Stage
  BY <1>1 DEF IInv, TypeOK, Staged, Progress
<1>3. stage'.bytes = stage.bytes
  BY <1>2 DEF SpaceMade, SyncStage, Stage
<1>4. Affordable /\ ~NeedsSpace
  BY <1>1 DEF SpaceInv, SpaceMade, SyncStage, Goto
<1>5. Affordable' /\ ~NeedsSpace'
  BY <1>1, <1>3, <1>4, SpaceUnchanged
<1>6. IsFiniteSet(Listed(incidents))' /\ IsFiniteSet(Listed(durable))'
  BY <1>1 DEF SpaceInv, Listed
<1>7. stage'.bytes \in Sizes
  BY <1>1, <1>3 DEF SpaceInv, Staged, Progress
<1> QED
  BY <1>1, <1>5, <1>6, <1>7 DEF SpaceInv, BudgetsKept

\* The rename adds one incident, of the bytes that were counted.
LEMMA RenameKeepsSpace ==
  ASSUME IInv, SpaceInv, Rename
  PROVE  SpaceInv'
<1> DEFINE S == Listed(incidents)
           a == lastName
<1>1. /\ pc = "Rename" /\ pc' = "SyncIncidents" /\ durable' = durable
      /\ a \in Names /\ stage \in Stage /\ stage.bytes \in Nat
      /\ incidents \in [Names -> Directory]
  BY DEF Rename, Goto, IInv, StageInv, TypeOK, Progress, Staged, Stage
<1>2. IsFiniteSet(S) /\ a \notin S
  BY <1>1 DEF SpaceInv, IInv, TargetInv, Staged, Progress, Listed
<1>3. /\ incidents'[a].condition # "Absent" /\ incidents'[a].bytes = stage.bytes
      /\ \A n \in Names \ {a} : incidents'[n] = incidents[n]
  BY <1>1 DEF Rename, Renamed
<1>4. Listed(incidents') = S \cup {a}
  BY <1>1, <1>3 DEF Listed
<1>5. IsFiniteSet(S \cup {a}) /\ Cardinality(S \cup {a}) = Cardinality(S) + 1
  BY <1>2, FS_AddElement
<1>6. \A x \in S : /\ Lengths(incidents)[x] \in Int
                   /\ Lengths(incidents')[x] = Lengths(incidents)[x]
  <2>1. S \subseteq Names
    BY DEF Listed
  <2>2. \A x \in S : Lengths(incidents)[x] = incidents[x].bytes /\ Lengths(incidents)[x] \in Nat
    BY <1>1, <2>1, LengthsType
  <2>3. \A x \in S : x # a /\ incidents'[x] = incidents[x]
    BY <1>2, <1>3, <2>1
  <2>4. \A x \in S : Lengths(incidents')[x] = incidents'[x].bytes
    BY <2>1 DEF Lengths
  <2> HIDE DEF S, a
  <2> QED
    BY <2>2, <2>3, <2>4
<1>7. Lengths(incidents')[a] = stage.bytes
  BY <1>1, <1>3 DEF Lengths
<1>8. Stored(incidents') = Stored(incidents) + stage.bytes
  <2>1. Stored(incidents) = SumOver(S, Lengths(incidents))
    BY StoredIsSummed
  <2>2. Stored(incidents') = SumOver(S \cup {a}, Lengths(incidents'))
    BY <1>4, StoredIsSummed
  <2> DEFINE g == Lengths(incidents')
             h == Lengths(incidents)
  <2>3. /\ IsFiniteSet(S) /\ a \notin S /\ g[a] \in Int
        /\ \A x \in S : h[x] \in Int /\ g[x] = h[x]
    BY <1>1, <1>2, <1>6, <1>7
  <2> HIDE DEF S, a, g, h
  <2>4. SumOver(S \cup {a}, g) = SumOver(S, h) + g[a]
    BY <2>3, SumOverAdd
  <2> QED
    BY <1>7, <2>1, <2>2, <2>4 DEF g, h
<1>9. ~(Cardinality(S) >= MaxIncidents) /\ ~(Stored(incidents) + stage.bytes > MaxDiskBytes)
  BY <1>1, SpaceFacts DEF SpaceInv, NeedsSpace
<1>10. Present' = Listed(incidents') /\ Bytes' = Stored(incidents')
  <2>1. Present' = Listed(incidents')
    BY DEF Present, Listed
  <2> QED
    BY <2>1, Zenon DEF Bytes, Stored, MapThenSumSet, MapThenFoldSet
<1>11. Cardinality(S) \in Nat /\ MaxIncidents \in Nat /\ MaxDiskBytes \in Nat
  BY <1>2, FS_CardinalityType, StoreAssumption
<1>12. Stored(incidents) + stage.bytes \in Int
  <2>1. Summable(S, Lengths(incidents))
    BY <1>2, <1>6 DEF Summable
  <2>2. Stored(incidents) \in Int
    BY <2>1, SumOverType, StoredIsSummed
  <2> QED
    BY <1>1, <2>2
<1>13. Cardinality(Present)' <= MaxIncidents /\ Bytes' <= MaxDiskBytes
  BY <1>4, <1>5, <1>8, <1>9, <1>10, <1>11, <1>12
<1>14. IsFiniteSet(Listed(incidents)') /\ IsFiniteSet(Listed(durable)')
  BY <1>1, <1>4, <1>5 DEF SpaceInv, Listed
<1> QED
  BY <1>1, <1>13, <1>14 DEF SpaceInv, BudgetsKept, Staged, Progress

\* The sync makes the directory durable; failures leave it or go back.
LEMMA RestKeepsSpace ==
  ASSUME IInv, SpaceInv, SyncIncidents \/ Raise \/ Crash \/ Open \/ OpenFails
  PROVE  SpaceInv'
<1>1. /\ incidents' = incidents
      /\ durable' \in {durable, incidents}
      /\ pc' \in {"Idle", "Down"}
  BY DEF SyncIncidents, Raise, Crash, Open, OpenFails, Goto, disk
<1>2. IsFiniteSet(Listed(incidents)') /\ IsFiniteSet(Listed(durable)')
  BY <1>1 DEF SpaceInv, Listed
<1> QED
  BY <1>1, <1>2 DEF SpaceInv, BudgetsKept, Staged, Progress

\* A power loss brings nothing that was not there before or before the last sync.
LEMMA PowerLossKeepsSpace ==
  ASSUME IInv, SpaceInv, PowerLoss
  PROVE  SpaceInv'
<1>1. PICK files \in [Names -> UNION {Survivors(n) : n \in Names}] :
        /\ \A n \in Names : files[n] \in Survivors(n)
        /\ incidents' = files /\ durable' = files
  BY DEF PowerLoss
<1>2. ASSUME NEW n \in Names, files[n].condition # "Absent"
      PROVE  n \in Listed(incidents) \cup Listed(durable)
  <2>1. files[n] \in Survivors(n)
    BY <1>1
  <2>2. \/ files[n] = incidents[n] \/ files[n] = durable[n]
        \/ incidents[n].condition # "Absent" \/ durable[n].condition # "Absent"
    BY <2>1 DEF Survivors
  <2> QED
    BY <1>2, <2>2 DEF Listed
<1>3. Listed(files) \subseteq Listed(incidents) \cup Listed(durable)
  BY <1>2 DEF Listed
<1>4. IsFiniteSet(Listed(files))
  BY <1>3, FS_Union, FS_Subset DEF SpaceInv
<1>5. pc' = "Down"
  BY DEF PowerLoss
<1>6. IsFiniteSet(Listed(incidents)') /\ IsFiniteSet(Listed(durable)')
  BY <1>1, <1>4 DEF Listed
<1> QED
  BY <1>5, <1>6 DEF SpaceInv, BudgetsKept, Staged, Progress

LEMMA StutterKeepsSpace ==
  ASSUME IInv, SpaceInv, UNCHANGED vars
  PROVE  SpaceInv'
<1>1. incidents' = incidents /\ stage' = stage /\ pc' = pc /\ durable' = durable
  BY DEF vars, process, disk
<1>2. /\ Present' = Present /\ Bytes' = Bytes
      /\ NeedsSpace' = NeedsSpace /\ Affordable' = Affordable
  BY <1>1, SpaceUnchanged
<1>3. IsFiniteSet(Listed(incidents)') /\ IsFiniteSet(Listed(durable)')
  BY <1>1 DEF SpaceInv, Listed
<1> QED
  BY <1>1, <1>2, <1>3 DEF SpaceInv, BudgetsKept

LEMMA SpaceInitially == Init => SpaceInv
<1> SUFFICES ASSUME Init PROVE SpaceInv
  OBVIOUS
<1>1. Listed(incidents) = {} /\ Listed(durable) = {}
  BY DEF Init, Listed, Absent
<1> QED
  BY <1>1, FS_EmptySet DEF Init, SpaceInv, BudgetsKept, Staged, Progress

LEMMA SpaceHolds == Spec => []SpaceInv
<1>1. Init => SpaceInv
  BY SpaceInitially
<1>2. IInv /\ SpaceInv /\ [Next]_vars => SpaceInv'
  <2> SUFFICES ASSUME IInv, SpaceInv, [Next]_vars PROVE SpaceInv'
    OBVIOUS
  <2>1. CASE Step
    BY <2>1, WorkKeepsSpace, EvictionKeepsSpace, RoomIsKept, RenameKeepsSpace,
       RestKeepsSpace DEF Step
  <2>2. CASE Raise \/ Crash \/ PowerLoss \/ Open \/ OpenFails
    BY <2>2, RestKeepsSpace, PowerLossKeepsSpace
  <2>3. CASE UNCHANGED vars
    BY <2>3, StutterKeepsSpace
  <2> QED
    BY <2>1, <2>2, <2>3 DEF Next
<1> QED
  BY <1>1, <1>2, InvHolds, PTL DEF Spec

\* A publication never makes the store exceed either budget, whatever incidents
\* a crash or a power loss left or brought back.
THEOREM BudgetsAlwaysKept == Spec => []BudgetsKept
<1>1. SpaceInv => BudgetsKept
  BY DEF SpaceInv
<1> QED
  BY <1>1, SpaceHolds, PTL

-----------------------------------------------------------------------------
\* The store implements the archive its readers see.

\* Where no directory is loose, a reader finds the whole incidents.
LEMMA ReadersFindTheWhole ==
  ASSUME NEW files, \A n \in Names : files[n].condition # "Loose"
  PROVE  /\ DOMAIN Readable(files) = {n \in Names : files[n].condition = "Whole"}
         /\ \A n \in DOMAIN Readable(files) : Readable(files)[n] = files[n].bytes
BY DEF Readable

\* Two directories that agree on what readers find are the same archive.
LEMMA SameReadable ==
  ASSUME NEW f, NEW g,
         \A n \in Names : f[n].condition \in {"Loose", "Whole"}
                            <=> g[n].condition \in {"Loose", "Whole"},
         \A n \in Names : f[n].condition \in {"Loose", "Whole"} => f[n].bytes = g[n].bytes
  PROVE  Readable(f) = Readable(g)
<1>1. {n \in Names : f[n].condition \in {"Loose", "Whole"}}
        = {n \in Names : g[n].condition \in {"Loose", "Whole"}}
  OBVIOUS
<1> QED
  BY <1>1 DEF Readable

\* While retention holds no victim, the archive is what retention counts.
LEMMA ArchiveIsCounted ==
  ASSUME IInv, SpaceInv, pc \in Validated, victim = None
  PROVE  /\ DOMAIN Readable(incidents) = Present
         /\ Archive!Total(Readable(incidents)) = Bytes
<1>1. \A n \in Names : incidents[n].condition \in {"Absent", "Whole"}
  <2> SUFFICES ASSUME NEW n \in Names PROVE incidents[n].condition \in {"Absent", "Whole"}
    OBVIOUS
  <2>1. incidents[n].condition \in Conditions
    BY DEF IInv, TypeOK, Directory
  <2>2. incidents[n].condition # "Loose" /\ incidents[n].condition # "Half"
    BY StoreAssumption DEF IInv, NothingLoose, HalfInv
  <2> QED
    BY <2>1, <2>2 DEF Conditions
<1> DEFINE P == Listed(incidents)
           R == Readable(incidents)
           L == Lengths(incidents)
<1>2. DOMAIN R = P /\ \A n \in P : R[n] = L[n]
  BY <1>1, ReadersFindTheWhole DEF Listed, Lengths
<1>3. Archive!Total(R) = SumOver(P, R) /\ Bytes = SumOver(P, L)
  BY <1>2, TotalIsSummed, StoredIsSummed, SpaceFacts
<1> HIDE DEF P, R, L
<1>4. SumOver(P, R) = SumOver(P, L)
  BY <1>2, SumOverSame
<1>5. DOMAIN R = P /\ Archive!Total(R) = Bytes
  BY <1>2, <1>3, <1>4
<1> QED
  BY <1>5, SpaceFacts DEF P, R

\* There is room exactly when retention needs no more space.
LEMMA RoomyMeansNoNeed ==
  ASSUME IInv, SpaceInv, pc \in {"Evict", "Rename"}, victim = None
  PROVE  Archive!Roomy(Readable(incidents), stage.bytes) <=> ~NeedsSpace
<1>1. DOMAIN Readable(incidents) = Present /\ Archive!Total(Readable(incidents)) = Bytes
  BY ArchiveIsCounted DEF Validated
<1>2. Cardinality(Present) \in Nat /\ MaxIncidents \in Nat /\ MaxDiskBytes \in Nat
  BY SpaceFacts, FS_CardinalityType, StoreAssumption DEF SpaceInv
<1>3. Bytes + stage.bytes \in Int
  <2>1. \A n \in Listed(incidents) : Lengths(incidents)[n] \in Int
    BY LengthsType DEF IInv, TypeOK, Listed
  <2>2. Bytes \in Int
    BY <2>1, SumOverType, StoredIsSummed, SpaceFacts DEF SpaceInv, Summable
  <2>3. stage.bytes \in Nat
    BY DEF IInv, TypeOK, Stage, Staged, Progress
  <2> QED
    BY <2>2, <2>3
<1>4. Archive!Cardinality(Present) = Cardinality(Present)
  BY DEF Archive!Cardinality, Cardinality
<1> QED
  BY <1>1, <1>2, <1>3, <1>4 DEF Archive!Roomy, NeedsSpace

\* A rename publishes one incident that fits.
LEMMA RenamePublishes ==
  ASSUME IInv, SpaceInv, Rename
  PROVE  Archive!Publish
<1> DEFINE a == lastName
           R == Readable(incidents)
<1>1. /\ pc = "Rename" /\ durable' = durable
      /\ a \in Names /\ stage \in Stage /\ stage.bytes \in Sizes
      /\ incidents \in [Names -> Directory]
  BY DEF Rename, Goto, IInv, SpaceInv, StageInv, TypeOK, Progress, Staged
<1>2. victim = None
  BY <1>1 DEF IInv, HalfInv
<1>3. Archive!Roomy(R, stage.bytes)
  BY <1>1, <1>2, RoomyMeansNoNeed DEF SpaceInv
<1>4. a \notin DOMAIN R
  BY <1>1 DEF IInv, TargetInv, Staged, Progress, Readable
<1>5. /\ incidents'[a].condition = "Whole" /\ incidents'[a].bytes = stage.bytes
      /\ \A n \in Names \ {a} : incidents'[n] = incidents[n]
  BY <1>1 DEF Rename, Renamed, IInv, StageInv, Synced
<1>6. Readable(incidents') = [n \in DOMAIN R \cup {a} |-> IF n = a THEN stage.bytes ELSE R[n]]
  <2>1. {n \in Names : incidents'[n].condition \in {"Loose", "Whole"}}
          = {n \in Names : incidents[n].condition \in {"Loose", "Whole"}} \cup {a}
    BY <1>1, <1>5
  <2>2. DOMAIN R = {n \in Names : incidents[n].condition \in {"Loose", "Whole"}}
    BY DEF Readable
  <2>3. \A n \in DOMAIN R \cup {a} :
          incidents'[n].bytes = IF n = a THEN stage.bytes ELSE R[n]
    BY <1>4, <1>5, <2>2 DEF Readable
  <2> HIDE DEF a, R
  <2> QED
    BY <2>1, <2>2, <2>3 DEF Readable
<1>7. Readable(durable)' = Readable(durable)
  BY <1>1 DEF Readable
<1>8. Readable(incidents)' = Readable(incidents')
  BY DEF Readable
<1>9. PICK b \in Sizes : b = stage.bytes
  BY <1>1
<1> HIDE DEF R, a
<1>10. /\ a \in Names \ DOMAIN R /\ Archive!Roomy(R, b)
       /\ Readable(incidents)' = [n \in DOMAIN R \cup {a} |-> IF n = a THEN b ELSE R[n]]
  BY <1>1, <1>3, <1>4, <1>6, <1>8, <1>9
<1> QED
  BY <1>7, <1>10 DEF Archive!Publish, R

\* Retention takes the oldest incident, and only for want of room.
LEMMA EvictFilesEvicts ==
  ASSUME IInv, SpaceInv, NEW name \in Names, EvictFiles(name)
  PROVE  Archive!Evict
<1> DEFINE R == Readable(incidents)
<1>1. /\ pc = "Evict" /\ victim = None /\ NeedsSpace /\ Affordable /\ durable' = durable
      /\ stage.bytes \in Sizes /\ incidents \in [Names -> Directory]
      /\ name \in Present /\ Oldest(name)
  BY DEF EvictFiles, SpaceInv, IInv, TypeOK, Staged, Progress
<1>2. ~Archive!Roomy(R, stage.bytes)
  BY <1>1, RoomyMeansNoNeed
<1>3. DOMAIN R = Present
  BY <1>1, ArchiveIsCounted DEF Validated
<1>4. name \in DOMAIN R /\ \A n \in DOMAIN R : name <= n
  BY <1>1, <1>3 DEF Oldest
<1>5. incidents'[name].condition = "Half" /\ \A n \in Names \ {name} : incidents'[n] = incidents[n]
  BY <1>1 DEF EvictFiles, Directory
<1>6. Readable(incidents') = [n \in DOMAIN R \ {name} |-> R[n]]
  <2>1. {n \in Names : incidents'[n].condition \in {"Loose", "Whole"}}
          = {n \in Names : incidents[n].condition \in {"Loose", "Whole"}} \ {name}
    BY <1>5
  <2>2. DOMAIN R = {n \in Names : incidents[n].condition \in {"Loose", "Whole"}}
    BY DEF Readable
  <2>3. \A n \in DOMAIN R \ {name} : incidents'[n].bytes = R[n]
    BY <1>5, <2>2 DEF Readable
  <2> HIDE DEF R
  <2> QED
    BY <2>1, <2>2, <2>3 DEF Readable
<1>7. Readable(durable)' = Readable(durable)
  BY <1>1 DEF Readable
<1>8. Readable(incidents)' = Readable(incidents')
  BY DEF Readable
<1> HIDE DEF R
<1>9. \E bytes \in Sizes : bytes <= MaxDiskBytes /\ ~Archive!Roomy(R, bytes)
  BY <1>1, <1>2 DEF Affordable
<1>10. Readable(incidents)' = [n \in DOMAIN R \ {name} |-> R[n]]
  BY <1>6, <1>8
<1> QED
  BY <1>4, <1>7, <1>9, <1>10 DEF Archive!Evict, R

\* A failure of the machine loses only what was not yet safe.
LEMMA PowerLossIsFailure ==
  ASSUME IInv, PowerLoss
  PROVE  Archive!MachineFails
<1>1. PICK files \in [Names -> UNION {Survivors(n) : n \in Names}] :
        /\ \A n \in Names : files[n] \in Survivors(n)
        /\ incidents' = files /\ durable' = files
  BY DEF PowerLoss
<1>2. \A n \in Names : /\ files[n].condition # "Loose"
                       /\ incidents[n].condition # "Loose"
                       /\ durable[n].condition # "Loose"
  BY <1>1, SurvivorsFacts DEF IInv, NothingLoose
<1> DEFINE N == Readable(files)
           A == Readable(incidents)
           D == Readable(durable)
<1>3. /\ DOMAIN N = {n \in Names : files[n].condition = "Whole"}
      /\ DOMAIN A = {n \in Names : incidents[n].condition = "Whole"}
      /\ DOMAIN D = {n \in Names : durable[n].condition = "Whole"}
      /\ \A n \in DOMAIN N : N[n] = files[n].bytes
      /\ \A n \in DOMAIN A : A[n] = incidents[n].bytes
      /\ \A n \in DOMAIN D : D[n] = durable[n].bytes
  <2>1. DOMAIN N = {n \in Names : files[n].condition = "Whole"}
        /\ \A n \in DOMAIN N : N[n] = files[n].bytes
    BY <1>2, ReadersFindTheWhole
  <2>2. DOMAIN A = {n \in Names : incidents[n].condition = "Whole"}
        /\ \A n \in DOMAIN A : A[n] = incidents[n].bytes
    BY <1>2, ReadersFindTheWhole
  <2>3. DOMAIN D = {n \in Names : durable[n].condition = "Whole"}
        /\ \A n \in DOMAIN D : D[n] = durable[n].bytes
    BY <1>2, ReadersFindTheWhole
  <2> QED
    BY <2>1, <2>2, <2>3
<1> HIDE DEF N, A, D
<1>4. ASSUME NEW n \in DOMAIN N
      PROVE  \/ n \in DOMAIN A /\ N[n] = A[n]
             \/ n \in DOMAIN D /\ N[n] = D[n]
  <2>1. n \in Names /\ files[n].condition = "Whole" /\ files[n] \in Survivors(n)
    BY <1>1, <1>3, <1>4
  <2>2. files[n] = incidents[n] \/ files[n] = durable[n]
    <3>1. [durable[n] EXCEPT !.condition = "Half"].condition = "Half"
      BY <2>1 DEF IInv, TypeOK, Directory
    <3>2. incidents[n].condition # "Loose"
      BY <1>2, <2>1
    <3> QED
      BY <2>1, <3>1, <3>2 DEF Survivors
  <2> QED
    BY <1>3, <2>1, <2>2
<1>5. ASSUME NEW n \in Names, n \in DOMAIN A, n \in DOMAIN D
      PROVE  n \in DOMAIN N
  <2>1. incidents[n].condition = "Whole" /\ durable[n].condition = "Whole"
    BY <1>3, <1>5
  <2>2. files[n] \in Survivors(n)
    BY <1>1
  <2>3. files[n] = incidents[n] \/ files[n] = durable[n]
    BY <2>1, <2>2 DEF Survivors
  <2> QED
    BY <1>3, <2>1, <2>3
<1>6. Readable(incidents)' = N /\ Readable(durable)' = N
  BY <1>1 DEF Readable, N
<1> QED
  BY <1>4, <1>5, <1>6 DEF Archive!MachineFails, Archive!Same, A, D

\* Every other step is invisible to readers.
LEMMA OthersAreInvisible ==
  ASSUME IInv,
         \/ \E name \in Names : Begin(name) \/ Refuse(name) \/ Abandon(name)
         \/ \E bytes \in Sizes : Encode(bytes)
         \/ WriteMetadata \/ SyncFiles \/ MakeSpace \/ SpaceMade \/ SyncStage
         \/ EvictDirectory \/ Raise \/ Crash \/ Open \/ OpenFails \/ UNCHANGED vars
  PROVE  UNCHANGED <<Readable(incidents), Readable(durable)>>
<1>1. CASE EvictDirectory
  <2>1. /\ victim \in Names /\ incidents[victim].condition = "Half"
        /\ incidents' = [incidents EXCEPT ![victim] = Absent] /\ durable' = durable
        /\ incidents \in [Names -> Directory]
    BY <1>1 DEF EvictDirectory, IInv, HalfInv, TypeOK
  <2>2. /\ incidents'[victim].condition = "Absent"
        /\ \A n \in Names \ {victim} : incidents'[n] = incidents[n]
    BY <2>1 DEF Absent
  <2>3. Readable(incidents') = Readable(incidents)
    BY <2>1, <2>2, SameReadable
  <2>4. Readable(incidents)' = Readable(incidents') /\ Readable(durable)' = Readable(durable)
    BY <2>1 DEF Readable
  <2> QED
    BY <2>3, <2>4
<1>2. CASE ~EvictDirectory
  <2>1. incidents' = incidents /\ durable' = durable
    BY <1>2 DEF Begin, Refuse, Abandon, Encode, WriteMetadata, SyncFiles, MakeSpace,
               SpaceMade, SyncStage, Raise, Crash, Open, OpenFails, vars, disk
  <2> QED
    BY <2>1 DEF Readable
<1> QED
  BY <1>1, <1>2

\* What readers find in incidents/ is an archive, over any sequence of
\* exceptions, kills and power losses: whole incidents only, published when both
\* budgets allow it, evicted oldest first and only for want of room.
THEOREM StoreImplementsArchive == Spec => ImplementsArchive
<1>1. Init => Archive!ArchiveInit
  <2> SUFFICES ASSUME Init PROVE Archive!ArchiveInit
    OBVIOUS
  <2>1. \A n \in Names : incidents[n].condition = "Absent"
    BY DEF Init, Absent
  <2>2. {n \in Names : incidents[n].condition \in {"Loose", "Whole"}} = {}
    BY <2>1
  <2> QED
    BY <2>2 DEF Init, Readable, Archive!ArchiveInit
<1>2. IInv /\ SpaceInv /\ [Next]_vars
        => [Archive!ArchiveNext]_<<Readable(incidents), Readable(durable)>>
  <2> SUFFICES ASSUME IInv, SpaceInv, [Next]_vars
               PROVE  \/ Archive!ArchiveNext
                      \/ UNCHANGED <<Readable(incidents), Readable(durable)>>
    OBVIOUS
  <2>1. CASE Rename
    BY <2>1, RenamePublishes DEF Archive!ArchiveNext
  <2>2. ASSUME NEW name \in Names, EvictFiles(name) PROVE Archive!ArchiveNext
    BY <2>2, EvictFilesEvicts DEF Archive!ArchiveNext
  <2>3. CASE SyncIncidents
    <3>1. Archive!MakeSafe
      BY <2>3 DEF SyncIncidents, Archive!MakeSafe, Readable
    <3> QED
      BY <3>1 DEF Archive!ArchiveNext
  <2>4. CASE PowerLoss
    BY <2>4, PowerLossIsFailure DEF Archive!ArchiveNext
  <2> QED
    BY <2>1, <2>2, <2>3, <2>4, OthersAreInvisible DEF Next, Step
<1> QED
  BY <1>1, <1>2, InvHolds, SpaceHolds, PTL DEF Spec, ImplementsArchive, Archive!ArchiveSpec
==============================================================================
