---------------------------- MODULE IncidentStore ----------------------------
(***************************************************************************)
(* Atomic publication and retention of recorder/.../storage.py: one        *)
(* recorder process stages, syncs and renames an incident after evicting   *)
(* old ones.  Every system call that a crash can separate from the next is *)
(* a step.  A crash kills the process and keeps the files; a power loss    *)
(* also undoes whatever was not synced.                                    *)
(*                                                                         *)
(* An incident's name is its trigger's capture time.  Validation of        *)
(* metadata, hashes and permissions is kept as the difference between a    *)
(* whole directory and a half one.                                         *)
(***************************************************************************)
EXTENDS Integers, FiniteSets, FiniteSetsExt

CONSTANTS
  None,
  Names,                 \* capture times: a set of natural numbers
  Sizes,                 \* bytes of an encoded incident with its metadata
  MaxIncidents, MaxDiskBytes,
  IOErrors,              \* system calls and the encoder may raise
  PowerLosses,           \* power may fail
  ClockRestarts          \* the next session's capture times start anew

ASSUME StoreAssumption ==
  /\ Names \subseteq Nat /\ Sizes \subseteq Nat \ {0} /\ None \notin Nat
  /\ MaxIncidents \in Nat \ {0} /\ MaxDiskBytes \in Nat \ {0}
  /\ IOErrors \in BOOLEAN /\ PowerLosses \in BOOLEAN /\ ClockRestarts \in BOOLEAN

VARIABLES
  pc,                    \* where publish is, "Down" when no process runs
  stage,                 \* the directory publish fills, None when it fills none
  victim,                \* the incident rmtree is in the middle of, or None
  incidents,             \* incidents/ as processes see it
  durable,               \* incidents/ as it was last synced
  staging,               \* names with a directory in .staging, which is never synced
  lastName,              \* the last name this session published or tried
  reported,              \* names publish returned and retention did not remove
  evicted                \* history: names retention began to remove

process == <<pc, stage, victim, lastName>>
disk == <<incidents, durable, staging>>
history == <<reported, evicted>>
vars == <<process, disk, history>>

\* Loose: renamed before its files were synced.  Half: some files are missing.
Absent == [condition |-> "Absent", bytes |-> 0]
Conditions == {"Absent", "Half", "Loose", "Whole"}
Directory == [condition : Conditions, bytes : Nat]
Progress == {"Encode", "Metadata", "SyncFiles", "MakeSpace", "Evict",
             "SyncStage", "Rename", "SyncIncidents"}
Staged == Progress \ {"SyncIncidents"}
Stage == [bytes : Nat, written : BOOLEAN, filesSynced : BOOLEAN, entriesSynced : BOOLEAN]

In(condition) == {n \in Names : incidents[n].condition = condition}
Present == {n \in Names : incidents[n].condition # "Absent"}
Bytes == MapThenSumSet(LAMBDA n : incidents[n].bytes, Present)

\* _published validates every managed incident and raises at the first bad one.
AllValid == In("Half") = {}

-----------------------------------------------------------------------------
\* publish, one system call after another.

Goto(from, to) == pc = from /\ pc' = to

\* The recorder's triggers are strictly increasing within a session.
NextName(name) == lastName # None => name > lastName

Called(name) == pc = "Idle" /\ NextName(name) /\ lastName' = name
IsNew(name) == incidents[name].condition = "Absent"

Begin(name) ==
  /\ Called(name) /\ IsNew(name)
  /\ pc' = "Encode" /\ staging' = staging \cup {name}
  /\ stage' = [bytes |-> 0, written |-> FALSE, filesSynced |-> FALSE,
               entriesSynced |-> FALSE]
  /\ UNCHANGED <<victim, incidents, durable, history>>

\* publish raises before it has a directory: refusing overwrite, or a failed call.
Refuse(name) ==
  /\ Called(name) /\ (~IsNew(name) \/ IOErrors)
  /\ UNCHANGED <<pc, stage, victim, disk, history>>

\* A call after mkdtemp raises before the try: nothing removes the directory.
Abandon(name) ==
  /\ Called(name) /\ IsNew(name) /\ IOErrors
  /\ staging' = staging \cup {name}
  /\ UNCHANGED <<pc, stage, victim, incidents, durable, history>>

Encode(bytes) ==
  /\ Goto("Encode", "Metadata")
  /\ stage' = [stage EXCEPT !.bytes = bytes]
  /\ UNCHANGED <<victim, lastName, disk, history>>

WriteMetadata ==
  /\ Goto("Metadata", "SyncFiles")
  /\ stage' = [stage EXCEPT !.written = TRUE]
  /\ UNCHANGED <<victim, lastName, disk, history>>

SkipFiles ==                               \* slip: the files are not synced
  /\ Goto("SyncFiles", "MakeSpace")
  /\ UNCHANGED <<stage, victim, lastName, disk, history>>

SyncFiles ==
  /\ Goto("SyncFiles", "MakeSpace")
  /\ stage' = [stage EXCEPT !.filesSynced = TRUE]
  /\ UNCHANGED <<victim, lastName, disk, history>>

Affordable == stage.bytes <= MaxDiskBytes

MakeSpace ==
  /\ Goto("MakeSpace", "Evict")
  /\ Affordable /\ AllValid
  /\ UNCHANGED <<stage, victim, lastName, disk, history>>

NeedsSpaceLate ==                          \* slip: one incident too many
  Cardinality(Present) > MaxIncidents \/ Bytes + stage.bytes > MaxDiskBytes

NeedsSpace ==
  Cardinality(Present) >= MaxIncidents \/ Bytes + stage.bytes > MaxDiskBytes

Newest(name) == \A n \in Present : n <= name      \* slip: popped from the wrong end
Oldest(name) == \A n \in Present : name <= n      \* published sorts by name

\* rmtree removes the files of the first incident, then its directory.
EvictFiles(name) ==
  /\ pc = "Evict" /\ victim = None /\ NeedsSpace
  /\ name \in Present /\ Oldest(name)
  /\ victim' = name
  /\ incidents' = [incidents EXCEPT ![name].condition = "Half"]
  /\ reported' = reported \ {name} /\ evicted' = evicted \cup {name}
  /\ UNCHANGED <<pc, stage, lastName, durable, staging>>

EvictDirectory ==
  /\ pc = "Evict" /\ victim # None
  /\ incidents' = [incidents EXCEPT ![victim] = Absent]
  /\ victim' = None
  /\ UNCHANGED <<pc, stage, lastName, durable, staging, reported, evicted>>

SpaceMade ==
  /\ Goto("Evict", "SyncStage")
  /\ victim = None /\ ~NeedsSpace
  /\ UNCHANGED <<stage, victim, lastName, disk, history>>

SyncStage ==
  /\ Goto("SyncStage", "Rename")
  /\ stage' = [stage EXCEPT !.entriesSynced = TRUE]
  /\ UNCHANGED <<victim, lastName, disk, history>>

Renamed ==
  [condition |-> IF stage.written /\ stage.filesSynced /\ stage.entriesSynced
                 THEN "Whole" ELSE "Loose",
   bytes |-> stage.bytes]

Rename ==
  /\ Goto("Rename", "SyncIncidents")
  /\ incidents' = [incidents EXCEPT ![lastName] = Renamed]
  /\ staging' = staging \ {lastName} /\ stage' = None
  /\ evicted' = evicted \ {lastName}
  /\ UNCHANGED <<victim, lastName, durable, reported>>

SkipIncidents ==                           \* slip: the rename is not synced
  /\ Goto("SyncIncidents", "Idle")
  /\ reported' = reported \cup {lastName}
  /\ UNCHANGED <<stage, victim, lastName, disk, evicted>>

SyncIncidents ==
  /\ Goto("SyncIncidents", "Idle")
  /\ durable' = incidents
  /\ reported' = reported \cup {lastName}
  /\ UNCHANGED <<stage, victim, lastName, incidents, staging, evicted>>

\* Any step may raise: what was evicted stays evicted, and after the rename the
\* incident stays published though publish raises.  The directory is removed,
\* unless the removal raises in its turn.
MustRaise == pc = "MakeSpace" /\ (~Affordable \/ ~AllValid)

Raise ==
  /\ pc \in Progress /\ (IOErrors \/ MustRaise)
  /\ pc' = "Idle" /\ stage' = None /\ victim' = None
  /\ staging' = staging \ {lastName} \/ (IOErrors /\ staging' = staging)
  /\ UNCHANGED <<lastName, incidents, durable, history>>

-----------------------------------------------------------------------------
\* The process and the machine.

Crash ==
  /\ pc # "Down"
  /\ pc' = "Down" /\ stage' = None /\ victim' = None
  /\ UNCHANGED <<lastName, disk, history>>

\* Changes to incidents/ since its last sync may be kept or lost one by one.
Survivors(name) ==
  LET seen == incidents[name]  kept == durable[name]
      removed == kept.condition # "Absent" /\ seen.condition \in {"Absent", "Half"}
  IN  {IF seen.condition = "Loose" THEN [seen EXCEPT !.condition = "Half"] ELSE seen, kept}
        \cup (IF removed THEN {[kept EXCEPT !.condition = "Half"]} ELSE {})

PowerLoss ==
  /\ PowerLosses
  /\ pc' = "Down" /\ stage' = None /\ victim' = None
  /\ staging' \in SUBSET Names
  /\ \E files \in [Names -> UNION {Survivors(n) : n \in Names}] :
       /\ \A n \in Names : files[n] \in Survivors(n)
       /\ incidents' = files /\ durable' = files
  /\ UNCHANGED <<lastName, reported, evicted>>

Reopened == lastName' = IF ClockRestarts THEN None ELSE lastName

OpenUncleaned ==                           \* slip: stale staging stays
  /\ pc = "Down" /\ Reopened
  /\ pc' = IF AllValid THEN "Idle" ELSE "Down"
  /\ UNCHANGED <<stage, victim, disk, history>>

\* A new IncidentStore: stale staging is removed first, then every published
\* incident must validate or the store does not open.
Open ==
  /\ pc = "Down" /\ Reopened
  /\ staging' = {}
  /\ pc' = IF AllValid THEN "Idle" ELSE "Down"
  /\ UNCHANGED <<stage, victim, incidents, durable, history>>

\* A call raises on the way: the store does not open, part of staging is gone.
OpenFails ==
  /\ pc = "Down" /\ IOErrors /\ Reopened
  /\ staging' \in SUBSET staging
  /\ UNCHANGED <<pc, stage, victim, incidents, durable, history>>

Init ==
  /\ pc = "Down" /\ stage = None /\ victim = None /\ lastName = None
  /\ incidents = [n \in Names |-> Absent] /\ durable = incidents
  /\ staging = {} /\ reported = {} /\ evicted = {}

Step ==
  \/ (\E name \in Names : Begin(name) \/ Refuse(name) \/ Abandon(name))
  \/ (\E bytes \in Sizes : Encode(bytes))
  \/ (\E name \in Names : EvictFiles(name))
  \/ WriteMetadata \/ SyncFiles \/ MakeSpace \/ EvictDirectory
  \/ SpaceMade \/ SyncStage \/ Rename \/ SyncIncidents

Next == Step \/ Raise \/ Crash \/ PowerLoss \/ Open \/ OpenFails

Spec == Init /\ [][Next]_vars

-----------------------------------------------------------------------------
\* What the store must keep.

TypeOK ==
  /\ pc \in Progress \cup {"Down", "Idle"}
  /\ stage \in Stage \cup {None}
  /\ victim \in Names \cup {None} /\ lastName \in Names \cup {None}
  /\ incidents \in [Names -> Directory] /\ durable \in [Names -> Directory]
  /\ staging \subseteq Names /\ reported \subseteq Names /\ evicted \subseteq Names
  /\ pc \in Staged => stage \in Stage

\* An incident that publish returned is there, whole, until retention removes it,
\* whatever crashes in between (storage.py:503-520, sync before and after rename).
ReportedIsDurable ==
  \A n \in reported : incidents[n].condition = "Whole" /\ durable[n] = incidents[n]

\* A publication never makes the store exceed its budgets, not even after a power
\* loss brought evicted incidents back (storage.py:403-419).
BudgetsKept ==
  pc = "SyncIncidents" =>
    Cardinality(Present) <= MaxIncidents /\ Bytes <= MaxDiskBytes

\* What publications that failed leave in staging is never an incident that
\* readers see too, and is gone when the next session starts: a running recorder
\* only has its own (storage.py:59, 122-126, 466-469, 521-523).
StagingIsThisSessions ==
  pc # "Down" => \A n \in staging : lastName # None /\ n <= lastName /\ IsNew(n)

\* An incident is only ever half there because its eviction was cut short.
\* (A rename publishes clip and metadata together, storage.py:503-514.)
HalfMeansEvicted == In("Half") \subseteq evicted

Readable(files) ==
  LET named == {n \in Names : files[n].condition \in {"Loose", "Whole"}}
  IN  [n \in named |-> files[n].bytes]

Archive ==
  INSTANCE IncidentArchive
    WITH archive <- Readable(incidents), safe <- Readable(durable)

\* Readers see the abstract archive (storage.py:403-419, 503-520).
ImplementsArchive == Archive!ArchiveSpec
=============================================================================
