-------------------------- MODULE IncidentAssembler --------------------------
(***************************************************************************)
(* The offline assembler (assembler/core.py, assemble_incident): it joins  *)
(* one recorded incident to the perception stream it came from, cuts the   *)
(* causal windows and publishes their clips and requests as one directory  *)
(* that nobody has published before.  Other processes replace its inputs,  *)
(* move the output's parent and take the output's name meanwhile; a step   *)
(* may raise, the process may be killed and the power may fail.            *)
(***************************************************************************)
EXTENDS CausalWindows, IncidentContract

CONSTANTS
  Incidents,           \* contents the incident directory may have
  Streams,             \* contents the perception file may have
  Parents,             \* directories the output's parent path may name
  Foreign,             \* what another process puts at the output's name
  MaxRuns,             \* bound: runs of the command
  MaxChanges,          \* bound: changes by other processes
  Nothing

ASSUME AssemblerAssumption == MaxRuns \in Nat /\ MaxChanges \in Nat

\* A perception file is a list of records, each with finitely many tracks.
IsList(s) == s \in Seq({s[i] : i \in DOMAIN s})

ASSUME StreamsAssumption ==
  \A s \in Streams : IsList(s) /\ \A i \in DOMAIN s : IsFiniteSet(s[i].tracks)

\* The inference command is given the window that the clips were cut with.
ASSUME SameWindow == Window = InferenceWindow

VARIABLES
  incident, perceptions,     \* the inputs on disk
  parent,       \* the directory that the parent path names
  published,    \* by directory, what stands at the output's name: {} or one entry
  settled,      \* the directories whose last entry is on the disk
  debris,       \* staging directories left behind
  runs, changes,
  step,         \* where the command stands
  held,         \* output_parent_descriptor
  contract, snapshot, records, windows,
  stage,        \* the staging directory, Nothing when there is none
  reported      \* the directories of the results returned so far

inputs == <<incident, perceptions, parent>>
gathered == <<contract, snapshot, records, windows>>
assemblerVars == <<inputs, published, settled, debris, runs, changes, step, held,
                   gathered, stage, reported>>

FileNames == <<"requests", "perceptions", "incident", "provenance">>

EmptyStage == [clips |-> <<>>, files |-> <<>>, synced |-> FALSE]

Init ==
  /\ incident \in Incidents /\ perceptions \in Streams
  /\ parent \in Parents
  /\ published = [d \in Parents |-> {}] /\ settled = Parents /\ debris = 0
  /\ runs = 0 /\ changes = 0 /\ step = "idle" /\ held = Nothing
  /\ contract = Nothing /\ snapshot = Nothing /\ records = <<>> /\ windows = <<>>
  /\ stage = Nothing /\ reported = {}

-----------------------------------------------------------------------------
(* Gathering the evidence.  Every input is read once, whole: a file that   *)
(* changes while it is read raises.                                        *)

\* The output's name is free, and its parent is opened.
Begin ==
  /\ step = "idle" /\ runs < MaxRuns
  /\ published[parent] = {}
  /\ held' = parent /\ runs' = runs + 1 /\ step' = "begun"
  /\ UNCHANGED <<inputs, published, settled, debris, changes, gathered, stage, reported>>

OpenIncident ==
  /\ step = "begun"
  /\ Openable(incident)
  /\ contract' = incident.meta
  /\ step' = "opened"
  /\ UNCHANGED <<inputs, published, settled, debris, runs, changes, held,
                 snapshot, records, windows, stage, reported>>

\* _snapshot_clip: the copy's own hash is compared with the metadata.
Matches(clip) == clip = contract.clip

SnapshotClip ==
  /\ step = "opened"
  /\ Matches(incident.clip)
  /\ snapshot' = incident.clip
  /\ step' = "snapshotted"
  /\ UNCHANGED <<inputs, published, settled, debris, runs, changes, held,
                 contract, records, windows, stage, reported>>

LoadPerceptions ==
  /\ step = "snapshotted"
  /\ ValidPerceptions(perceptions)
  /\ LET found == RecordsOf(perceptions, contract)
     IN Reconciles(found, contract) /\ records' = found
  /\ step' = "loaded"
  /\ UNCHANGED <<inputs, published, settled, debris, runs, changes, held,
                 contract, snapshot, windows, stage, reported>>

SelectWindows ==
  /\ step = "loaded"
  /\ Decodes(snapshot, contract)
  /\ Selectable(records)
  /\ windows' = Windows(records)
  /\ step' = "selected"
  /\ UNCHANGED <<inputs, published, settled, debris, runs, changes, held,
                 contract, snapshot, records, stage, reported>>

-----------------------------------------------------------------------------
(* Staging.  The staging directory lies in the directory that is held.     *)

MakeStage ==
  /\ step = "selected"
  /\ stage' = EmptyStage
  /\ step' = "staging"
  /\ UNCHANGED <<inputs, published, settled, debris, runs, changes, held, gathered, reported>>

WriteClip ==
  /\ step = "staging"
  /\ Len(stage.clips) < Len(windows)
  /\ stage' = [stage EXCEPT !.clips =
                 Append(@, WindowRequest(windows, Len(@) + 1, snapshot.footage))]
  /\ UNCHANGED <<inputs, published, settled, debris, runs, changes, step, held,
                 gathered, reported>>

\* The requests and their records pass the contracts of their readers.
CheckOwnContract ==
  /\ step = "staging"
  /\ Len(stage.clips) = Len(windows)
  /\ ValidRequests(stage.clips) /\ ValidPerceptions(Selected(windows))
  /\ step' = "writing"
  /\ UNCHANGED <<inputs, published, settled, debris, runs, changes, held, gathered,
                 stage, reported>>

Content(name) ==
  CASE name = "requests" -> stage.clips
    [] name = "perceptions" -> Selected(windows)
    [] name = "incident" -> records
    [] name = "provenance" -> contract

\* _write_exclusive: each file is synced before it is closed.
WriteFile ==
  /\ step = "writing"
  /\ Len(stage.files) < Len(FileNames)
  /\ stage' = [stage EXCEPT !.files = Append(@, Content(FileNames[Len(@) + 1]))]
  /\ UNCHANGED <<inputs, published, settled, debris, runs, changes, step, held,
                 gathered, reported>>

SyncStage ==
  /\ step = "writing"
  /\ Len(stage.files) = Len(FileNames)
  /\ stage' = [stage EXCEPT !.synced = TRUE]
  /\ step' = "synced"
  /\ UNCHANGED <<inputs, published, settled, debris, runs, changes, held, gathered, reported>>

-----------------------------------------------------------------------------
(* Publication: _rename_no_replace and what follows it. *)

\* Slip: the name was free when the command began.
RenamesOver == parent = held

\* The parent path must still name the directory that is held, and the
\* kernel refuses a name that is taken.
MayRename == parent = held /\ published[held] = {}

Rename ==
  /\ step = "synced"
  /\ MayRename
  /\ published' = [published EXCEPT ![held] = {stage}]
  /\ settled' = settled \ {held}
  /\ stage' = Nothing
  /\ step' = "renamed"
  /\ UNCHANGED <<inputs, debris, runs, changes, held, gathered, reported>>

SyncParent ==
  /\ step = "renamed"
  /\ settled' = settled \union {held}
  /\ step' = "settled"
  /\ UNCHANGED <<inputs, published, debris, runs, changes, held, gathered, stage, reported>>

\* What the process knew is gone when it ends.
Forget ==
  /\ step' = "idle" /\ held' = Nothing
  /\ contract' = Nothing /\ snapshot' = Nothing /\ records' = <<>> /\ windows' = <<>>
  /\ stage' = Nothing

Report ==
  /\ step = "settled"
  /\ parent = held
  /\ reported' = reported \union {held}
  /\ Forget
  /\ UNCHANGED <<inputs, published, settled, debris, runs, changes>>

\* A check that does not hold, or a call that raises, at any step: the
\* staging directory is removed, unless its removal raises too.
Raise ==
  /\ step # "idle"
  /\ debris' \in IF stage = Nothing THEN {debris} ELSE {debris, debris + 1}
  /\ Forget
  /\ UNCHANGED <<inputs, published, settled, runs, changes, reported>>

Kill ==
  /\ step # "idle" /\ stage # Nothing
  /\ debris' = debris + 1
  /\ Forget
  /\ UNCHANGED <<inputs, published, settled, runs, changes, reported>>

\* A rename that was not synced may be undone, the entries of a directory
\* that was not synced may be gone.
AfterPowerLoss(d) ==
  IF d \in settled THEN {published[d]}
  ELSE {{}, published[d]}
         \union {{EmptyStage} : entry \in {e \in published[d] : ~e.synced}}

LosePower ==
  /\ changes < MaxChanges
  /\ changes' = changes + 1
  /\ \E disk \in [Parents -> UNION {AfterPowerLoss(d) : d \in Parents}] :
       (\A d \in Parents : disk[d] \in AfterPowerLoss(d)) /\ published' = disk
  /\ settled' = Parents
  /\ debris' = IF stage = Nothing THEN debris ELSE debris + 1
  /\ Forget
  /\ UNCHANGED <<inputs, runs, reported>>

-----------------------------------------------------------------------------
(* Other processes. *)

MayChange == step # "idle" /\ changes < MaxChanges /\ changes' = changes + 1

ReplaceIncident ==
  /\ MayChange
  /\ \E other \in Incidents \ {incident} : other.name = incident.name /\ incident' = other
  /\ UNCHANGED <<perceptions, parent, published, settled, debris, runs, step, held, gathered,
                 stage, reported>>

ReplacePerceptions ==
  /\ MayChange
  /\ \E other \in Streams \ {perceptions} : perceptions' = other
  /\ UNCHANGED <<incident, parent, published, settled, debris, runs, step, held, gathered,
                 stage, reported>>

MoveParent ==
  /\ MayChange
  /\ \E other \in Parents \ {parent} : parent' = other
  /\ UNCHANGED <<incident, perceptions, published, settled, debris, runs, step, held, gathered,
                 stage, reported>>

TakeName ==
  /\ MayChange
  /\ published[parent] = {}
  /\ published' = [published EXCEPT ![parent] = {Foreign}]
  /\ UNCHANGED <<inputs, settled, debris, runs, step, held, gathered, stage, reported>>

Next ==
  \/ Begin
  \/ OpenIncident
  \/ SnapshotClip
  \/ LoadPerceptions
  \/ SelectWindows
  \/ MakeStage
  \/ WriteClip
  \/ CheckOwnContract
  \/ WriteFile
  \/ SyncStage
  \/ Rename
  \/ SyncParent
  \/ Report
  \/ Raise
  \/ Kill
  \/ LosePower
  \/ ReplaceIncident
  \/ ReplacePerceptions
  \/ MoveParent
  \/ TakeName

Spec == Init /\ [][Next]_assemblerVars

-----------------------------------------------------------------------------
(* Properties. *)

Results == (UNION {published[d] : d \in Parents}) \ {Foreign}

\* Whatever stands at the output's name by this command, after any failures
\* and replacements, is a whole directory that the inference command takes
\* with the same window and latency: valid requests, one for each cat of the
\* selected records, timed as asked.
IsAccepted(result) ==
  /\ Len(result.files) = Len(FileNames)
  /\ result.files[1] = result.clips
  /\ ValidPerceptions(result.files[2]) /\ ValidRequests(result.clips)
  /\ Bound(result.files[2], result.clips)
  /\ \A i \in DOMAIN result.clips : Timed(result.clips[i])

PublishedIsAccepted == \A result \in Results : IsAccepted(result)

\* The records of the incident that a request's clip shows.
Shown(result, request) ==
  {i \in DOMAIN result.files[3] :
     \E k \in DOMAIN request.times : result.files[3][i].at = request.times[k]}

\* A clip that is published shows one animal up to the moment that is asked
\* about: no other cat is on any of its frames, none of them is later, and
\* each is the frame of the one incident that was taken at the stated time.
ShowsItsCat(result, request) ==
  LET meta == result.files[4]
  IN /\ Reconciles(result.files[3], meta)
     /\ request.clip.frames = Len(request.times)
     /\ Cardinality(Shown(result, request)) = Len(request.times)
     /\ \A i \in Shown(result, request) :
          /\ \A t \in Cats(result.files[3][i]) : t.id = request.key[2]
          /\ result.files[3][i].at <= request.at
          /\ \A k \in DOMAIN request.times : result.files[3][i].at = request.times[k] =>
               request.clip.footage[k] = meta.clip.footage[i]

ClipsShowTheirCat ==
  \A result \in Results : \A n \in DOMAIN result.clips : ShowsItsCat(result, result.clips[n])

\* The command never fails on what it derived itself: once the evidence was
\* accepted, the requests made of it and their records pass the contracts of
\* their readers, although these demand more than a perception stream keeps.
DerivedIsValid ==
  step = "staging" /\ Len(stage.clips) = Len(windows) =>
    ValidRequests(stage.clips) /\ ValidPerceptions(Selected(windows))

\* What stands at the output's name stays, whoever put it there and whatever
\* fails; only a power loss may take back what was not reported yet.
NothingIsReplaced ==
  [][\A d \in Parents : published[d] # {} =>
       \/ published'[d] = published[d]
       \/ LosePower /\ published'[d] = {} /\ d \notin settled \union reported]_assemblerVars
=============================================================================
