# Foliage Warden: specifications, model checks and proofs

Foliage Warden watches plants with a camera and may answer a cat that eats or
digs with one short deterrent burst. This directory specifies, in TLA+, the
parts of it whose correctness lies in orderings, failures and timing: the
safety policy engine and its actuator, the recorder, the incident store, the
annotation review, the deterministic simulator, and the offline chain from
perception over the temporal model's predictions to a replayed policy, with the
assembler that feeds it. Each module is checked with TLC on small instances, and
eight proof modules hold theorems, checked with TLAPS, for every value of the
constants. `PROJECT.json` maps every definition to the lines it models and lists
the runs, the properties, the hazards and the theorems.

## 1. The system

| Part | Code | State it keeps | Operations | What is hard |
| --- | --- | --- | --- | --- |
| Safety policy engine | `cpp/src/policy_engine.cpp` | policy state, last clock, cached frame and snapshot, event latch, track and behaviour candidates, aim and cooldown times, command ids | `step(inputs)` | order of about twenty early returns, lost answers, saturating clocks, ids running out, frames repeated or late |
| Mock actuator | `cpp/src/mock_actuator.cpp` | device status, ledger of executed ids | `execute`, `set_status` | denied, timed-out, garbled answers; status that changes by itself |
| Incident recorder | `recorder/.../core.py`, `runner.py` | pre-event buffer with byte counter, active incident, suppression | `process`, `close`, `abort` | four memory limits, gaps between frames, limits in mid-incident, a failing publication |
| Incident store | `recorder/.../storage.py` | a directory per incident, a staging directory | opening, `publish`, retention | exceptions, kills and power losses between any two system calls |
| Annotation review | `review/.../storage.py`, `server.py`, `web/app.js` | a revisioned JSON file, the server's copy of it, each page's copy | open a page, save, archive | racing pages, a write that fails half way, a server killed before it answers |
| Simulator | `simulator/.../engine.py` | virtual clock, policy, incidents, pending commands, a heap of internal work, two epochs | one per scenario input, one per answer or timeout | answers that outlive aims, arms, restarts; timeouts racing answers |
| Perception | `perception/.../tracking.py`, `pipeline.py`, `geometry.py`, `yolox.py` | live tracks, next number, the file written so far | one frame: decode, suppress, associate, relate to zones, write a line | numbers lent to another animal, ties, missed frames, rounding, a line torn by a kill |
| Shadow inference | `shadow/.../inference.py`, `contracts.py`, `infer_cli.py` | the manifest, the model in memory, the answers | bind, verify model and sidecar, one clip after the other, publish | files replaced between a hash and a use |
| Shadow fusion and replay | `shadow/.../fusion.py`, `runner.py`, `cli.py` | the frames joined so far, the last delivery, diagnostics | join a record, assemble a scenario, replay, write outputs | late, missing, crossing predictions; a configuration that changes; delivery order |
| Scenario contract | `simulator/.../validation.py` | none | accept a configuration and a timeline | what the shadow command writes must pass |
| Assembler | `assembler/.../core.py` | the evidence read so far, a staging directory | read and reconcile, select windows, stage, publish | inputs replaced between two reads, windows with another cat, a name that is taken meanwhile, failures around the rename |
| Event evaluation | `python/.../matching.py`, `safety.py`, `splitting.py` | none | maximum matching, safety rules, split by group | optimality, leakage between splits |
| Detection evaluation, training, tools | `detection-eval`, `training`, `tools` | files | numeric work, downloads, reports | not control |

How they interact. The C++ engine is called by one caller at a time with a
monotonic clock, the newest frame, an operator control and a safety snapshot; it
calls the actuator synchronously. The recorder is fed the observations of the
same stream one by one and hands each finished clip to the store's `publish`.
The review server reads the store's incidents and keeps annotations in its own
file; several browser pages call it over HTTP. The simulator restates the
policy with asynchronous commands, and the evaluators read what it and the
engine record. Perception writes one JSON line per frame. The assembler cuts causal
windows out of a recorded incident and the perception records it came from; the
inference command answers them; the shadow command joins the answers to the
perception file and replays them through the simulator. The engine and its
device share a call and are one specification. Perception, inference and fusion
share files, and `ShadowChain` composes them: what one publishes is what the next
one finds, or finds damaged. The assembler shares the window and request modules
with the chain. The other links are files whose readers check them, and these
parts are specified one by one.

What makes each part correct:

* engine: at most one burst per continuous event over every arm, fault and lost
  answer; a burst only on fresh, unbroken evidence of one track that one harmful
  behaviour held long enough for the confirmation; a fault is left
  only by an acknowledged disarm and stops the device; ids are never reused.
* recorder: memory limits hold for the pixels really held; clips are short, share
  no frame and hold nothing outside the windows around a trigger; one clip per
  visit, unless `publish` raised for a clip that stayed and the caller went on.
* store: what was reported is durable; budgets hold; readers see whole
  incidents; what failures leave in staging is this session's and never an
  incident too.
* review: a revision names one state, nothing saved is lost, nobody overwrites
  what they did not see.
* simulator: one burst per incident, on fresh evidence; no early end of a
  cooldown; no wait without an answer to come; a lost camera faults in time.
* perception: a number names one animal's life; a continued identity that is not
  marked ambiguous does not depend on the order in which pairs are taken.
* inference: a published prediction names the model and the bytes it came from.
* fusion: frames are shown in order, each within its timeout, with no knowledge
  from later; every prediction is accounted for; the simulator accepts what the
  command assembles, but for conditions that the command leaves unchecked.
* assembler: what is published is accepted by the inference command; a clip shows
  one cat up to the moment that is asked about; the command never fails on what it
  derived itself; nothing is ever replaced.

## 2. Modules

| Module | Models |
| --- | --- |
| `ActuatorModel` | the device: `execute`, its default answer, scripted answers, `set_status` |
| `PolicyEngine` | `PolicyEngine::step`, one action per branch, with its calls to the device |
| `OneShotPolicy` | abstract: incidents open and close, at most one shot in each |
| `PolicyObserver` | the engine composed with an observer that sees only the accepted frames |
| `PolicyInstances`, `MCPolicyEngine`, `MCPolicyObserver` | frames, snapshots and devices of the small instances |
| `PolicyEngineProofs` | theorems about `PolicyEngine` and `PolicyObserver` |
| `Recorder` | `IncidentRecorder` and the abort and close of its runner |
| `RecorderProofs` | theorems about `Recorder` |
| `IncidentStore` | opening, publication and retention, a system call per step |
| `IncidentArchive` | abstract: what readers see, with atomic publication and eviction |
| `IncidentStoreProofs` | theorems about `IncidentStore` |
| `AnnotationReview`, `MCAnnotationReview` | pages, requests, the revisioned file, kills and restarts |
| `ReviewProofs` | theorems about `AnnotationReview` |
| `Simulator`, `MCSimulator` | the virtual-time policy and its transport |
| `SimulatorProofs` | theorems about `Simulator` |
| `WireValues` | the safe integers, ratios, boxes and sums of the JSON contracts |
| `ShadowStreams` | what the shadow package accepts of a perception record and of a prediction |
| `Perception` | detection, the tracker, zone evidence and the loop that writes records |
| `InferenceRequests` | the manifest: what inference accepts and the assembler writes |
| `CausalWindows` | the assembler's choice of targets and their windows |
| `ShadowInference` | the inference command, with its model, sidecar and clips on disk |
| `ScenarioContract` | what the simulator accepts before it runs |
| `ShadowFusion` | the replay command |
| `ShadowChain`, `MCShadow` | perception, inference or another predictor, and replay, composed |
| `IncidentContract` | the recorder's metadata and its reconciliation with perception |
| `IncidentAssembler`, `MCIncidentAssembler` | the assembler, over two runs, with others changing its files |
| `ShadowProofs` | theorems about `ShadowChain` and its parts |
| `AssemblerProofs` | theorems about `IncidentAssembler` |
| `Ranking` | sorting by counting, for the code's `sort` calls and ordered selections |
| `SharedLemmas` | induction, sums, ranks and sequences, for the proofs |

### Policy engine

`step` is a cascade of early returns. Every action of `PolicyEngine` is one
branch of it, from the call to the return, with the commands it sends and
their answers; its guard repeats the conditions that let the code come so far.
The C++ members appear as variables of the same names, grouped (`inputs`,
`latch`, `candidates`, `firing`). Commands go through `Execute`, which runs the
device's handler in `ActuatorModel`, so `link` holds the device's status, the
next id, whether ids ran out, and what the current step sent. `bursts` is
history. A frame's scores and overlaps are compared with the thresholds when
the frame is made (`confident`, `inRegion`, `quality`), as only these outcomes
reach the control flow. Times keep their width: `SaturatingAdd` is bounded
by `MaxTimestamp`, ids by `MaxCommandId`, as the 64-bit types bound them.
`ImplementsOneShot` maps the event latch to an open incident and `bursts` to shots.

### Recorder and store

`Recorder` has one action per branch of `process`, with byte counters kept beside
the frames so that a drift between them would show. The sequence
number and the capture time of an observation are merged into `at`; `visit`
labels unbroken runs of triggers and is history. When `publish` raises, the clip is
lost (`"Failed"`) or, when the error came after the rename (`storage.py:514-526`),
stays on disk (`"Kept"`, marked `raised`); either way the code has already forgotten
the active incident and sets no suppression (`core.py:225-237`). `run_paired` then
aborts. A caller that goes on may get a second clip of the visit after one that
stayed; `OneClipPerVisit` excepts just that.

`IncidentStore` is a program counter over the system calls of `publish`,
retention and opening. `incidents` is what a reader sees, `durable` what a power
loss leaves; a directory is absent, loose (renamed but not synced),
whole or half (an eviction by `rmtree` was cut short). `staging` holds the names with
a directory in `.staging`. `Raise` is an exception
at any step; its cleanup may raise too (`storage.py:521-523`), and a call between
`mkdtemp` and the `try` has none (`:466-469`), so a stage may stay behind in the
session. Opening removes what is there. `Crash` is a killed process, `PowerLoss` falls back to
what was synced. The abstract archive publishes and evicts in one step.

### Review

A call is a page's request from click to answer; the server's lock is held from
the revision check to the reply, and the file may be replaced, or the
write may fail before or after replacing it, while it is held. `Stop` kills the
server at any moment; `Start` reads the file again. `seen`, `page` and `saved`
are history. The form is left out: a page may submit any value at any time.

### Simulator

Inputs come at virtual times, at most `MaxInputs` at one time; work that is due
is done when no more inputs come at its time, in the order it was inserted. Void
work (an older epoch, an older camera generation, a finished command) is dropped
from `internal` instead of being skipped when it is popped. An observation is
kept as `Blocked`, `Clear`, `Weak` (a harmful label below a threshold) or
`Harmful`, with its key and capture time, since the recheck before a burst
ignores the thresholds and `BurstIsWarranted` asks whether that matters. The
evidence of a key is the set of its supporting times. `bursts` is history.

### The shadow chain

The image is one line of pixels and a box an interval of it. Overlaps, their
ratios and the ties between them are then exact, and everything the code decides
from a box (which pairs are candidates, which zone is ahead, what rounds to zero)
is decided by the same comparisons of integers. What is written has six digits:
`WireBox` and `Wire` round, and `WireSteps` is 1.0. `Detections` is the threshold,
suppression and clipping of one frame's rows; `Assigned` describes the greedy pass
by its result: a pair is taken unless a better rival was. `TracksAfter` and
`RecordOf` are the state and the line of one turn of the loop. A record keeps each field that a reader relates
to another; fields that only have a syntax are one mark, `shape`, and the
observation and frame identifiers, always compared together, are one.

`HandOver` passes the file on intact or with a line lost, repeated or exchanged
with its neighbour; a torn file is passed on as it is. Predictions come from the
inference command, asked for the assembler's selection or for every cat, or from
another process that answers cats after its own delays, for the wrong capture, or
never. A prediction carries its six probabilities, whose sum may miss 1.0 by
`SumSlack` as the contract allows, and its label is the likeliest one. Inference reads the model once and each clip once; `ReplaceModel`,
`ReplaceSidecar` and `ReplaceClip` may come between any two steps. A file's
content stands for its hash.

`FuseOne` is one turn of the loop of `fuse_streams`: `Status` is the chain of tests
on a prediction, `Deadline` how long its track is waited for, `DeliveryTimes`
what the delivery is the latest of. `LATE` needs a timeout longer than the latency
allowed; with the code's default bounds (`fusion.py`: 50 and 250 ms) it never
occurs, with the run's bounds (3 and 2) it does. `FusedScores` are the four sums
that the policy gets. `Simulate` stands for
loading and running the scenario; what the run then does is `Simulator`'s.

`ScenarioContract` is what the loader of the simulator asks of that scenario:
`ScenarioSchema` the bounds of the schema's numbers, `ValidTimeline` the semantic
checks with each track's box and score sum, `ValidRuntime` the configuration's. The
shadow command runs only the last of these before it assembles. `Unchecked` names the
five conditions that this leaves open: a configuration that only its schema refuses,
a path longer than `config_ref` may be, a timeline with too many entries, a last tick
beyond the safe integers, and a score above 1.0 from two probabilities that add up
to more.

### Assembler

`IncidentAssembler` has one action per read, per file written and per call that
makes something durable. `parent` is the directory that the output's path names,
`held` the one that the command opened; `published` is what stands at the output's
name in each directory, `settled` where the last rename is on the disk.
`Rename` is the one that fails when the name is taken. `Raise` cleans
up, `Kill` and `LosePower` do not, and the second one may take back what was not
settled. `ReplaceIncident`, `ReplacePerceptions`, `MoveParent` and `TakeName` are
other processes.

## 3. Runs

Deadlock is checked where the bounds leave a step to take: in `policy_spacing`,
`policy_faults` and `policy_evidence` it means that every call has a branch of
`step` to answer it, in `store` and `review` that no failure leaves the process
stuck. The other runs stop at the end of their clock, frames or script.

| Run | Question | Bounds |
| --- | --- | --- |
| `policy_incident` | One incident over operator controls and default, timed-out and garbled answers: is there one burst, a live event behind every aim, and agreement with the device? Does the engine implement `OneShotPolicy`? | clock to 13, three frame shapes: harmful, another track, empty |
| `policy_spacing` | Do two bursts lie as far apart as clearing, tracking, confirming and aiming need, and does a cooldown end although its deadline saturates? | clock to 18, 12 frames: a first burst, five units to clear, a second burst before the clock's last value, and deadlines beyond it |
| `policy_faults` | Clocks that go back, corrupt, repeated and late frames, missing snapshots, a device failing by itself, ids running out | clock to 4, 3 ids: one burst uses them all |
| `policy_evidence` | What had the observer seen before a burst? | clock to 7, calls without a frame or with one of four shapes (eating, digging, harmless, another track), a device that vanishes: evidence is gained, broken, mixed and gained again |
| `recorder` | Limits, windows, suppression and publications that raise, with the clip lost or kept | 7 observations, sizes 1, 3, 5, gaps 1 and 4, limits of 2 and 3 frames |
| `store` | Publication and retention under exceptions, kills and power losses | 3 names, sizes 1, 2, 4, budgets of 2 incidents and 3 bytes; 4 names were run once |
| `review` | Two pages race while writes fail and the server restarts | 2 pages, 1 event, 2 values, revision to 4, one call in flight per page |
| `simulator` | Every script of the inputs, with answers at once, late, lost or denied | time to 4, two inputs per instant, one disturbance, 2 keys, 2 incidents |
| `shadow` | From detection to replay: are numbers never lent, unambiguous continuations forced, predictions traceable, frames in order, in time and without foresight, predictions accounted for, scenarios acceptable? | an image of 20 pixels, 3 frames of 4 kinds, at most 2 cats in what is handed on, one damaged line, 2 answers of 5 fates, one replaced file, one edited configuration |
| `assembler` | Is what is published complete, acceptable, about one cat, and never replaced? Does the command accept all that it derives? | 5 streams and 10 incidents of four records, 2 directories, 2 runs, 2 changes by others |
| `simulator_claim_latch`, `shadow_claim_stream` | two statements of the documents that the code does not keep (section 6) | as `simulator`; an image of 5000 pixels with two zones of almost equal share |

Why these bounds are enough: every branch of every next-state relation is taken
in the passing runs; every threshold (persistence, frame count, window, limit)
is small but at least one step larger than its trivial value, so that "one too
early" and "one too late" are different states; and each passing property is
violated under its run's own bounds when a definition it rests on is replaced
by a plausible slip of the code. The slips stand beside the definitions they
vary, marked as slips, and are used by nothing else.

For the chain in particular. Three frames let a track appear, miss a frame and be
dropped while another one is born; the frame kinds hold an empty image, a cat with
a suppressed box, two cats that claim one track, and a cat at the image's edge
beside a person. Two cats are the fewest whose predictions can cross, be exchanged
or be late one for the other, and a repeated or exchanged line needs two records.
Timeout 3 and latency 2 against delays of 1, 3 and 4 give each status. One
replaced file suffices as the command reads each file once and a second
replacement before the read is the first one with another content. Of the unchecked
conditions the run reaches a malformed configuration, a last tick beyond the safe
integers (15 there) and scores of 1.001. A missed track is dropped at once
(`MaxMissed = 0`), so that its number could be lent; that a track which was missed
and found again keeps its identity is only in the theorem. In `assembler`
two runs let the second one meet what the first left, with another cause of
failure in each; a window of two steps in four records leaves targets that begin
too early, fit, and end too late.

Fairness. Only `CooldownEnds` needs it. The engine has no thread and no clock:
`cpp/README.md` makes its caller own a monotonic clock and serialise the calls.
`FairSpec` therefore says that the caller goes on calling `step` with a later
clock until the clock's last value and at that value goes on calling; nothing
is assumed about frames, controls or answers. In the simulator "it cannot wait
for ever" is the safety property `WaitsForAnAnswer`: virtual time passes
only when the script goes on, so no fairness is justified there.

## 4. Proofs

`PolicyEngineProofs` proves, from the named assumptions of `PolicyEngine` and
`ActuatorModel` on the constants (periods and counts are naturals, ids and times
have a last value, replies and shapes are of their types, `None` is none of the
values it stands beside):

* `TypeCorrect`: `TypeOK` is inductive. Each branch of `step` has a lemma that
  says what it does to the device and to the firing variables, so the case
  analysis over branches is done once and reused.
* `AtMostOneBurst`: `OneBurstPerEvent`. It is not inductive: that the next
  burst is the event's first needs that the open event with a burst is latched,
  that event numbers of bursts lie below the next number, and that the open
  event's number does too. `LatchInv` adds these.
* `ActivePolicyKeepsAnId`: an active policy has a command id left to stop with;
  `ModeInv` adds that one that aims works for an open event.
* `EngineImplementsOneShot`: every step of the engine is a step or a stutter
  of `OneShotPolicy`; the proof needs `LatchInv` and `ModeInv`.
* `CommandIdsAreNeverReused`, `FaultAlwaysStops`: two action properties; the second
  goes over every branch that enters `Fault` and what `SafeStop` then sends.
* `PolicyAndDeviceAlwaysAgree`, for a device whose status changes only by command
  (`DeviceStatuses = {}`, as in the run): the policy's belief about it is right after
  every step, whatever answers are lost or garbled.
* `AimsAtLiveEvents`: `AimInv` says of an aiming or ready policy that its event is
  open and has had no burst, and that its cached frame shows one cat.
* `BurstsAlwaysSpaced`: `SpacedInv` measures everything from a burst's `Floor`, the
  earliest time the frame behind it may have. Since then the event that it belongs to
  must have cleared (`ClearedSince`), and whatever is tracked, confirmed or aimed at
  by now began only after that (`PacedSince`).
* `BurstsAreEarned`, of the engine with its observer: `EarnedInv` says that the
  engine's candidates never claim a longer or fuller run of frames than the observer
  saw, a confirmation none that mixes behaviours (`alike`), that an aim comes after a
  frame that completed one (`proven`), and that `Ready` waits for a frame after the
  one that made it so. The frames that make ready and fire may show the other
  harmful behaviour. Every observer step is an engine step, so the engine's
  invariants hold there too. The run has no clock that goes back, no repeated or
  late frame and none captured before its call; the theorem covers them.

`RecorderProofs` proves the four properties that `recorder` checks, from
`RecorderConfigAssumption`, `SourceAssumption` and `AbsenceAssumption`. It follows the
footage: the byte counters are the sums they stand for, whatever is cut or appended
(`SharedLemmas`: a running sum has one solution); each operator on footage
keeps the newest frames, in order, within its limit; a clip that is finished joins
those already published. `IInv` ties buffer, incident and last observation together:
the buffer is empty while an incident runs, the incident ends with the last
observation, each of its frames is in the window of one of its triggers, all
frames held come after all published ones, and the visit under way is in no clip
unless recording is suppressed, or the clip stayed although `publish` raised.

`IncidentStoreProofs` proves every property that `store` checks, and the
store's type invariant, from `StoreAssumption`. The inductive invariant of `StoreTypeCorrect`,
`ReportsAreDurable`, `OnlyEvictionsHalve` and `StagingHoldsThisSession` says
which step holds which stage, that what is staged was named in this session and is
not an incident, that only the name being published is loose, that the
victim of an eviction is not the name in publication, that a half directory was a
victim, and that an evicted name is not reported. `SpaceInv` adds, for
`BudgetsAlwaysKept`, that from the end of the evictions to the rename the stage
fits beside what is listed; what is listed is a sum over a finite set,
and the lemmas about such sums say how it changes with one directory.
`StoreImplementsArchive` is the refinement: every system call publishes one whole
incident, evicts the oldest for want of room, or shows readers nothing new, and a
power loss takes back at most what was not durable.

`SimulatorProofs` proves every property that the run `simulator` checks, from
`ContractAssumption` (the schemas' ranges, with `AckTimeout < CooldownTime`) and
`NoneAssumption`. The hard one is `OneBurstPerIncident`: `Fire` asks only that
the policy is aiming, so an aim that was given up may still be answered. The
invariant has these parts beside the properties:

* `WorkInv`: all work of a command leaves the queue together, its timeout is part
  of it and at most `AckTimeout` away, and its incident is a recorded one.
* `LateAimsInv`: the timeout of an aim for a latched incident comes before the
  cooldown ends. A burst sets the latch and starts a cooldown longer than
  `AckTimeout`; until the cooldown ends nobody aims for that incident, and no
  cooldown ends early except with its epoch, which gives up all commands.
* An aim that is answered while the policy is `AIMING` has its timeout still to
  come, and `AIMING` has no cooldown (`CooldownHolds`); so its incident has no
  latch (`FiresUnlatched`), and by `LatchInv` no burst.
* `AimInv` (the frame behind an aim qualified) gives `BurstIsWarranted`, and
  `TimerInv` (an armed policy without its camera has the timer running) with the
  part of `TypeOK` that no work is overdue gives `CameraFaultsInTime`.

Steps that share an effect share a lemma: `QuietStep` for those that neither
dispatch nor fire, `FaultStep`, `ObservationStep`, `AnsweredStep`, `HealthStep`,
`EndEpochStep` and `DispatchStep`; `KeepsLatches` and `KeepsCooldown` say what a step
may do to incidents and cooldown.

`ReviewProofs` proves the three properties that `review` checks, and the types,
from `ReviewAssumption` (`None` is no value, no call and no content of a call). The
hard case is a replacement that raised after the file was renamed: the file is one
revision ahead of the server, which goes on from its old state and may write the
same revision with another content. `SeenInv` therefore collects what anybody has
seen (server, pages, answers, and the pages that sent a call, by what they showed)
as triples of revision, event and value: none is ahead of the server or the file,
one at the file's revision agrees with the file, two at the same revision agree.
Every step shows only what was seen, or the file. `RevisionNamesOneState` and
`OverwritesAreSeen` are two readings of it. `LockInv` says that the file holds the
change of the call that has the lock, and `SavedInv` that the file keeps all that
the server keeps and both what was promised.

`ShadowProofs` proves the seven properties of `shadow` for the whole chain,
whatever the network, the streams and the bounds are:

* `IdentitiesAreNeverReused`: `Identities` adds to the property that the tracker
  holds, for each number it knows, the class and birth that all records give to it,
  and that the next number is above all of them; a number is never given twice
  because the order of new identities is total (`NumbersAreDistinct`), which needs
  that rows are numbered.
* `UnambiguousIsAlwaysForced`: a pair without a rival is in every assignment that
  leaves no candidate open. It is about identities that go on: a detection whose one
  candidate track went to another detection starts a new identity, without a mark
  (`tracking.py:148-151`), and that does depend on the order of the pairs.
* `PredictionsAlwaysNameTheirEvidence`: `Evidence` says that the model in memory is
  the expected one from its verification on and that answer by answer the clip was
  the request's. The session is built from the bytes that were hashed.
* `FramesAreDeliveredInOrderAndInTime`, `FramesHaveNoForesight`: `Fused` adds that
  the last delivery bounds all earlier ones and is within the timeout of every
  record still to come, since captures are ordered and each wait ends by the
  timeout (`WaitsEnd`). That a damaged file is still a sequence is
  `OnTheWayIsSeq`.
* `EveryPredictionIsAccounted`: `Account` says what the diagnostics are, turn by
  turn: those of the records joined so far, and in the end a note for each prediction
  that no record asked for. A key names one prediction and one cat
  (`PredictionsAreDistinct`), as the contracts of both streams demand, so none is in
  two diagnostics. `Answered` says that the file of predictions is a sequence, also
  when it is sorted by completion.
* `AssembledIsAlwaysLoadable`: `Assembling` says that each fused frame carries its
  record's identity, time and camera, waits no longer than the audit age and has
  tracks that pass (`FusedTrackPasses`: the box was checked on the way in, and four
  sums of the six probabilities add up to what the contract allowed, `ScoresAddUp`),
  that the configuration passed the semantic checks before, and that no stream is
  longer than what was perceived and one repeated line. That the sorted timeline keeps
  frames, order and spacing needs `FramesAreInOrder` and a lemma on ranks; that the
  command numbers cannot run out needs `ChainAssumption` on `MaxFrames`. What the
  command leaves open, the five conditions of `Unchecked`, is the exception.

`AssemblerProofs` proves the four properties of `assembler`, for any inputs, other
processes, failures and number of runs, from `StreamsAssumption` (a file is a list of
records with finitely many tracks) and `SameWindow` (both commands are given one
window).

* `NothingIsEverReplaced`: `Placed` says that what is renamed into place was synced
  before, that a result is reported only where the rename is on the disk, and that
  a directory whose last rename is not has an entry that a power loss may take back,
  but not halve.
* `PublishedIsAlwaysAccepted`, `ClipsAlwaysShowTheirCat`: `IsWhole` says what is in a
  directory that was staged to its end: the clips of all windows of the records that
  reconcile with the one contract that was read. That such a directory is accepted and
  shows the right cats (`WholeIsAccepted`, `WholeShowsItsCats`) is a fact about the
  operators: times in the records increase strictly, so a time names one position and
  a window is an interval of frames, none of which offends. `Gathered` is
  the invariant that brings a stage there, step by step, while the inputs change; with
  `Placed` it excludes that a power loss leaves a directory half written.
* `DerivedIsAlwaysValid`: windows are in the order of their targets, targets
  are distinct records and capture times increase strictly, which perception's own
  contract does not demand; so requests and selected records are valid.

`SharedLemmas` holds what these proofs share. The library's induction theorems take
an operator as a parameter, which the provers cannot instantiate; stated for sets,
induction follows from a theorem about finite sets (`LeastNatural`,
`NatSetInduction`). From it come the facts about running sums, sums over finite sets
and their order, and that a finite set of numbers has an element of each rank. Since
the provers cannot open `SortSeq`, the models sort by counting (`Ranking`).

Model-checked only: `CooldownEnds`, since liveness and ENABLED are out of the prover's
reach, and the two claims of section 6 that are violated.

## 5. What is left out

* Reasons, wording, audit and evaluator records, counts, export text, media
  streaming, host and origin checks.
* The device's ledger of ids across restarts (`mock_actuator.cpp:13`): within one
  process `CommandIdsAreFresh` makes the collision branch unreachable.
* Two processes on one incident root, and files changed from outside.
* The room that a stage takes which a failure left behind: the budgets count incidents
  only (`storage.py`), so `BudgetsKept` says nothing of it until the next opening.
* The review form: after a conflict `app.js:58` refreshes the revision and keeps
  the form, so a second click overwrites what the other page saved although
  `review/README.md:82` speaks of rejecting stale updates.
* Durability of the review file: the directory is not synced (`storage.py:44`).
* Exhaustion of the simulator's ids, which scenario validation excludes.
* The temporal network, the detector's network, letterboxing, polygons in two
  dimensions, model downloads and camera drivers: numeric work and I/O. Their
  answers are left open (`RowSets`, `NetProbabilities`), their failures are steps.
* Field syntax of the JSON contracts (`contracts.py`, `validation.py`): one mark per
  record; the rules between fields and between records are modelled.
* Series of observations in a scenario, which the shadow command does not write, and
  the expectations that it fills in after a first run (`runner.py:90`).
* Two readers of one file at once, and the layout of provenance and reports.
* Outputs of two shadow runs that stand beside each other after a failure
  (`cli.py:94`): each is replaced whole, no document promises that they fit.
* Event evaluation, detection evaluation, training, calibration and tools: pure or
  numeric functions of finished files; event evaluation is planned (section 7).

## 6. Where documents and code differ

With a run:

* `simulator_claim_latch`: `docs/architecture.md:119` promises one burst for
  continuous harm; a late answer to an abandoned aim latches the incident it was
  for, closed by then, and not the open one (`engine.py:937`).
* `shadow_claim_stream`: `shadow/README.md:3` connects the current perception stream
  to predictions; `contracts.py:354` derives a cat's zone and its no-fire overlap
  again from overlaps that perception rounded to six digits
  (`perception/README.md:155`) after it had chosen from the exact ones
  (`geometry.py:93`). Two zones that differ by less than the rounding, or a no-fire
  overlap that rounds to zero, make the whole file unreadable.

Noticed while reading, without a run:

* `README.md:81` promises one event per incident "followed by a long cooldown"; a
  disarm drops the cooldown (`policy_engine.cpp:98`), so that a disarm and an arm may
  let a new incident have its burst at once.
* `recorder/tests/test_recorder.py:251` has a retrigger after the post-event window
  start an incident despite a gap; with a gap that also passes the maximum length,
  `core.py:285` suppresses it.
* `recorder/README.md:174` says consumers do not see half an incident; an eviction
  removes one file after the other (`storage.py:118`). `HalfMeansEvicted` is what
  holds.
* `docs/architecture.md:121` ends a cooldown only with the incident clear; the
  C++ engine ends it by time (`policy_engine.cpp:177`) and relies on its event latch.
* `docs/architecture.md:97` names `max_track_gap_ms`; the C++ engine bounds only
  the age of a frame. In the simulator, a gap during `AIMING` clears the evidence
  but not the aim (`engine.py:603`).
* `recorder/README.md:139` bounds a clip; with `pre_event_ms` above `max_clip_ms`
  the history alone is longer. `:143`, "oldest removed first", is by name, that
  is by capture time, over all sessions.
* At the clock's last value `saturating_add` gives an aim a deadline that has already
  passed (`policy_engine.cpp:26`): a burst there needs no settling time. The proof of
  `BurstsAreSpaced` showed it; the property excepts that one value.
* `fusion.py:319` announces "a schema-v1 simulator replay". `fusion.py:127` and `:130`
  add two probabilities without a clamp, while `contracts.py:210` accepts six that
  sum to 1.0 within 1e-6: such a score may pass the schema's maximum of 1.0
  (`schemas/common.schema.json:79`, `:82`), and the loader refuses the whole replay.
  The run `shadow` reaches it as a case of `Unchecked`; without that exception
  `AssembledIsLoadable` fails on it.
* The shadow command checks the meaning of a configuration but not its schema
  (`fusion.py:144-151`); the simulator's loader does both (`validation.py:403`).
* The simulator's recheck omits thresholds (`engine.py:968`); `BurstIsWarranted`
  shows that no weak frame gets that far. A second `DISCONNECTED` report restarts
  the camera's timer, and an incident's clear time survives blocked frames.

## 7. Plan

1. Done: `ActuatorModel`, `PolicyEngine`, `OneShotPolicy`, `PolicyObserver` with
   proofs of all safety properties and the refinement.
2. Done: `Recorder`; `IncidentStore` with `IncidentArchive`; proofs of all properties
   and the refinement.
3. Done: `AnnotationReview` with proofs of all its properties.
4. Done: `Simulator` with proofs of all its properties.
5. Done: the shadow chain (`Perception`, `CausalWindows`, `ShadowInference`,
   `ShadowFusion`, `ShadowChain`) with proofs of all its properties.
6. Done: `IncidentAssembler` with proofs of all its properties.
7. To state and prove: that the simulator refines a one-shot policy per incident.
8. Restarts of the engine against the device's ledger of ids.
9. `Offline`: matching by augmenting paths and the session split as functions,
   against their definitions over small inputs.

## 8. Running

    tlc -workers 2 -config policy_incident.cfg MCPolicyEngine
    tlapm PolicyEngineProofs.tla

The module of each configuration is in `PROJECT.json`. The slowest run, with
coverage statistics, takes under three minutes on two workers.
