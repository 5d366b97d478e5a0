-------------------------- MODULE ShadowInference --------------------------
(***************************************************************************)
(* The offline inference command of the shadow package (inference.py,      *)
(* infer_cli.py): it binds a manifest of requests to the cats of a         *)
(* perception stream, verifies the model and every clip by their hashes,   *)
(* runs the network and publishes one file of predictions.  Model, sidecar *)
(* and clips stay on disk, where somebody may replace them between any two *)
(* steps.  A file's bytes stand for their own hash.                        *)
(***************************************************************************)
EXTENDS InferenceRequests

CONSTANTS
  Models,              \* contents the model file may have, [artifact, build]
  ExpectedModel,       \* --expected-onnx-sha256
  NetProbabilities,    \* what softmax may give
  Damaged,             \* contents of a clip that is not what was asked
  MaxReplacements,     \* bound: files replaced while the command runs
  Nothing

ASSUME InferenceAssumption ==
  /\ MaxReplacements \in Nat
  /\ NetProbabilities \subseteq [BehaviorLabels -> Ratio]

VARIABLES
  asked,        \* the perception records the command was given
  requests,     \* the manifest
  infer,        \* where the command stands
  modelFile, sidecar, clipFile,    \* the disk
  replacements,
  held,         \* model_bytes, read once
  contract,     \* what the sidecar declared, read once
  session,      \* the model the session was built from
  answers,      \* raw_predictions
  predictions   \* the published file, Nothing before

disk == <<modelFile, sidecar, clipFile, replacements>>
inferenceVars == <<asked, requests, infer, modelFile, sidecar, clipFile, replacements,
                   held, contract, session, answers, predictions>>

-----------------------------------------------------------------------------

SidecarOf(m) == [onnx |-> m, artifact |-> m.artifact, shape |-> "valid"]

Idle ==
  /\ asked = <<>> /\ requests = <<>> /\ infer = "idle"
  /\ modelFile = ExpectedModel
  /\ sidecar = SidecarOf(ExpectedModel)
  /\ clipFile = <<>> /\ replacements = 0
  /\ held = Nothing /\ contract = Nothing /\ session = Nothing
  /\ answers = <<>> /\ predictions = Nothing

\* The command starts on a stream, a manifest and the clips it names.
StartInference(stream, manifest, clips) ==
  /\ infer = "idle"
  /\ asked' = stream /\ requests' = manifest /\ clipFile' = clips
  /\ infer' = "reading"
  /\ UNCHANGED <<modelFile, sidecar, replacements, held, contract, session, answers, predictions>>

BindRequests ==
  /\ infer = "reading"
  /\ ValidPerceptions(asked) /\ ValidRequests(requests)
  /\ Bound(asked, requests)
  /\ \A i \in DOMAIN requests : Timed(requests[i])
  /\ infer' = "bound"
  /\ UNCHANGED <<asked, requests, disk, held, contract, session, answers, predictions>>

\* The model's bytes are read once; hash and session use these bytes.
ReadModel ==
  /\ infer = "bound"
  /\ held' = modelFile
  /\ infer' = "hashed"
  /\ UNCHANGED <<asked, requests, disk, contract, session, answers, predictions>>

\* _validate_export_metadata: read after the model, against its hash.
AcceptSidecar ==
  /\ infer = "hashed"
  /\ sidecar.shape = "valid"
  /\ held = ExpectedModel /\ sidecar.onnx = held
  /\ contract' = sidecar
  /\ infer' = "verified"
  /\ UNCHANGED <<asked, requests, disk, held, session, answers, predictions>>

\* _build_session: the graph repeats the identity the sidecar declares.
BuildSession ==
  /\ infer = "verified"
  /\ held.artifact = contract.artifact
  /\ session' = held
  /\ infer' = "inferring"
  /\ UNCHANGED <<asked, requests, disk, held, contract, answers, predictions>>

\* Slip: the clip's hash was compared when the manifest was written.
LoadsAnyBytes(r, clip) == clip.shape = "valid" /\ clip.frames = Len(r.times)

\* _load_clip: the bytes that are hashed are the bytes that are decoded.
Loads(r, clip) ==
  /\ clip = r.clip
  /\ clip.shape = "valid"
  /\ clip.frames = Len(r.times)

Answer(r, clip, probs) ==
  [sequence |-> r.sequence, key |-> r.key, at |-> r.at, predictedAt |-> r.predictedAt,
   model |-> held, label |-> Likeliest(probs), probs |-> probs, shape |-> "valid",
   by |-> session, from |-> clip]

\* One turn of the loop over the requests: load, preprocess, infer twice.
InferOne ==
  /\ infer = "inferring"
  /\ Len(answers) < Len(requests)
  /\ LET r == requests[Len(answers) + 1]
     IN /\ Loads(r, clipFile[r.key])
        /\ \E probs \in NetProbabilities :
             answers' = Append(answers, Answer(r, clipFile[r.key], probs))
  /\ UNCHANGED <<asked, requests, infer, disk, held, contract, session, predictions>>

\* The answers pass the stream's own contract and replace the output file.
Publish ==
  /\ infer = "inferring"
  /\ Len(answers) = Len(requests)
  /\ ValidPredictions(answers)
  /\ predictions' = answers
  /\ infer' = "done"
  /\ UNCHANGED <<asked, requests, disk, held, contract, session, answers>>

\* Any check that does not hold, an unreadable file, logits that differ
\* between the two runs, or a kill: the output file keeps what it had.
StopInference ==
  /\ infer \notin {"idle", "done", "failed"}
  /\ infer' = "failed"
  /\ UNCHANGED <<asked, requests, disk, held, contract, session, answers, predictions>>

MayReplace == infer \notin {"idle", "done", "failed"} /\ replacements < MaxReplacements

ReplaceModel ==
  /\ MayReplace
  /\ \E m \in Models \ {modelFile} : modelFile' = m
  /\ replacements' = replacements + 1
  /\ UNCHANGED <<asked, requests, infer, sidecar, clipFile, held, contract, session, answers, predictions>>

\* Somebody exports again: the sidecar now belongs to another model.
ReplaceSidecar ==
  /\ MayReplace
  /\ \E m \in Models, shape \in {"valid", "malformed"} :
       sidecar' = [SidecarOf(m) EXCEPT !.shape = shape]
  /\ sidecar' # sidecar
  /\ replacements' = replacements + 1
  /\ UNCHANGED <<asked, requests, infer, modelFile, clipFile, held, contract, session, answers, predictions>>

ReplaceClip ==
  /\ MayReplace
  /\ \E k \in DOMAIN clipFile, other \in Damaged :
       clipFile' = [clipFile EXCEPT ![k] = [@ EXCEPT !.footage = other]]
  /\ replacements' = replacements + 1
  /\ UNCHANGED <<asked, requests, infer, modelFile, sidecar, held, contract, session, answers, predictions>>

InferenceNext ==
  \/ BindRequests
  \/ ReadModel
  \/ AcceptSidecar
  \/ BuildSession
  \/ InferOne
  \/ Publish
  \/ StopInference
  \/ ReplaceModel
  \/ ReplaceSidecar
  \/ ReplaceClip

-----------------------------------------------------------------------------
(* Properties. *)

\* Whatever happens to the files meanwhile, a published prediction was
\* computed by the model it names, the one expected on the command line, and
\* from the very bytes whose hash its request names.
PredictionsNameTheirEvidence ==
  predictions # Nothing =>
    \A i \in DOMAIN predictions :
      /\ predictions[i].by = predictions[i].model
      /\ predictions[i].model = ExpectedModel
      /\ predictions[i].from = requests[i].clip
=============================================================================
