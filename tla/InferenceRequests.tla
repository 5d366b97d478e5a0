------------------------- MODULE InferenceRequests -------------------------
(***************************************************************************)
(* The manifest of inference requests: what the inference command accepts  *)
(* (parse_inference_request(s), _bind_requests and the timing checks of    *)
(* infer_behavior_predictions), and what the assembler writes.             *)
(***************************************************************************)
EXTENDS ShadowStreams

CONSTANTS
  LogicalLatency,      \* --logical-latency-ms
  InferenceWindow      \* --window-ms

ASSUME RequestAssumption == LogicalLatency \in Nat /\ InferenceWindow \in Nat

\* A clip's frames are strictly ordered and end with the target's capture;
\* the declared window is the clip's.
ValidRequest(r) ==
  /\ r.shape = "valid"
  /\ r.predictedAt >= r.at
  /\ r.times # <<>>
  /\ \A i, j \in DOMAIN r.times : i < j => r.times[i] < r.times[j]
  /\ r.times[Len(r.times)] = r.at
  /\ r.windowStart = r.times[1] /\ r.windowEnd = r.at

ValidRequests(manifest) ==
  /\ \A i \in DOMAIN manifest : ValidRequest(manifest[i])
  /\ \A i, j \in DOMAIN manifest : i < j =>
       /\ manifest[i].predictedAt <= manifest[j].predictedAt
       /\ manifest[i].sequence < manifest[j].sequence
       /\ manifest[i].key # manifest[j].key

\* Exactly one request for every cat of the stream, with its capture time.
Bound(stream, manifest) ==
  /\ {manifest[i].key : i \in DOMAIN manifest} = Keys(stream)
  /\ \A i \in DOMAIN manifest, j \in DOMAIN stream : \A t \in Cats(stream[j]) :
       manifest[i].key = KeyOf(stream[j], t) => manifest[i].at = stream[j].at

\* The command's options agree with every request.
Timed(r) ==
  /\ r.predictedAt = r.at + LogicalLatency
  /\ r.at >= InferenceWindow
  /\ r.windowStart = r.at - InferenceWindow
=============================================================================
