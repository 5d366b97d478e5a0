---------------------------- MODULE ShadowChain ----------------------------
(***************************************************************************)
(* The offline chain from camera frames to a replayed policy: perception   *)
(* writes its records, somebody hands the file on, the temporal model      *)
(* answers for its cats (or another process does, in its own time), and    *)
(* the shadow command joins both and replays them.                         *)
(***************************************************************************)
EXTENDS Perception, CausalWindows, ShadowInference, ShadowFusion

CONSTANTS
  Fates,               \* [delay, probs, shift] of an answer by another process
  MaxAnswers,          \* bound: answers of that process
  OtherModel,
  MaxCats              \* bound: cats in the records that are handed on

\* A replay numbers two commands for each record; a file has fewer records.
ASSUME ChainAssumption ==
  2 * MaxFrames + 5 <= MaxSafeInteger

VARIABLES
  handed,              \* the perception file, as the consumers find it
  behaviors            \* the behaviour file, as the replay finds it

chainVars == <<perceptionVars, inferenceVars, fusionVars, handed, behaviors>>

File(records) == [records |-> records, torn |-> FALSE]

Perceiving == UNCHANGED <<inferenceVars, fusionVars, handed, behaviors>>
Inferring == UNCHANGED <<perceptionVars, fusionVars, handed, behaviors>>
Replaying == UNCHANGED <<perceptionVars, inferenceVars, handed, behaviors>>

-----------------------------------------------------------------------------
(* The perception file on its way: intact, or with a line lost, repeated   *)
(* or exchanged with its neighbour.                                        *)

Swapped(s, i) == [s EXCEPT ![i] = s[i + 1], ![i + 1] = s[i]]

OnTheWay(records) ==
  {records}
    \union {RemoveAt(records, i) : i \in DOMAIN records}
    \union {InsertAt(records, i, records[i]) : i \in DOMAIN records}
    \union {Swapped(records, i) : i \in 1 .. Len(records) - 1}

CatsIn(records) == Cardinality(UNION {{<<i, t.id>> : t \in Cats(records[i])} : i \in DOMAIN records})

HandOver ==
  /\ pipeline # "running" /\ handed = Absent
  /\ CatsIn(lines) <= MaxCats
  /\ \E records \in OnTheWay(lines) : handed' = [records |-> records, torn |-> torn]
  /\ UNCHANGED <<perceptionVars, inferenceVars, fusionVars, behaviors>>

-----------------------------------------------------------------------------
(* The requests: the assembler's, for its selected records, or somebody's  *)
(* own for every cat of the file.                                          *)

\* Frames are named by their capture times here.
TimesOf(records) == [i \in DOMAIN records |-> records[i].at]

Assembled(records) ==
  LET windows == Windows(records)
  IN [k \in DOMAIN windows |-> WindowRequest(windows, k, TimesOf(records))]

\* The capture times from a window before a record, which ends them.
TimesUpTo(records, i) ==
  SetToSortSeq({records[j].at : j \in {k \in 1 .. i : records[k].at >= records[i].at - Window}}
                 \union {records[i].at}, <)

CatPairs(records) ==
  SetToSortSeq(UNION {{<<i, t.id>> : t \in Cats(records[i])} : i \in DOMAIN records},
               LAMBDA p, q : p[1] < q[1] \/ (p[1] = q[1] /\ p[2] < q[2]))

ForEveryCat(records) ==
  LET pairs == CatPairs(records)
      Times(k) == TimesUpTo(records, pairs[k][1])
  IN [k \in DOMAIN pairs |->
        RequestFor(k - 1, records[pairs[k][1]], pairs[k][2], Times(k), Times(k))]

\* A manifest may miss a request, repeat one or state another latency.
Manifests(base) ==
  {base} \union {Tail(m) : m \in {base} \ {<<>>}}
         \union {Append(m, m[1]) : m \in {base} \ {<<>>}}
         \union {[m EXCEPT ![1].predictedAt = @ + 1] : m \in {base} \ {<<>>}}

ClipsOf(manifest) ==
  [k \in {manifest[i].key : i \in DOMAIN manifest} |->
     manifest[CHOOSE i \in DOMAIN manifest : manifest[i].key = k].clip]

Ask(stream, base) ==
  \E m \in Manifests(base) : StartInference(stream, m, ClipsOf(m))

AskForSelected ==
  /\ handed # Absent /\ behaviors = Absent /\ replay = "idle" /\ ~handed.torn
  /\ ValidPerceptions(handed.records) /\ Selectable(handed.records)
  /\ Ask(Selected(Windows(handed.records)), Assembled(handed.records))
  /\ Inferring

AskForAll ==
  /\ handed # Absent /\ behaviors = Absent /\ replay = "idle" /\ ~handed.torn
  /\ handed.records # <<>>
  /\ Ask(handed.records, ForEveryCat(handed.records))
  /\ Inferring

DeliverPredictions ==
  /\ infer = "done" /\ behaviors = Absent
  /\ behaviors' = File(predictions)
  /\ UNCHANGED <<perceptionVars, inferenceVars, fusionVars, handed>>

-----------------------------------------------------------------------------
(* Another process: each cat is answered after its own delay, for its own  *)
(* or for the next capture, or never; the file is ordered by completion.   *)
(* To a file that it cannot parse it answers nothing.                      *)

LiveAnswer(records, pair, fate) ==
  [key |-> <<records[pair[1]].observation, pair[2]>>, at |-> records[pair[1]].at + fate.shift,
   predictedAt |-> records[pair[1]].at + fate.shift + fate.delay, model |-> ExpectedModel,
   label |-> Likeliest(fate.probs), probs |-> fate.probs, shape |-> "valid"]

ByCompletion(answered) ==
  LET Earlier(p, q) == \/ p.predictedAt < q.predictedAt
                       \/ p.predictedAt = q.predictedAt /\ p.key[1][2] < q.key[1][2]
                       \/ p.predictedAt = q.predictedAt /\ p.key[1] = q.key[1]
                            /\ p.key[2] < q.key[2]
      sorted == Ranked(answered, Earlier)
  IN [k \in DOMAIN sorted |-> [sequence |-> k] @@ sorted[k]]

\* The finished file, with a stray answer, or with a second model's answer.
Finished(stream) ==
  {stream}
    \union {Append(s, [s[Len(s)] EXCEPT !.sequence = @ + 1, !.key[2] = 0]) : s \in {stream} \ {<<>>}}
    \union {[s EXCEPT ![Len(s)].model = OtherModel] : s \in {stream} \ {<<>>}}

AnswerElsewhere ==
  /\ handed # Absent /\ behaviors = Absent /\ infer = "idle" /\ replay = "idle"
  /\ LET pairs == IF ValidPerceptions(handed.records) THEN Range(CatPairs(handed.records)) ELSE {}
     IN \E answered \in {a \in SUBSET pairs : IsFiniteSet(a) /\ Cardinality(a) <= MaxAnswers} :
        \E fate \in [answered -> Fates] :
          \E stream \in Finished(ByCompletion({LiveAnswer(handed.records, p, fate[p]) : p \in answered})) :
            behaviors' = File(stream)
  /\ UNCHANGED <<perceptionVars, inferenceVars, fusionVars, handed>>

-----------------------------------------------------------------------------

BeginReplay ==
  /\ handed # Absent /\ behaviors # Absent
  /\ StartReplay(handed, behaviors)
  /\ Replaying

RejectReplay ==
  /\ handed # Absent /\ behaviors # Absent
  /\ RejectStreams(handed, behaviors)
  /\ Replaying

ChainInit == Init /\ Idle /\ ReplayIdle /\ handed = Absent /\ behaviors = Absent

Next ==
  \/ PerceptionNext /\ Perceiving
  \/ HandOver
  \/ AskForSelected
  \/ AskForAll
  \/ InferenceNext /\ Inferring
  \/ DeliverPredictions
  \/ AnswerElsewhere
  \/ BeginReplay
  \/ RejectReplay
  \/ FusionNext /\ Replaying

Spec == ChainInit /\ [][Next]_chainVars

-----------------------------------------------------------------------------
(* A claim of the documents. *)

\* Perception's records are the stream the shadow package reads: whatever
\* run_pipeline writes, parse_perception_observation accepts.
PipelineRecordsAreAccepted == \A i \in DOMAIN lines : ValidObservation(lines[i])
=============================================================================
