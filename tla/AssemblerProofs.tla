-------------------------- MODULE AssemblerProofs --------------------------
(***************************************************************************)
(* The assembler's four properties, for any incidents, streams,            *)
(* directories, failures and other processes.  First, nothing that stands  *)
(* at the output's name is ever replaced: what a power loss may take back  *)
(* is what was renamed and not yet synced, and that was never reported.    *)
(* Then what a window is, what the requests made of the windows ask, and   *)
(* that a directory which was staged to its end is accepted and shows the  *)
(* right cats.  Last, that no other directory ever gets the name, and that *)
(* the command's own check of what it derived never fails.                 *)
(***************************************************************************)
EXTENDS IncidentAssembler, SharedLemmas

-----------------------------------------------------------------------------
(* Nothing is replaced. *)

IsStage(s) == s = [clips |-> s.clips, files |-> s.files, synced |-> s.synced]

\* Where the command has come to bounds what stands at the output's name: a
\* directory whose entry is not on the disk holds a stage that was synced, and
\* what was reported, or is about to be, is on the disk.
Placed ==
  /\ parent \in Parents
  /\ settled \subseteq Parents
  /\ published = [d \in Parents |-> published[d]]
  /\ step # "idle" => held \in Parents
  /\ step \in {"staging", "writing", "synced"} => IsStage(stage)
  /\ step = "synced" => stage.synced
  /\ \A d \in Parents \ settled :
        published[d] # {} /\ \A entry \in published[d] : entry.synced
  /\ step \in {"renamed", "settled"} => published[held] # {}
  /\ step = "settled" => held \in settled
  /\ \A d \in reported : d \in settled /\ published[d] # {}

\* What a step may do to the output's name: NothingIsReplaced for one step.
Keeps ==
  \A d \in Parents : published[d] # {} =>
    \/ published'[d] = published[d]
    \/ LosePower /\ published'[d] = {} /\ d \notin settled \union reported

LEMMA InitPlaced == Init => Placed
BY DEF Init, Placed

\* The steps that read the inputs only remember what they read.
LEMMA GatheringKeeps ==
  ASSUME Placed, OpenIncident \/ SnapshotClip \/ LoadPerceptions \/ SelectWindows
  PROVE  Placed' /\ Keeps
BY DEF Placed, Keeps, OpenIncident, SnapshotClip, LoadPerceptions, SelectWindows, inputs, IsStage

\* Staging works on a directory that has no name yet.
LEMMA StagingKeeps ==
  ASSUME Placed, MakeStage \/ WriteClip \/ CheckOwnContract \/ WriteFile \/ SyncStage
  PROVE  Placed' /\ Keeps
<1>1. CASE MakeStage
  BY <1>1 DEF Placed, Keeps, MakeStage, EmptyStage, inputs, IsStage
<1>2. CASE WriteClip
  BY <1>2 DEF Placed, Keeps, WriteClip, inputs, IsStage
<1>3. CASE CheckOwnContract
  BY <1>3 DEF Placed, Keeps, CheckOwnContract, inputs, IsStage
<1>4. CASE WriteFile
  BY <1>4 DEF Placed, Keeps, WriteFile, inputs, IsStage
<1>5. CASE SyncStage
  BY <1>5 DEF Placed, Keeps, SyncStage, inputs, IsStage
<1> QED BY <1>1, <1>2, <1>3, <1>4, <1>5

\* The rename takes a free name only, and what it puts there is synced.
LEMMA RenameKeeps == ASSUME Placed, Rename PROVE Placed' /\ Keeps
BY DEF Placed, Keeps, Rename, MayRename, inputs, IsStage

LEMMA ReportingKeeps ==
  ASSUME Placed, Begin \/ SyncParent \/ Report \/ Raise \/ Kill
  PROVE  Placed' /\ Keeps
<1>1. CASE Begin
  BY <1>1 DEF Placed, Keeps, Begin, inputs, IsStage
<1>2. CASE SyncParent
  BY <1>2 DEF Placed, Keeps, SyncParent, inputs, IsStage
<1>3. CASE Report
  BY <1>3 DEF Placed, Keeps, Report, Forget, inputs, IsStage
<1>4. CASE Raise
  BY <1>4 DEF Placed, Keeps, Raise, Forget, inputs, IsStage
<1>5. CASE Kill
  BY <1>5 DEF Placed, Keeps, Kill, Forget, inputs, IsStage
<1> QED BY <1>1, <1>2, <1>3, <1>4, <1>5

\* A power loss leaves what is on the disk, and of a renamed stage the whole
\* or nothing, because it was synced before it got its name.
LEMMA PowerLossKeeps == ASSUME Placed, LosePower PROVE Placed' /\ Keeps
<1>1. \A d \in settled : published'[d] = published[d]
  BY DEF Placed, LosePower, AfterPowerLoss
<1>2. \A d \in Parents \ settled : published'[d] \in {{}, published[d]}
  BY DEF Placed, LosePower, AfterPowerLoss
<1>3. published' = [d \in Parents |-> published'[d]]
  BY DEF LosePower
<1>4. Keeps
  BY <1>1, <1>2 DEF Placed, Keeps
<1>5. Placed'
  BY <1>1, <1>3 DEF Placed, LosePower, Forget, inputs, IsStage
<1> QED BY <1>4, <1>5

LEMMA OthersKeep ==
  ASSUME Placed, ReplaceIncident \/ ReplacePerceptions \/ MoveParent \/ TakeName
  PROVE  Placed' /\ Keeps
<1>1. CASE ReplaceIncident
  BY <1>1 DEF Placed, Keeps, ReplaceIncident, MayChange, IsStage
<1>2. CASE ReplacePerceptions
  BY <1>2 DEF Placed, Keeps, ReplacePerceptions, MayChange, IsStage
<1>3. CASE MoveParent
  BY <1>3 DEF Placed, Keeps, MoveParent, MayChange, IsStage
<1>4. CASE TakeName
  BY <1>4 DEF Placed, Keeps, TakeName, MayChange, inputs, IsStage
<1> QED BY <1>1, <1>2, <1>3, <1>4

LEMMA StepKeeps == Placed /\ [Next]_assemblerVars => Placed' /\ Keeps
<1> SUFFICES ASSUME Placed, [Next]_assemblerVars PROVE Placed' /\ Keeps
  OBVIOUS
<1>1. CASE UNCHANGED assemblerVars
  BY <1>1 DEF Placed, Keeps, assemblerVars, inputs, IsStage
<1>2. CASE Next
  BY <1>2, GatheringKeeps, StagingKeeps, RenameKeeps, ReportingKeeps, PowerLossKeeps, OthersKeep
     DEF Next
<1> QED BY <1>1, <1>2

\* What stands at the output's name stays, whoever put it there and whatever
\* fails; only a power loss may take back what was not reported yet
\* (_rename_no_replace, and the sync before the result is returned).
THEOREM NothingIsEverReplaced == Spec => NothingIsReplaced
<1>1. Spec => []Placed
  BY InitPlaced, StepKeeps, PTL DEF Spec
<1>2. Placed /\ [Next]_assemblerVars => [Keeps]_assemblerVars
  BY StepKeeps
<1> QED BY <1>1, <1>2, PTL DEF Spec, NothingIsReplaced, Keeps

-----------------------------------------------------------------------------
(* Windows and the requests made of them. *)

Usable(rs) ==
  /\ IsSeq(rs)
  /\ \A i \in DOMAIN rs : ValidObservation(rs[i]) /\ rs[i].at \in Nat /\ IsFiniteSet(rs[i].tracks)
  /\ OrderedObservations(rs) /\ StrictlyLater(rs)

\* The k-th of a finite set of numbers is one of it, and less than the next.
LEMMA AscendingFacts ==
  ASSUME NEW S \in SUBSET Nat, IsFiniteSet(S)
  PROVE  /\ Cardinality(S) \in Nat
         /\ DOMAIN Ascending(S) = 1 .. Cardinality(S)
         /\ \A k \in 1 .. Cardinality(S) : Ascending(S)[k] \in S
         /\ \A j, k \in 1 .. Cardinality(S) : j < k => Ascending(S)[j] < Ascending(S)[k]
<1>1. Cardinality(S) \in Nat
  BY FS_CardinalityType
<1>2. DOMAIN Ascending(S) = 1 .. Cardinality(S)
  BY DEF Ascending, Ranked
<1>3. ASSUME NEW k \in 1 .. Cardinality(S)
      PROVE  Ascending(S)[k] \in S /\ Cardinality(Smaller(S, Ascending(S)[k])) = k - 1
  <2>1. \E x \in S : Cardinality(Smaller(S, x)) = k - 1
    BY SetHasRanks
  <2> DEFINE c == CHOOSE x \in S : Cardinality(Smaller(S, x)) = k - 1
  <2>2. c \in S /\ Cardinality(Smaller(S, c)) = k - 1
    BY <2>1
  <2>3. Ascending(S)[k] = CHOOSE x \in S : Cardinality({y \in S : y < x}) = k - 1
    BY DEF Ascending, Ranked
  <2>4. Ascending(S)[k] = CHOOSE x \in S : Cardinality(Smaller(S, x)) = k - 1
    BY <2>3 DEF Smaller
  <2> QED BY <2>2, <2>4
<1>4. ASSUME NEW j \in 1 .. Cardinality(S), NEW k \in 1 .. Cardinality(S), j < k
      PROVE  Ascending(S)[j] < Ascending(S)[k]
  <2> DEFINE x == Ascending(S)[j]
             y == Ascending(S)[k]
  <2>1. x \in S /\ y \in S /\ Cardinality(Smaller(S, x)) = j - 1 /\ Cardinality(Smaller(S, y)) = k - 1
    BY <1>3
  <2> HIDE DEF x, y
  <2>2. x \in Nat /\ y \in Nat
    BY <2>1
  <2>3. CASE y <= x
    <3>1. Smaller(S, y) \subseteq Smaller(S, x)
      <4>1. \A z \in S : z < y => z < x
        BY <2>2, <2>3
      <4> QED BY <4>1 DEF Smaller
    <3>2. IsFiniteSet(Smaller(S, x))
      <4>1. Smaller(S, x) \subseteq S
        BY DEF Smaller
      <4> QED BY <4>1, FS_Subset
    <3>3. Cardinality(Smaller(S, y)) <= Cardinality(Smaller(S, x))
      BY <3>1, <3>2, FS_Subset
    <3>4. j \in Nat /\ k \in Nat
      BY <1>1
    <3> QED BY <1>4, <2>1, <3>3, <3>4
  <2> QED BY <2>2, <2>3 DEF x, y
<1> QED BY <1>1, <1>2, <1>3, <1>4

\* The numbers of some positions of a list are finitely many.
LEMMA PlacesAreFinite ==
  ASSUME NEW n \in Nat, NEW S, S \subseteq 1 .. n
  PROVE  IsFiniteSet(S) /\ S \in SUBSET Nat
<1>1. IsFiniteSet(1 .. n)
  BY FS_Interval
<1>2. IsFiniteSet(S)
  BY <1>1, FS_Subset
<1>3. S \in SUBSET Nat
  OBVIOUS
<1> QED BY <1>2, <1>3

\* At most one cat: the one that is chosen.
LEMMA SoleCatFacts ==
  ASSUME NEW record, IsFiniteSet(record.tracks)
  PROVE  /\ Cardinality(Cats(record)) \in Nat
         /\ Cats(record) # {} /\ ~(Cardinality(Cats(record)) > 1)
              => Cats(record) = {SoleCat(record)}
<1>1. IsFiniteSet(Cats(record))
  BY FS_Subset DEF Cats
<1>2. Cardinality(Cats(record)) \in Nat
  BY <1>1, FS_CardinalityType
<1>3. ASSUME Cats(record) # {}, ~(Cardinality(Cats(record)) > 1)
      PROVE  Cats(record) = {SoleCat(record)}
  <2>1. Cardinality(Cats(record)) = 1
    BY <1>1, <1>2, <1>3, FS_EmptySet
  <2>2. PICK cat : Cats(record) = {cat}
    BY <1>1, <2>1, FS_Singleton
  <2>3. SoleCat(record) = cat
    BY <2>2 DEF SoleCat
  <2> QED BY <2>2, <2>3
<1> QED BY <1>2, <1>3

\* The record that was taken at a time, if there is one.
LEMMA PositionFacts ==
  ASSUME NEW rs, Usable(rs), NEW time, PositionAt(rs, time) # 0
  PROVE  PositionAt(rs, time) \in DOMAIN rs /\ rs[PositionAt(rs, time)].at = time
<1> DEFINE found == {i \in DOMAIN rs : rs[i].at = time}
<1>1. found # {}
  BY DEF PositionAt
<1>2. PICK i : i \in found
  BY <1>1
<1>3. \A j \in found : j <= i
  <2> SUFFICES ASSUME NEW j \in found PROVE j <= i
    OBVIOUS
  <2>1. DOMAIN rs = 1 .. Len(rs)
    BY SeqPositions DEF Usable
  <2>2. rs[i].at = rs[j].at /\ i \in DOMAIN rs /\ j \in DOMAIN rs
    BY <1>2
  <2>3. rs[i].at \in Nat /\ rs[j].at \in Nat /\ StrictlyLater(rs)
    BY <2>2 DEF Usable
  <2>4. ~(i < j)
    BY <2>2, <2>3 DEF StrictlyLater
  <2> QED BY <2>1, <2>2, <2>4
<1>4. PositionAt(rs, time) = CHOOSE p \in found : \A j \in found : j <= p
  BY <1>1 DEF PositionAt
<1>5. PositionAt(rs, time) \in found
  BY <1>2, <1>3, <1>4
<1> QED BY <1>5

\* What _select_windows has found out about a target.
IsWindow(rs, i, first) ==
  /\ first \in 1 .. i /\ first \in DOMAIN rs
  /\ rs[first].at = rs[i].at - Window /\ rs[i].at >= Window
  /\ Cats(rs[i]) = {SoleCat(rs[i])}
  /\ \A j \in first .. i : \A t \in Cats(rs[j]) : t.id = SoleCat(rs[i]).id

LEMMA TargetFacts ==
  ASSUME NEW rs, Usable(rs), NEW i \in Targets(rs)
  PROVE  i \in DOMAIN rs /\ IsWindow(rs, i, FirstOf(rs, i))
<1> DEFINE first == FirstOf(rs, i)
           cat == SoleCat(rs[i])
<1>0. i \in DOMAIN rs /\ Suppression(rs, i) = ""
  BY DEF Targets, IsTarget
<1>1. /\ Cats(rs[i]) # {} /\ ~(Cardinality(Cats(rs[i])) > 1)
      /\ ~(rs[i].at < Window)
      /\ ~(first = 0 \/ first > i)
      /\ ~(\E j \in first .. i : Offends(rs[j], cat))
  BY <1>0 DEF Suppression
<1>2. DOMAIN rs = 1 .. Len(rs) /\ Len(rs) \in Nat
  BY SeqPositions DEF Usable
<1>3. first \in DOMAIN rs /\ rs[first].at = rs[i].at - Window
  BY <1>1, PositionFacts DEF FirstOf
<1>8. first \in 1 .. Len(rs) /\ i \in 1 .. Len(rs)
  BY <1>0, <1>2, <1>3
<1>4. Cats(rs[i]) = {cat}
  BY <1>0, <1>1, SoleCatFacts DEF Usable
<1>5. ASSUME NEW j \in first .. i, NEW t \in Cats(rs[j]) PROVE t.id = cat.id
  <2>1. j \in DOMAIN rs
    <3> HIDE DEF first
    <3>1. j \in first .. i
      BY DEF first
    <3>2. j \in 1 .. Len(rs)
      BY <1>2, <1>8, <3>1
    <3> QED BY <1>2, <3>2
  <2>2. IsFiniteSet(rs[j].tracks)
    BY <2>1 DEF Usable
  <2>3. ~Offends(rs[j], cat)
    BY <1>1
  <2>4. Cats(rs[j]) = {SoleCat(rs[j])}
    BY <2>2, <2>3, <1>5, SoleCatFacts DEF Offends
  <2>5. Cardinality(Cats(rs[j])) = 1
    BY <2>4, FS_Singleton
  <2> QED BY <1>5, <2>3, <2>4, <2>5 DEF Offends
<1>6. rs[i].at \in Nat
  BY <1>0 DEF Usable
<1> HIDE DEF first, cat
<1>7. rs[i].at >= Window /\ first \in 1 .. i
  <2>1. ~(rs[i].at < Window) /\ ~(first > i)
    BY <1>1 DEF first
  <2> QED BY <1>2, <1>6, <1>8, <2>1, WindowAssumption
<1> QED BY <1>0, <1>3, <1>4, <1>5, <1>7 DEF IsWindow, first, cat

\* The windows are those of the targets.
IsCut(rs, w) ==
  \E i \in DOMAIN rs : IsWindow(rs, i, FirstOf(rs, i)) /\ w = WindowOf(rs, i)

\* The next window ends later.
Advances(ws) == \A j, k \in DOMAIN ws : j < k => ws[j].last < ws[k].last

LEMMA WindowsFacts ==
  ASSUME NEW rs, Usable(rs)
  PROVE  /\ IsSeq(Windows(rs))
         /\ \A k \in DOMAIN Windows(rs) : IsCut(rs, Windows(rs)[k])
         /\ Advances(Windows(rs))
         /\ Targets(rs) # {} => Windows(rs) # <<>>
<1> DEFINE T == Targets(rs)
           order == Ascending(T)
           ws == [k \in DOMAIN order |-> WindowOf(rs, order[k])]
<1>1. DOMAIN rs = 1 .. Len(rs) /\ Len(rs) \in Nat
  BY SeqPositions DEF Usable
<1>2. T \subseteq 1 .. Len(rs)
  BY <1>1 DEF Targets
<1>3. IsFiniteSet(T) /\ T \in SUBSET Nat
  BY <1>1, <1>2, PlacesAreFinite
<1>4. ws = Windows(rs)
  BY DEF Windows
<1> HIDE DEF T
<1>5. /\ Cardinality(T) \in Nat /\ DOMAIN order = 1 .. Cardinality(T)
      /\ \A k \in 1 .. Cardinality(T) : order[k] \in T
      /\ \A j, k \in 1 .. Cardinality(T) : j < k => order[j] < order[k]
  BY <1>3, AscendingFacts
<1> HIDE DEF order
<1>6. IsSeq(ws)
  <2>1. DOMAIN ws = 1 .. Cardinality(T) /\ ws = [k \in 1 .. Cardinality(T) |-> ws[k]]
    BY <1>5
  <2> HIDE DEF ws
  <2> QED BY <1>5, <2>1, ListIsSeq
<1>7. ASSUME NEW k \in DOMAIN ws PROVE IsCut(rs, ws[k])
  <2>1. order[k] \in T /\ ws[k] = WindowOf(rs, order[k])
    BY <1>5
  <2>2. order[k] \in DOMAIN rs /\ IsWindow(rs, order[k], FirstOf(rs, order[k]))
    BY <2>1, TargetFacts DEF T
  <2> QED BY <2>1, <2>2 DEF IsCut
<1>8. Advances(ws)
  <2>1. \A k \in DOMAIN ws : ws[k].last = order[k]
    BY DEF WindowOf
  <2>2. DOMAIN ws = 1 .. Cardinality(T)
    BY <1>5
  <2> HIDE DEF ws
  <2> QED BY <1>5, <2>1, <2>2 DEF Advances
<1>9. T # {} => ws # <<>>
  <2> SUFFICES ASSUME T # {} PROVE ws # <<>>
    OBVIOUS
  <2>1. Cardinality(T) # 0
    BY <1>3, FS_EmptySet
  <2>2. 1 \in DOMAIN ws
    BY <1>5, <2>1
  <2> QED BY <2>2
<1> QED BY <1>4, <1>6, <1>7, <1>8, <1>9 DEF T

\* A request of a window: the frames from first to i, their capture times and
\* their footage.
IsRequest(r, rs, i, first, footage) ==
  /\ r.key = <<rs[i].observation, SoleCat(rs[i]).id>>
  /\ r.at = rs[i].at /\ r.predictedAt = rs[i].at + LogicalLatency
  /\ r.windowStart = rs[first].at /\ r.windowEnd = rs[i].at /\ r.shape = "valid"
  /\ Len(r.times) = i - first + 1 /\ DOMAIN r.times = 1 .. i - first + 1
  /\ \A k \in 1 .. i - first + 1 : r.times[k] = rs[first + k - 1].at
  /\ r.clip.frames = i - first + 1
  /\ \A k \in 1 .. i - first + 1 : r.clip.footage[k] = footage[first + k - 1]

\* Every request asks about one of the selected records.
AsksAbout(r, w, rs, footage) ==
  \E i \in DOMAIN rs : /\ IsWindow(rs, i, FirstOf(rs, i)) /\ w.target = rs[i] /\ w.last = i
                       /\ IsRequest(r, rs, i, FirstOf(rs, i), footage)

LEMMA FootageOfWindow ==
  ASSUME NEW footage, NEW first \in Nat, NEW last \in Nat, first <= last
  PROVE  /\ Len(SubSeq(footage, first, last)) = last - first + 1
         /\ \A k \in 1 .. last - first + 1 :
              SubSeq(footage, first, last)[k] = footage[first + k - 1]
<1> DEFINE S == {footage[k] : k \in first .. last}
<1>1. \A k \in first .. last : footage[k] \in S
  OBVIOUS
<1> HIDE DEF S
<1>3. /\ Len(SubSeq(footage, first, last)) = last - first + 1
      /\ \A k \in 1 .. last - first + 1 :
           SubSeq(footage, first, last)[k] = footage[first + k - 1]
  BY <1>1, SubSeqProperties
<1> QED BY <1>3

LEMMA TimesOfWindow ==
  ASSUME NEW n \in Nat, NEW times, times = [k \in 1 .. n |-> times[k]]
  PROVE  Len(times) = n /\ DOMAIN times = 1 .. n
<1>1. DOMAIN times = 1 .. n
  OBVIOUS
<1>2. IsSeq(times)
  BY <1>1, ListIsSeq
<1>3. Len(times) \in Nat /\ DOMAIN times = 1 .. Len(times)
  BY <1>2, SeqPositions
<1>4. Len(times) = n
  <2> HIDE DEF IsSeq
  <2> QED BY <1>1, <1>3
<1> QED BY <1>1, <1>4

LEMMA RequestFacts ==
  ASSUME NEW rs, Usable(rs), NEW footage,
         NEW ws, NEW k \in DOMAIN ws, IsCut(rs, ws[k])
  PROVE  AsksAbout(WindowRequest(ws, k, footage), ws[k], rs, footage)
<1>1. PICK i \in DOMAIN rs : IsWindow(rs, i, FirstOf(rs, i)) /\ ws[k] = WindowOf(rs, i)
  BY DEF IsCut
<1> DEFINE first == FirstOf(rs, i)
           n == i - first + 1
           times == [j \in 1 .. n |-> rs[first + j - 1].at]
           r == WindowRequest(ws, k, footage)
<1>2. /\ ws[k].target = rs[i] /\ ws[k].track = SoleCat(rs[i]).id
      /\ ws[k].first = first /\ ws[k].last = i /\ ws[k].times = times
  BY <1>1 DEF WindowOf, WindowLength
<1>3. DOMAIN rs = 1 .. Len(rs) /\ Len(rs) \in Nat
  BY SeqPositions DEF Usable
<1>4. first \in 1 .. i
  BY <1>1 DEF IsWindow
<1> HIDE DEF first
<1>5. first \in Nat /\ i \in Nat /\ 1 <= first /\ first <= i /\ n \in Nat
      /\ 1 \in 1 .. n
  BY <1>1, <1>3, <1>4
<1>6. times = [j \in 1 .. n |-> times[j]]
  OBVIOUS
<1>7. times[1] = rs[first].at
  BY <1>5
<1>8. \A j \in 1 .. n : times[j] = rs[first + j - 1].at
  OBVIOUS
<1> HIDE DEF times
<1>9. Len(times) = n /\ DOMAIN times = 1 .. n
  BY <1>5, <1>6, TimesOfWindow
<1>10. /\ Len(SubSeq(footage, first, i)) = n
       /\ \A j \in 1 .. n : SubSeq(footage, first, i)[j] = footage[first + j - 1]
  BY <1>5, FootageOfWindow
<1> DEFINE shots == SubSeq(footage, first, i)
<1> HIDE DEF shots
<1>11. /\ Len(shots) = n
       /\ \A j \in 1 .. n : shots[j] = footage[first + j - 1]
  BY <1>10 DEF shots
<1>12. r = RequestFor(k - 1, rs[i], SoleCat(rs[i]).id, times, shots)
  BY <1>2 DEF WindowRequest, shots
<1>13. /\ r.key = <<rs[i].observation, SoleCat(rs[i]).id>>
       /\ r.at = rs[i].at /\ r.predictedAt = rs[i].at + LogicalLatency
       /\ r.windowStart = times[1] /\ r.times = times
       /\ r.windowEnd = rs[i].at /\ r.shape = "valid"
       /\ r.clip.frames = Len(shots) /\ r.clip.footage = shots
  BY <1>12 DEF RequestFor, Clip
<1> HIDE DEF r
<1>14. IsRequest(r, rs, i, first, footage)
  BY <1>7, <1>8, <1>9, <1>11, <1>13 DEF IsRequest
<1> QED BY <1>1, <1>2, <1>14 DEF AsksAbout, first, r

-----------------------------------------------------------------------------
(* A directory that was staged to its end. *)

\* What is in a directory that was staged to its end.
Requested(clips, ws, footage) ==
  /\ IsSeq(clips) /\ IsSeq(ws)
  /\ Len(clips) = Len(ws)
  /\ \A k \in DOMAIN clips : clips[k] = WindowRequest(ws, k, footage)

Evident(rs, meta) == Usable(rs) /\ Reconciles(rs, meta)

IsWhole(e) ==
  /\ Len(e.files) = Len(FileNames)
  /\ e.files[1] = e.clips
  /\ e.files[2] = Selected(Windows(e.files[3]))
  /\ Evident(e.files[3], e.files[4])
  /\ Requested(e.clips, Windows(e.files[3]), e.files[4].clip.footage)
  /\ ValidRequests(e.clips) /\ ValidPerceptions(e.files[2])

\* Each request is about one selected record.
LEMMA RequestsAsk ==
  ASSUME NEW rs, NEW meta, Evident(rs, meta), NEW clips, NEW footage,
         Requested(clips, Windows(rs), footage)
  PROVE  /\ DOMAIN Selected(Windows(rs)) = DOMAIN clips
         /\ \A n \in DOMAIN clips : /\ Selected(Windows(rs))[n] = Windows(rs)[n].target
                                    /\ AsksAbout(clips[n], Windows(rs)[n], rs, footage)
<1> DEFINE ws == Windows(rs)
<1>1. IsSeq(ws) /\ \A k \in DOMAIN ws : IsCut(rs, ws[k])
  BY WindowsFacts DEF Evident
<1> HIDE DEF ws
<1>2. IsSeq(clips) /\ Len(clips) = Len(ws)
  BY DEF Requested, ws
<1>3. DOMAIN clips = DOMAIN ws
  BY <1>1, <1>2, SeqPositions
<1>4. /\ DOMAIN Selected(ws) = DOMAIN ws
      /\ \A n \in DOMAIN ws : Selected(ws)[n] = ws[n].target
  BY DEF Selected
<1>5. ASSUME NEW n \in DOMAIN clips PROVE AsksAbout(clips[n], ws[n], rs, footage)
  <2>1. clips[n] = WindowRequest(ws, n, footage)
    BY DEF Requested, ws
  <2> QED BY <1>1, <1>3, <2>1, RequestFacts DEF Evident
<1> QED BY <1>3, <1>4, <1>5 DEF ws

\* The inference command takes it.
LEMMA WholeIsAccepted == ASSUME NEW e, IsWhole(e) PROVE IsAccepted(e)
<1> DEFINE rs == e.files[3]
           sel == e.files[2]
           clips == e.clips
           footage == e.files[4].clip.footage
           ws == Windows(rs)
<1>1. /\ DOMAIN sel = DOMAIN clips
      /\ \A n \in DOMAIN clips : sel[n] = ws[n].target /\ AsksAbout(clips[n], ws[n], rs, footage)
  BY RequestsAsk DEF IsWhole
<1>2. ValidPerceptions(sel) /\ ValidRequests(clips) /\ Usable(rs)
  BY DEF IsWhole, Evident
<1> HIDE DEF rs, sel, clips, footage, ws
<1>3. ASSUME NEW n \in DOMAIN clips
      PROVE  \E cat : /\ Cats(sel[n]) = {cat} /\ clips[n].key = KeyOf(sel[n], cat)
                      /\ clips[n].at = sel[n].at /\ Timed(clips[n])
  <2>1. AsksAbout(clips[n], ws[n], rs, footage) /\ sel[n] = ws[n].target
    BY <1>1
  <2>2. PICK i \in DOMAIN rs : /\ IsWindow(rs, i, FirstOf(rs, i)) /\ ws[n].target = rs[i]
                               /\ IsRequest(clips[n], rs, i, FirstOf(rs, i), footage)
    BY <2>1 DEF AsksAbout
  <2> DEFINE first == FirstOf(rs, i)
             cat == SoleCat(rs[i])
             r == clips[n]
  <2>3. /\ rs[first].at = rs[i].at - Window /\ rs[i].at >= Window
        /\ Cats(rs[i]) = {cat}
    BY <2>2 DEF IsWindow
  <2>4. /\ r.key = <<rs[i].observation, cat.id>>
        /\ r.at = rs[i].at /\ r.predictedAt = rs[i].at + LogicalLatency
        /\ r.windowStart = rs[first].at
    BY <2>2 DEF IsRequest
  <2> HIDE DEF first, cat, r
  <2>5. Timed(r)
    BY <2>3, <2>4, SameWindow DEF Timed
  <2>6. sel[n] = rs[i]
    BY <2>1, <2>2
  <2>7. r.key = KeyOf(sel[n], cat)
    BY <2>4, <2>6 DEF KeyOf
  <2> QED BY <2>3, <2>4, <2>5, <2>6, <2>7 DEF r
<1>4. Bound(sel, clips)
  <2>1. \A n \in DOMAIN clips : clips[n].key \in Keys(sel)
    BY <1>1, <1>3 DEF Keys
  <2>2. ASSUME NEW key \in Keys(sel) PROVE \E n \in DOMAIN clips : clips[n].key = key
    <3>1. PICK n \in DOMAIN sel : key \in {KeyOf(sel[n], t) : t \in Cats(sel[n])}
      BY DEF Keys
    <3> QED BY <1>1, <1>3, <3>1
  <2>3. ASSUME NEW i \in DOMAIN clips, NEW j \in DOMAIN sel, NEW t \in Cats(sel[j]),
               clips[i].key = KeyOf(sel[j], t)
        PROVE  clips[i].at = sel[j].at
    <3>1. PICK cat : clips[i].key = KeyOf(sel[i], cat) /\ clips[i].at = sel[i].at
      BY <1>3
    <3>2. sel[i].observation = sel[j].observation
      BY <2>3, <3>1 DEF KeyOf
    <3>3. DOMAIN clips = 1 .. Len(clips) /\ Len(clips) \in Nat
      BY SeqPositions DEF IsWhole, Requested, clips
    <3>4. ~(i < j) /\ ~(j < i)
      BY <1>1, <1>2, <3>2 DEF ValidPerceptions, OrderedObservations
    <3>5. i = j
      BY <1>1, <3>3, <3>4
    <3> QED BY <3>1, <3>5
  <2> QED BY <2>1, <2>2, <2>3 DEF Bound
<1>5. \A n \in DOMAIN clips : Timed(clips[n])
  BY <1>3
<1> QED BY <1>2, <1>4, <1>5 DEF IsAccepted, IsWhole, sel, clips

\* The frames that a request shows are those of its window.
LEMMA ShownFacts ==
  ASSUME NEW e, IsWhole(e), NEW i \in DOMAIN e.files[3], NEW first \in 1 .. i,
         NEW r, IsRequest(r, e.files[3], i, first, e.files[4].clip.footage)
  PROVE  /\ Shown(e, r) = first .. i
         /\ Cardinality(Shown(e, r)) = Len(r.times)
         /\ \A j \in Shown(e, r) : \A k \in DOMAIN r.times :
              e.files[3][j].at = r.times[k] => j = first + k - 1
<1> DEFINE rs == e.files[3]
<1>1. Usable(rs)
  BY DEF IsWhole, Evident
<1>2. /\ Len(r.times) = i - first + 1 /\ DOMAIN r.times = 1 .. i - first + 1
      /\ \A k \in 1 .. i - first + 1 : r.times[k] = rs[first + k - 1].at
  BY DEF IsRequest
<1>3. Shown(e, r) = {j \in DOMAIN rs : \E k \in DOMAIN r.times : rs[j].at = r.times[k]}
  BY DEF Shown
<1>0. i \in DOMAIN rs
  OBVIOUS
<1> HIDE DEF rs
<1>4. DOMAIN rs = 1 .. Len(rs) /\ Len(rs) \in Nat
  BY <1>1, SeqPositions DEF Usable
<1>5. i \in Nat /\ i <= Len(rs) /\ first \in Nat /\ 1 <= first /\ first <= i
  BY <1>0, <1>4
<1>6. ASSUME NEW j \in DOMAIN rs, NEW m \in DOMAIN rs, rs[j].at = rs[m].at PROVE j = m
  <2>1. rs[j].at \in Nat /\ rs[m].at \in Nat /\ StrictlyLater(rs)
    BY <1>1 DEF Usable
  <2>2. ~(j < m) /\ ~(m < j)
    BY <1>6, <2>1 DEF StrictlyLater
  <2> QED BY <1>4, <2>2
<1>7. ASSUME NEW j \in DOMAIN rs, NEW k \in 1 .. i - first + 1, rs[j].at = r.times[k]
      PROVE  j = first + k - 1
  <2>1. first + k - 1 \in DOMAIN rs
    BY <1>4, <1>5
  <2>2. rs[j].at = rs[first + k - 1].at
    BY <1>2, <1>7
  <2> QED BY <1>6, <2>1, <2>2
<1>8. ASSUME NEW j \in Shown(e, r) PROVE j \in first .. i
  <2>1. PICK k \in 1 .. i - first + 1 : rs[j].at = r.times[k]
    BY <1>2, <1>3
  <2>2. j = first + k - 1
    BY <1>3, <1>7, <2>1
  <2> QED BY <1>5, <2>2
<1>9. ASSUME NEW j \in first .. i PROVE j \in Shown(e, r)
  <2>1. j \in DOMAIN rs /\ j - first + 1 \in 1 .. i - first + 1
    BY <1>4, <1>5
  <2>2. first + (j - first + 1) - 1 = j
    BY <1>5
  <2>3. r.times[j - first + 1] = rs[j].at
    BY <1>2, <2>1, <2>2
  <2> QED BY <1>2, <1>3, <2>1, <2>3
<1>10. Shown(e, r) = first .. i
  BY <1>8, <1>9
<1>11. Cardinality(first .. i) = i - first + 1
  BY <1>5, FS_Interval
<1>12. \A j \in Shown(e, r) : \A k \in DOMAIN r.times :
         rs[j].at = r.times[k] => j = first + k - 1
  BY <1>2, <1>3, <1>7
<1> QED BY <1>2, <1>10, <1>11, <1>12 DEF rs

LEMMA WholeShowsItsCats ==
  ASSUME NEW e, IsWhole(e), NEW n \in DOMAIN e.clips
  PROVE  ShowsItsCat(e, e.clips[n])
<1> DEFINE rs == e.files[3]
           r == e.clips[n]
           footage == e.files[4].clip.footage
           ws == Windows(rs)
<1>1. AsksAbout(r, ws[n], rs, footage)
  BY RequestsAsk DEF IsWhole
<1>2. PICK i \in DOMAIN rs : IsWindow(rs, i, FirstOf(rs, i))
                             /\ IsRequest(r, rs, i, FirstOf(rs, i), footage)
  BY <1>1 DEF AsksAbout
<1> DEFINE first == FirstOf(rs, i)
<1>3. Usable(rs) /\ Reconciles(rs, e.files[4])
  BY DEF IsWhole, Evident
<1>4. first \in 1 .. i /\ \A j \in first .. i : \A t \in Cats(rs[j]) : t.id = SoleCat(rs[i]).id
  BY <1>2 DEF IsWindow
<1>5. /\ Shown(e, r) = first .. i
      /\ Cardinality(Shown(e, r)) = Len(r.times)
      /\ \A j \in Shown(e, r) : \A k \in DOMAIN r.times :
           rs[j].at = r.times[k] => j = first + k - 1
  BY <1>2, <1>4, ShownFacts
<1>6. /\ r.key[2] = SoleCat(rs[i]).id /\ r.at = rs[i].at
      /\ r.clip.frames = i - first + 1 /\ Len(r.times) = i - first + 1
      /\ DOMAIN r.times = 1 .. i - first + 1
      /\ \A k \in 1 .. i - first + 1 : r.clip.footage[k] = footage[first + k - 1]
  BY <1>2 DEF IsRequest
<1>7. DOMAIN rs = 1 .. Len(rs) /\ Len(rs) \in Nat
  BY <1>3, SeqPositions DEF Usable
<1> HIDE DEF first, rs, r, footage
<1>8. ASSUME NEW j \in Shown(e, r)
      PROVE  /\ \A t \in Cats(rs[j]) : t.id = r.key[2]
             /\ rs[j].at <= r.at
             /\ \A k \in DOMAIN r.times : rs[j].at = r.times[k] =>
                  r.clip.footage[k] = footage[j]
  <2>1. j \in first .. i
    BY <1>5
  <2>2. rs[j].at <= rs[i].at
    <3>1. i \in DOMAIN rs /\ j \in DOMAIN rs /\ j <= i
      BY <1>2, <1>4, <1>7, <2>1
    <3>2. rs[i].at \in Nat /\ rs[j].at \in Nat /\ StrictlyLater(rs)
      BY <1>3, <3>1 DEF Usable
    <3>3. j = i \/ j < i
      BY <1>7, <3>1
    <3> QED BY <3>1, <3>2, <3>3 DEF StrictlyLater
  <2> QED BY <1>4, <1>5, <1>6, <2>1, <2>2
<1> QED BY <1>3, <1>5, <1>6, <1>8 DEF ShowsItsCat, rs, r, footage

-----------------------------------------------------------------------------
(* Only such directories are published. *)

\* The stage holds the first clips and the first files that are to be written.
IsUnderWay ==
  /\ IsSeq(stage.clips) /\ IsSeq(stage.files)
  /\ \A k \in DOMAIN stage.clips : stage.clips[k] = WindowRequest(windows, k, snapshot.footage)
  /\ \A k \in DOMAIN stage.files : stage.files[k] = Content(FileNames[k])

IsChecked ==
  /\ Len(stage.clips) = Len(windows)
  /\ ValidRequests(stage.clips) /\ ValidPerceptions(Selected(windows))

OnlyWholes == \A d \in Parents : \A e \in published[d] : e # Foreign => IsWhole(e)

\* What the command has read and written so far fits together: clip and
\* records are those of the one contract that was read, the windows are of
\* these records, and the files are of these windows.
Gathered ==
  /\ perceptions \in Streams
  /\ step \in {"snapshotted", "loaded", "selected", "staging", "writing", "synced"} =>
       snapshot = contract.clip
  /\ step \in {"loaded", "selected", "staging", "writing", "synced"} =>
       Evident(records, contract)
  /\ step \in {"selected", "staging", "writing", "synced"} =>
       windows = Windows(records) /\ Targets(records) # {}
  /\ step \in {"staging", "writing", "synced"} => IsUnderWay
  /\ step = "staging" => stage.files = <<>>
  /\ step \in {"writing", "synced"} => IsChecked
  /\ step = "synced" => Len(stage.files) = Len(FileNames)
  /\ OnlyWholes

\* The records between two sequences of a valid stream, in order of time.
LEMMA RecordsAreUsable ==
  ASSUME NEW stream \in Streams, ValidPerceptions(stream), NEW meta,
         Reconciles(RecordsOf(stream, meta), meta)
  PROVE  Usable(RecordsOf(stream, meta))
<1> DEFINE Within == {i \in DOMAIN stream :
                        stream[i].sequence \in meta.startSequence .. meta.endSequence}
           order == Ascending(Within)
           rs == [k \in DOMAIN order |-> stream[order[k]]]
<1>1. IsSeq(stream) /\ \A i \in DOMAIN stream : IsFiniteSet(stream[i].tracks)
  BY StreamsAssumption DEF IsList, IsSeq
<1>2. DOMAIN stream = 1 .. Len(stream) /\ Len(stream) \in Nat
  BY <1>1, SeqPositions
<1>3. IsFiniteSet(Within) /\ Within \in SUBSET Nat
  <2>1. Within \subseteq 1 .. Len(stream)
    BY <1>2
  <2> QED BY <1>2, <2>1, PlacesAreFinite
<1>4. rs = RecordsOf(stream, meta)
  BY DEF RecordsOf
<1>5. Within \subseteq DOMAIN stream
  OBVIOUS
<1> HIDE DEF Within
<1>6. /\ Cardinality(Within) \in Nat /\ DOMAIN order = 1 .. Cardinality(Within)
      /\ \A k \in 1 .. Cardinality(Within) : order[k] \in Within
      /\ \A j, k \in 1 .. Cardinality(Within) : j < k => order[j] < order[k]
  BY <1>3, AscendingFacts
<1> HIDE DEF order
<1>7. IsSeq(rs)
  <2>1. DOMAIN rs = 1 .. Cardinality(Within) /\ rs = [k \in 1 .. Cardinality(Within) |-> rs[k]]
    BY <1>6
  <2> HIDE DEF rs
  <2> QED BY <1>6, <2>1, ListIsSeq
<1>8. ASSUME NEW k \in DOMAIN rs 
      PROVE  ValidObservation(rs[k]) /\ rs[k].at \in Nat /\ IsFiniteSet(rs[k].tracks)
  <2>1. order[k] \in DOMAIN stream /\ rs[k] = stream[order[k]]
    BY <1>5, <1>6
  <2>2. ValidObservation(stream[order[k]])
    BY <2>1 DEF ValidPerceptions
  <2>3. \A o : ValidObservation(o) => o.at \in Nat /\ IsFiniteSet(o.tracks)
    BY WireAssumption DEF ValidObservation, SafeInteger
  <2> QED BY <2>1, <2>2, <2>3
<1>11. OrderedObservations(rs)
  <2>1. OrderedObservations(stream)
    BY DEF ValidPerceptions
  <2>2. DOMAIN rs = 1 .. Cardinality(Within) /\ \A k \in DOMAIN rs : rs[k] = stream[order[k]]
    BY <1>6
  <2> HIDE DEF rs
  <2>3. \A j, k \in DOMAIN rs : j < k =>
          order[j] \in DOMAIN stream /\ order[k] \in DOMAIN stream /\ order[j] < order[k]
    BY <1>5, <1>6, <2>2
  <2> QED BY <2>1, <2>2, <2>3 DEF OrderedObservations
<1>9. StrictlyLater(rs)
  BY <1>4 DEF Reconciles, StrictlyLater
<1> HIDE DEF rs
<1>10. Usable(rs)
  BY <1>7, <1>8, <1>9, <1>11 DEF Usable
<1> QED BY <1>4, <1>10

LEMMA InitGathers == Init => Gathered
BY DEF Init, Gathered, OnlyWholes

\* What a step that reads an input finds out is kept in one place.
LEMMA ReadingGathers ==
  ASSUME Gathered, Begin \/ OpenIncident \/ SnapshotClip \/ LoadPerceptions \/ SelectWindows
  PROVE  Gathered'
<1>1. CASE Begin
  BY <1>1 DEF Gathered, Begin, inputs, gathered, OnlyWholes
<1>2. CASE OpenIncident
  BY <1>2 DEF Gathered, OpenIncident, inputs, OnlyWholes
<1>3. CASE SnapshotClip
  BY <1>3 DEF Gathered, SnapshotClip, Matches, inputs, OnlyWholes
<1>4. CASE LoadPerceptions
  <2>1. Evident(records', contract')
    BY <1>4, RecordsAreUsable DEF Gathered, LoadPerceptions, Evident
  <2> QED BY <1>4, <2>1 DEF Gathered, LoadPerceptions, inputs, OnlyWholes
<1>5. CASE SelectWindows
  BY <1>5 DEF Gathered, SelectWindows, Selectable, inputs, OnlyWholes
<1> QED BY <1>1, <1>2, <1>3, <1>4, <1>5

LEMMA WriteClipGathers == ASSUME Gathered, Placed, WriteClip PROVE Gathered'
<1> DEFINE request == WindowRequest(windows, Len(stage.clips) + 1, snapshot.footage)
<1>1. /\ stage = [clips |-> stage.clips, files |-> stage.files, synced |-> stage.synced]
      /\ step = "staging"
  BY DEF Placed, WriteClip, IsStage
<1>2. stage'.clips = Append(stage.clips, request) /\ stage'.files = stage.files
  BY <1>1 DEF WriteClip
<1>3. IsUnderWay /\ stage.files = <<>>
  BY <1>1 DEF Gathered
<1> HIDE DEF request
<1>4. IsUnderWay'
  <2>1. /\ IsSeq(Append(stage.clips, request))
        /\ Len(stage.clips) \in Nat /\ DOMAIN stage.clips = 1 .. Len(stage.clips)
        /\ DOMAIN Append(stage.clips, request) = 1 .. Len(stage.clips) + 1
        /\ \A i \in 1 .. Len(stage.clips) : Append(stage.clips, request)[i] = stage.clips[i]
        /\ Append(stage.clips, request)[Len(stage.clips) + 1] = request
    BY <1>3, AppendOne DEF IsUnderWay
  <2>2. windows' = windows /\ snapshot' = snapshot
    BY DEF WriteClip, gathered
  <2>3. ASSUME NEW k \in DOMAIN stage'.clips
        PROVE  stage'.clips[k] = WindowRequest(windows, k, snapshot.footage)
    <3>1. CASE k = Len(stage.clips) + 1
      BY <1>2, <2>1, <3>1 DEF request
    <3>2. CASE k \in 1 .. Len(stage.clips)
      BY <1>2, <1>3, <2>1, <3>2 DEF IsUnderWay
    <3> QED BY <1>2, <2>1, <2>3, <3>1, <3>2
  <2>4. stage'.files = <<>> /\ IsSeq(stage'.files)
    BY <1>2, <1>3 DEF IsUnderWay
  <2> QED BY <1>2, <2>1, <2>2, <2>3, <2>4 DEF IsUnderWay
<1>5. /\ step' = step /\ windows' = windows /\ snapshot' = snapshot /\ contract' = contract
      /\ records' = records /\ perceptions' = perceptions /\ published' = published
  BY DEF WriteClip, gathered, inputs
<1> QED BY <1>1, <1>2, <1>3, <1>4, <1>5 DEF Gathered, OnlyWholes

LEMMA WriteFileGathers == ASSUME Gathered, Placed, WriteFile PROVE Gathered'
<1> DEFINE file == Content(FileNames[Len(stage.files) + 1])
<1>1. /\ stage = [clips |-> stage.clips, files |-> stage.files, synced |-> stage.synced]
      /\ step = "writing"
  BY DEF Placed, WriteFile, IsStage
<1>2. stage'.clips = stage.clips /\ stage'.files = Append(stage.files, file)
  BY <1>1 DEF WriteFile
<1>3. /\ step' = step /\ windows' = windows /\ snapshot' = snapshot /\ contract' = contract
      /\ records' = records /\ perceptions' = perceptions /\ published' = published
  BY DEF WriteFile, gathered, inputs
<1>4. IsUnderWay /\ IsChecked
  BY <1>1 DEF Gathered
<1>5. \A name : Content(name)' = Content(name)
  BY <1>2, <1>3 DEF Content
<1> HIDE DEF file
<1>6. IsUnderWay'
  <2>1. /\ IsSeq(Append(stage.files, file))
        /\ Len(stage.files) \in Nat /\ DOMAIN stage.files = 1 .. Len(stage.files)
        /\ DOMAIN Append(stage.files, file) = 1 .. Len(stage.files) + 1
        /\ \A i \in 1 .. Len(stage.files) : Append(stage.files, file)[i] = stage.files[i]
        /\ Append(stage.files, file)[Len(stage.files) + 1] = file
    BY <1>4, AppendOne DEF IsUnderWay
  <2>2. ASSUME NEW k \in DOMAIN stage'.files PROVE stage'.files[k] = Content(FileNames[k])
    <3>1. CASE k = Len(stage.files) + 1
      BY <1>2, <2>1, <3>1 DEF file
    <3>2. CASE k \in 1 .. Len(stage.files)
      BY <1>2, <1>4, <2>1, <3>2 DEF IsUnderWay
    <3> QED BY <1>2, <2>1, <2>2, <3>1, <3>2
  <2>3. /\ IsSeq(stage'.clips)
        /\ \A k \in DOMAIN stage'.clips :
             stage'.clips[k] = WindowRequest(windows', k, snapshot'.footage)
    BY <1>2, <1>3, <1>4 DEF IsUnderWay
  <2>4. \A k \in DOMAIN stage'.files : stage'.files[k] = Content(FileNames[k])'
    BY <1>5, <2>2 DEF FileNames
  <2> QED BY <1>2, <2>1, <2>3, <2>4 DEF IsUnderWay
<1>7. IsChecked'
  BY <1>2, <1>3, <1>4 DEF IsChecked
<1> QED BY <1>1, <1>3, <1>6, <1>7 DEF Gathered, OnlyWholes

LEMMA StagingGathers ==
  ASSUME Gathered, Placed, MakeStage \/ WriteClip \/ CheckOwnContract \/ WriteFile \/ SyncStage
  PROVE  Gathered'
<1>1. CASE MakeStage
  <2>1. IsUnderWay' /\ stage'.files = <<>>
    <3>1. stage'.clips = <<>> /\ stage'.files = <<>>
      BY <1>1 DEF MakeStage, EmptyStage
    <3>2. IsSeq(<<>>)
      BY EmptySeq DEF IsSeq
    <3> QED BY <3>1, <3>2 DEF IsUnderWay
  <2> QED BY <1>1, <2>1 DEF Gathered, MakeStage, inputs, gathered, OnlyWholes
<1>2. CASE WriteClip
  BY <1>2, WriteClipGathers
<1>3. CASE CheckOwnContract
  <2>1. IsUnderWay' /\ IsChecked'
    BY <1>3 DEF Gathered, CheckOwnContract, gathered, IsUnderWay, IsChecked, Content
  <2> QED BY <1>3, <2>1 DEF Gathered, CheckOwnContract, inputs, gathered, OnlyWholes
<1>4. CASE WriteFile
  BY <1>4, WriteFileGathers
<1>5. CASE SyncStage
  <2>1. stage = [clips |-> stage.clips, files |-> stage.files, synced |-> stage.synced]
    BY <1>5 DEF Placed, SyncStage, IsStage
  <2>2. stage'.clips = stage.clips /\ stage'.files = stage.files
    BY <1>5, <2>1 DEF SyncStage
  <2>3. IsUnderWay' /\ IsChecked'
    BY <1>5, <2>2 DEF Gathered, SyncStage, gathered, IsUnderWay, IsChecked, Content
  <2> QED BY <1>5, <2>2, <2>3 DEF Gathered, SyncStage, inputs, gathered, OnlyWholes
<1> QED BY <1>1, <1>2, <1>3, <1>4, <1>5

\* A stage that was synced holds all its files.
LEMMA SyncedIsWhole == ASSUME Gathered, step = "synced" PROVE IsWhole(stage)
<1>1. /\ snapshot = contract.clip /\ Evident(records, contract) /\ windows = Windows(records)
      /\ IsUnderWay /\ IsChecked /\ Len(stage.files) = Len(FileNames)
  BY DEF Gathered
<1>2. /\ Len(FileNames) = 4 /\ FileNames[1] = "requests" /\ FileNames[2] = "perceptions"
      /\ FileNames[3] = "incident" /\ FileNames[4] = "provenance"
  BY DEF FileNames
<1>3. DOMAIN stage.files = 1 .. 4
  BY <1>1, <1>2, SeqPositions DEF IsUnderWay
<1>4. /\ stage.files[1] = stage.clips /\ stage.files[2] = Selected(windows)
      /\ stage.files[3] = records /\ stage.files[4] = contract
  BY <1>1, <1>2, <1>3 DEF IsUnderWay, Content
<1>5. IsSeq(Windows(records))
  BY <1>1, WindowsFacts DEF Evident
<1>6. Requested(stage.clips, Windows(records), contract.clip.footage)
  BY <1>1, <1>5 DEF Requested, IsUnderWay, IsChecked
<1> QED BY <1>1, <1>4, <1>6 DEF IsWhole, IsChecked

LEMMA RenameGathers == ASSUME Gathered, Placed, Rename PROVE Gathered'
<1>1. IsWhole(stage)
  BY SyncedIsWhole DEF Rename
<1>2. OnlyWholes'
  BY <1>1 DEF Gathered, Placed, Rename, OnlyWholes
<1> QED BY <1>2 DEF Gathered, Rename, inputs

\* What ends the command, or changes nothing that was gathered.
LEMMA EndingGathers ==
  ASSUME Gathered, Placed, SyncParent \/ Report \/ Raise \/ Kill \/ LosePower
  PROVE  Gathered'
<1>1. CASE SyncParent
  BY <1>1 DEF Gathered, SyncParent, inputs, OnlyWholes
<1>2. CASE Report
  BY <1>2 DEF Gathered, Report, Forget, inputs, OnlyWholes
<1>3. CASE Raise
  BY <1>3 DEF Gathered, Raise, Forget, inputs, OnlyWholes
<1>4. CASE Kill
  BY <1>4 DEF Gathered, Kill, Forget, inputs, OnlyWholes
<1>5. CASE LosePower
  <2>1. \A d \in Parents : published'[d] \in {{}, published[d]}
    BY <1>5 DEF Placed, LosePower, AfterPowerLoss
  <2>2. OnlyWholes'
    BY <2>1 DEF Gathered, OnlyWholes
  <2> QED BY <1>5, <2>2 DEF Gathered, LosePower, Forget, inputs
<1> QED BY <1>1, <1>2, <1>3, <1>4, <1>5

LEMMA OthersGather ==
  ASSUME Gathered, Placed, ReplaceIncident \/ ReplacePerceptions \/ MoveParent \/ TakeName
  PROVE  Gathered'
<1>0. ASSUME stage' = stage, UNCHANGED gathered PROVE IsUnderWay' = IsUnderWay /\ IsChecked' = IsChecked
  BY <1>0 DEF gathered, IsUnderWay, IsChecked, Content
<1>1. CASE ReplaceIncident
  BY <1>0, <1>1 DEF Gathered, ReplaceIncident, MayChange, gathered, OnlyWholes
<1>2. CASE ReplacePerceptions
  BY <1>0, <1>2 DEF Gathered, ReplacePerceptions, MayChange, gathered, OnlyWholes
<1>3. CASE MoveParent
  BY <1>0, <1>3 DEF Gathered, MoveParent, MayChange, gathered, OnlyWholes
<1>4. CASE TakeName
  <2>1. OnlyWholes'
    BY <1>4 DEF Gathered, Placed, TakeName, OnlyWholes
  <2> QED BY <1>0, <1>4, <2>1 DEF Gathered, TakeName, MayChange, gathered, inputs
<1> QED BY <1>1, <1>2, <1>3, <1>4

LEMMA StepGathers == Placed /\ Gathered /\ [Next]_assemblerVars => Gathered'
<1> SUFFICES ASSUME Placed, Gathered, [Next]_assemblerVars PROVE Gathered'
  OBVIOUS
<1>1. CASE UNCHANGED assemblerVars
  <2>1. IsUnderWay' = IsUnderWay /\ IsChecked' = IsChecked
    BY <1>1 DEF assemblerVars, gathered, IsUnderWay, IsChecked, Content
  <2> QED BY <1>1, <2>1 DEF Gathered, assemblerVars, inputs, gathered, OnlyWholes
<1>2. CASE Next
  BY <1>2, ReadingGathers, StagingGathers, RenameGathers, EndingGathers, OthersGather DEF Next
<1> QED BY <1>1, <1>2

LEMMA AlwaysGathered == Spec => [](Placed /\ Gathered)
<1>1. Init => Placed /\ Gathered
  BY InitPlaced, InitGathers
<1>2. Placed /\ Gathered /\ [Next]_assemblerVars => (Placed /\ Gathered)'
  BY StepKeeps, StepGathers
<1> QED BY <1>1, <1>2, PTL DEF Spec

\* Whatever stands at the output's name by this command, after any failures
\* and replacements, is a whole directory that the inference command takes
\* with the same window and latency (assemble_incident, from _open_incident to
\* _rename_no_replace).
THEOREM PublishedIsAlwaysAccepted == Spec => []PublishedIsAccepted
<1>1. Gathered => PublishedIsAccepted
  BY WholeIsAccepted DEF Gathered, OnlyWholes, PublishedIsAccepted, Results
<1> QED BY <1>1, AlwaysGathered, PTL

\* No clip that is published shows another cat, a later frame, or footage of
\* another time or incident (_select_windows, _reconcile_perceptions).
THEOREM ClipsAlwaysShowTheirCat == Spec => []ClipsShowTheirCat
<1>1. Gathered => ClipsShowTheirCat
  BY WholeShowsItsCats DEF Gathered, OnlyWholes, ClipsShowTheirCat, Results
<1> QED BY <1>1, AlwaysGathered, PTL

\* Later windows have later targets, of another record.
LEMMA AskedInOrder ==
  ASSUME NEW rs, Usable(rs), NEW i \in DOMAIN rs, NEW j \in DOMAIN rs, i < j
  PROVE  /\ rs[i].at \in Nat /\ rs[j].at \in Nat /\ rs[i].at < rs[j].at
         /\ rs[i].sequence < rs[j].sequence /\ rs[i].at <= rs[j].at
         /\ rs[i].observation # rs[j].observation /\ rs[i].camera = rs[j].camera
BY DEF Usable, StrictlyLater, OrderedObservations

\* The frames of a window are in order and end with the target.
LEMMA RequestIsValid ==
  ASSUME NEW rs, Usable(rs), NEW i \in DOMAIN rs, NEW first, IsWindow(rs, i, first),
         NEW r, NEW footage, IsRequest(r, rs, i, first, footage)
  PROVE  ValidRequest(r)
<1> DEFINE n == i - first + 1
<1>1. DOMAIN rs = 1 .. Len(rs) /\ Len(rs) \in Nat
  BY SeqPositions DEF Usable
<1>2. first \in 1 .. i
  BY DEF IsWindow
<1>3. i \in Nat /\ first \in Nat /\ 1 <= first /\ first <= i /\ i <= Len(rs) /\ n \in Nat /\ 1 <= n
  BY <1>1, <1>2
<1>4. /\ r.at = rs[i].at /\ r.predictedAt = rs[i].at + LogicalLatency
      /\ r.windowStart = rs[first].at /\ r.windowEnd = rs[i].at /\ r.shape = "valid"
      /\ Len(r.times) = n /\ DOMAIN r.times = 1 .. n
      /\ \A k \in 1 .. n : r.times[k] = rs[first + k - 1].at
  BY DEF IsRequest
<1>5. rs[i].at \in Nat
  BY DEF Usable
<1>6. r.times[n] = rs[i].at /\ r.times[1] = rs[first].at
  <2>1. first + n - 1 = i /\ first + 1 - 1 = first /\ n \in 1 .. n /\ 1 \in 1 .. n
    BY <1>3
  <2> HIDE DEF n
  <2> QED BY <1>4, <2>1
<1>7. r.times # <<>>
  BY <1>3, <1>4
<1> HIDE DEF n
<1>8. ASSUME NEW j \in 1 .. n, NEW k \in 1 .. n, j < k PROVE r.times[j] < r.times[k]
  <2>1. first + j - 1 \in DOMAIN rs /\ first + k - 1 \in DOMAIN rs /\ first + j - 1 < first + k - 1
    BY <1>1, <1>3, <1>8 DEF n
  <2> QED BY <1>4, <2>1, AskedInOrder
<1>9. r.predictedAt >= r.at
  BY <1>4, <1>5, RequestAssumption
<1> QED BY <1>4, <1>6, <1>7, <1>8, <1>9 DEF ValidRequest

\* What is derived from evidence that was accepted is valid.
LEMMA RequestedIsValid ==
  ASSUME NEW rs, NEW meta, Evident(rs, meta), Targets(rs) # {},
         NEW clips, NEW footage, Requested(clips, Windows(rs), footage)
  PROVE  ValidRequests(clips) /\ ValidPerceptions(Selected(Windows(rs)))
<1> DEFINE ws == Windows(rs)
           sel == Selected(ws)
<1>1. /\ DOMAIN sel = DOMAIN clips
      /\ \A n \in DOMAIN clips : sel[n] = ws[n].target /\ AsksAbout(clips[n], ws[n], rs, footage)
  BY RequestsAsk
<1>2. IsSeq(ws) /\ Advances(ws) /\ ws # <<>> /\ Usable(rs)
  BY WindowsFacts DEF Evident
<1>3. DOMAIN sel = DOMAIN ws
  BY DEF Selected
<1>4. \A n \in DOMAIN clips : clips[n] = WindowRequest(ws, n, footage)
  BY DEF Requested
<1> HIDE DEF ws, sel
<1>5. DOMAIN ws = 1 .. Len(ws) /\ Len(ws) \in Nat
  BY <1>2, SeqPositions
<1>6. ASSUME NEW n \in DOMAIN clips
      PROVE  /\ ws[n].last \in DOMAIN rs /\ sel[n] = rs[ws[n].last]
             /\ ValidRequest(clips[n])
             /\ clips[n].predictedAt = sel[n].at + LogicalLatency
             /\ clips[n].key[1] = sel[n].observation
             /\ clips[n].sequence = n - 1
  <2>1. AsksAbout(clips[n], ws[n], rs, footage) /\ sel[n] = ws[n].target
    BY <1>1
  <2>2. PICK i \in DOMAIN rs :
          /\ IsWindow(rs, i, FirstOf(rs, i)) /\ ws[n].target = rs[i] /\ ws[n].last = i
          /\ IsRequest(clips[n], rs, i, FirstOf(rs, i), footage)
    BY <2>1 DEF AsksAbout
  <2>3. ValidRequest(clips[n])
    BY <1>2, <2>2, RequestIsValid
  <2>4. /\ clips[n].predictedAt = rs[i].at + LogicalLatency
        /\ clips[n].key = <<rs[i].observation, SoleCat(rs[i]).id>>
    BY <2>2 DEF IsRequest
  <2>5. clips[n].sequence = n - 1
    BY <1>4 DEF WindowRequest, RequestFor
  <2> QED BY <2>1, <2>2, <2>3, <2>4, <2>5
<1>7. ASSUME NEW j \in DOMAIN clips, NEW k \in DOMAIN clips, j < k
      PROVE  /\ sel[j].at \in Nat /\ sel[k].at \in Nat
             /\ sel[j].at <= sel[k].at /\ sel[j].sequence < sel[k].sequence
             /\ sel[j].observation # sel[k].observation /\ sel[j].camera = sel[k].camera
  <2>1. ws[j].last < ws[k].last
    BY <1>1, <1>2, <1>3, <1>7 DEF Advances
  <2> QED BY <1>2, <1>6, <2>1, AskedInOrder
<1>8. ValidRequests(clips)
  <2>1. ASSUME NEW j \in DOMAIN clips, NEW k \in DOMAIN clips, j < k
        PROVE  /\ clips[j].predictedAt <= clips[k].predictedAt
               /\ clips[j].sequence < clips[k].sequence
               /\ clips[j].key # clips[k].key
    <3>1. j \in Nat /\ k \in Nat
      BY <1>1, <1>3, <1>5
    <3>2. /\ sel[j].at \in Nat /\ sel[k].at \in Nat /\ sel[j].at <= sel[k].at
          /\ sel[j].observation # sel[k].observation
      BY <1>7, <2>1
    <3>3. clips[j].predictedAt <= clips[k].predictedAt
      BY <1>6, <3>2, RequestAssumption
    <3>4. clips[j].sequence < clips[k].sequence
      BY <1>6, <2>1, <3>1
    <3>5. clips[j].key # clips[k].key
      BY <1>6, <3>2
    <3> QED BY <3>3, <3>4, <3>5
  <2> QED BY <1>6, <2>1 DEF ValidRequests
<1>9. ValidPerceptions(sel)
  <2>1. sel # <<>>
    <3>1. DOMAIN ws # {}
      <4>1. PICK S : ws \in Seq(S)
        BY <1>2 DEF IsSeq
      <4>2. Len(ws) # 0
        BY <1>2, <4>1, EmptySeq
      <4> QED BY <1>5, <4>2
    <3> QED BY <1>3, <3>1
  <2>2. \A n \in DOMAIN sel : ValidObservation(sel[n])
    BY <1>1, <1>2, <1>6 DEF Usable
  <2>3. OrderedObservations(sel)
    BY <1>1, <1>7 DEF OrderedObservations
  <2> QED BY <2>1, <2>2, <2>3 DEF ValidPerceptions
<1> QED BY <1>8, <1>9 DEF sel, ws

\* Evidence that was accepted is never refused later by the command's own
\* check of what it derived (assemble_incident, "failed its own contract").
THEOREM DerivedIsAlwaysValid == Spec => []DerivedIsValid
<1>1. ASSUME Gathered, step = "staging", Len(stage.clips) = Len(windows)
      PROVE  ValidRequests(stage.clips) /\ ValidPerceptions(Selected(windows))
  <2>1. /\ snapshot = contract.clip /\ Evident(records, contract)
        /\ windows = Windows(records) /\ Targets(records) # {} /\ IsUnderWay
    BY <1>1 DEF Gathered
  <2>2. IsSeq(windows)
    BY <2>1, WindowsFacts DEF Evident
  <2>3. Requested(stage.clips, Windows(records), contract.clip.footage)
    BY <1>1, <2>1, <2>2 DEF Requested, IsUnderWay
  <2> QED BY <2>1, <2>3, RequestedIsValid
<1>2. Gathered => DerivedIsValid
  BY <1>1 DEF DerivedIsValid
<1> QED BY <1>2, AlwaysGathered, PTL
=============================================================================
