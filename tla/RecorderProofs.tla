---------------------------- MODULE RecorderProofs ----------------------------
(***************************************************************************)
(* The recorder's four safety properties, for every value of its           *)
(* parameters.  The proof follows the footage.  The first part shows that  *)
(* the byte counters are the sums they stand for, whatever is cut from or  *)
(* appended to the frames; the second that every operator on footage keeps *)
(* the newest frames, in order, within its limit; the third that a clip    *)
(* joins those already published.  IInv is inductive: besides the          *)
(* properties it says what ties the buffer, the incident and the last      *)
(* observation together: the buffer is empty while an incident runs, the   *)
(* incident ends with the last observation, and the visit under way is in  *)
(* no clip unless recording is suppressed, or publish raised for that clip *)
(* and the caller went on.                                                 *)
(***************************************************************************)
EXTENDS Recorder, SharedLemmas, SequenceTheorems

-----------------------------------------------------------------------------
(* The inductive invariant *)

\* The time of the last observation, before any time at first.
Clock(p) == IF p = None THEN -1 ELSE p.at

\* Capture times increase strictly.
Ordered(frames) == \A i, j \in 1..Len(frames) : i < j => frames[i].at < frames[j].at

\* A visit began no later than the frames that belong to it.
Dated(f) == f.visit = None \/ f.visit <= f.at

\* The byte counter is the sum of the frames' sizes.
Sound(footage) ==
  /\ footage \in [frames : Seq(Frame), bytes : Int]
  /\ footage.bytes = Bytes(footage.frames)
  /\ Ordered(footage.frames)

\* The rolling buffer holds clear frames, within its limits.
BufferFine(buffer, now) ==
  /\ Sound(buffer) /\ Fits(buffer, MaxBufferFrames, MaxBufferBytes)
  /\ \A i \in 1..Len(buffer.frames) :
       buffer.frames[i].at <= now /\ ~Triggered(buffer.frames[i])

\* The i-th frame is in the window of a trigger.
Covered(frames, i) ==
  \E j \in 1..Len(frames) :
    /\ Triggered(frames[j])
    /\ frames[j].at - PreEvent <= frames[i].at
    /\ frames[i].at <= frames[j].at + PostEvent

\* Frames fit for a clip: the last one may lie outside every window.
Presentable(frames, now) ==
  /\ frames \in Seq(Frame) /\ frames # <<>> /\ Ordered(frames)
  /\ frames[Len(frames)].at - frames[1].at <= MaxClip \/ PreEvent > MaxClip
  /\ \A i \in 1..Len(frames) : frames[i].at <= now /\ Dated(frames[i])
  /\ \A i \in 1..(Len(frames) - 1) : Covered(frames, i)

\* An incident in progress: p is its last frame.
IncidentFine(incident, p) ==
  LET frames == incident.footage.frames
  IN  /\ incident \in Incident
      /\ Sound(incident.footage) /\ Fits(incident.footage, MaxActiveFrames, MaxActiveBytes)
      /\ p # None /\ Presentable(frames, p.at)
      /\ frames[Len(frames)] = p
      /\ \A i \in 1..Len(frames) : Covered(frames, i)
      /\ \E j \in 1..Len(frames) :
           frames[j].at = incident.lastTrigger /\ Triggered(frames[j])
      /\ incident.lastTriggered = Triggered(p)

\* Every frame comes after every published one.
After(cs, frames) ==
  \A c \in 1..Len(cs) : \A i \in 1..Len(cs[c].frames), j \in 1..Len(frames) :
    cs[c].frames[i].at < frames[j].at

\* No visit of these frames is in a clip, but for clips that may be followed.
Fresh(cs, frames) ==
  \A c \in 1..Len(cs) : ~MayBeFollowed(cs[c]) => \A i \in 1..Len(cs[c].frames), j \in 1..Len(frames) :
    frames[j].visit # None => cs[c].frames[i].visit # frames[j].visit

\* What a clip says of its end.
Terminations == {"max_clip_duration", "max_active_frames", "max_active_bytes",
                 "post_event_elapsed", "source_end"}

Clip == [frames : Seq(Frame), firstTrigger : Time, termination : Terminations,
         raised : BOOLEAN]

\* The clips, in order, with no visit in two of them unless it may be.
ClipsFine(cs, now) ==
  /\ cs \in Seq(Clip)
  /\ \A c \in 1..Len(cs) : Presentable(cs[c].frames, now)
  /\ \A c, d \in 1..Len(cs) : c < d => 
     \A i \in 1..Len(cs[c].frames), j \in 1..Len(cs[d].frames) :
        /\ cs[c].frames[i].at < cs[d].frames[j].at
        /\ ~MayBeFollowed(cs[c]) /\ cs[d].frames[j].visit # None =>
             cs[c].frames[i].visit # cs[d].frames[j].visit

\* The inductive invariant.
IInv ==
  /\ previous \in Frame \cup {None} /\ suppressed \in BOOLEAN /\ closed \in BOOLEAN
  /\ previous # None => Dated(previous)
  /\ BufferFine(prebuffer, Clock(previous)) /\ After(clips, prebuffer.frames)
  /\ active # None =>
       /\ IncidentFine(active, previous) /\ prebuffer = Nothing /\ ~suppressed /\ ~closed
       /\ After(clips, active.footage.frames) /\ Fresh(clips, active.footage.frames)
  /\ ClipsFine(clips, Clock(previous))
  /\ previous # None /\ ~suppressed /\ ~closed => Fresh(clips, <<previous>>)

-----------------------------------------------------------------------------
(* Sums of bytes *)

\* The frames' sizes are natural numbers.
LEMMA FrameType ==
  ASSUME NEW f \in Frame
  PROVE  /\ f.at \in Time /\ f.at \in Nat /\ f.bytes \in Nat /\ f # None
         /\ f.visit \in Time \cup {None}
<1>1. FrameSizes \subseteq Nat /\ None \notin Frame
  BY SourceAssumption, AbsenceAssumption
<1>2. f.at \in Time /\ f.bytes \in FrameSizes /\ f.visit \in Time \cup {None}
  BY DEF Frame
<1>3. f.at \in Nat /\ f # None
  BY <1>1, <1>2, SourceAssumption DEF Time
<1>4. f.bytes \in Nat
  BY <1>1, <1>2
<1> QED
  BY <1>2, <1>3, <1>4

\* Summing the bytes of frames is a running sum.
LEMMA BytesRun ==
  ASSUME NEW frames \in Seq(Frame)
  PROVE  \E s \in [0..Len(frames) -> Int] :
           /\ s[0] = 0 /\ \A i \in 1..Len(frames) : s[i] = s[i - 1] + frames[i].bytes
           /\ Bytes(frames) = s[Len(frames)]
<1> DEFINE n == Len(frames)
           size == [i \in 1..n |-> frames[i].bytes]
<1>1. n \in Nat /\ \A i \in 1..n : size[i] \in Int /\ size[i] = frames[i].bytes
  BY FrameType
<1> HIDE DEF n, size
<1>2. PICK s \in [0..n -> Int] :
        /\ s = [i \in 0..n |-> IF i = 0 THEN 0 ELSE s[i - 1] + size[i]]
        /\ \A t : t = [i \in 0..n |-> IF i = 0 THEN 0 ELSE t[i - 1] + size[i]] => t = s
  BY <1>1, RunningSum
<1>3. \A t : [i \in 0..n |-> IF i = 0 THEN 0 ELSE t[i - 1] + size[i]]
             = [i \in 0..n |-> IF i = 0 THEN 0 ELSE t[i - 1] + frames[i].bytes]
  <2> TAKE t
  <2>1. \A i \in 0..n : (IF i = 0 THEN 0 ELSE t[i - 1] + size[i])
                        = (IF i = 0 THEN 0 ELSE t[i - 1] + frames[i].bytes)
    <3> TAKE i \in 0..n
    <3>1. i # 0 => i \in 1..n
      BY <1>1
    <3> QED
      BY <1>1, <3>1
  <2> QED
    BY <2>1
<1>4. Bytes(frames) = s[n]
  <2> DEFINE Sums(t) == t = [i \in 0..n |-> IF i = 0 THEN 0 ELSE t[i - 1] + frames[i].bytes]
  <2>1. Sums(s) /\ \A t : Sums(t) => t = s
    BY <1>2, <1>3
  <2>2. Bytes(frames) = (CHOOSE t : Sums(t))[n]
    BY DEF Bytes, n
  <2> HIDE DEF Sums
  <2>3. (CHOOSE t : Sums(t)) = s
    BY <2>1
  <2> QED
    BY <2>2, <2>3
<1>5. s[0] = 0 /\ \A i \in 1..n : s[i] = s[i - 1] + frames[i].bytes
  BY <1>1, <1>2
<1> QED
  BY <1>4, <1>5 DEF n

\* A sum of bytes is a natural number, and nothing has no bytes.
LEMMA BytesNat ==
  ASSUME NEW frames \in Seq(Frame)
  PROVE  Bytes(frames) \in Nat /\ (frames = <<>> => Bytes(frames) = 0)
<1>1. PICK s \in [0..Len(frames) -> Int] :
        /\ s[0] = 0 /\ \A i \in 1..Len(frames) : s[i] = s[i - 1] + frames[i].bytes
        /\ Bytes(frames) = s[Len(frames)]
  BY BytesRun
<1> DEFINE T == {i \in Nat : i <= Len(frames) => s[i] \in Nat}
<1>2. 0 \in T
  BY <1>1
<1>3. ASSUME NEW i \in Nat, i \in T PROVE i + 1 \in T
  <2> SUFFICES ASSUME i + 1 <= Len(frames) PROVE s[i + 1] \in Nat
    OBVIOUS
  <2>1. i + 1 \in 1..Len(frames) /\ s[i] \in Nat /\ (i + 1) - 1 = i
    BY <1>3
  <2>2. frames[i + 1].bytes \in Nat
    BY <2>1, FrameType
  <2> QED
    BY <1>1, <2>1, <2>2
<1>4. Nat \subseteq T
  <2> HIDE DEF T
  <2> QED
    BY <1>2, <1>3, NatSetInduction
<1>5. frames = <<>> => Len(frames) = 0
  OBVIOUS
<1>6. Len(frames) \in Nat /\ Len(frames) <= Len(frames)
  OBVIOUS
<1> QED
  BY <1>1, <1>4, <1>5, <1>6

\* No frames have no bytes, one more frame adds its own.
LEMMA BytesAppend ==
  ASSUME NEW frames \in Seq(Frame), NEW f \in Frame
  PROVE  /\ Bytes(<<f>>) = f.bytes
         /\ Bytes(Append(frames, f)) = Bytes(frames) + f.bytes
<1>1. ASSUME NEW g \in Seq(Frame), NEW h \in Seq(Frame), Len(h) = Len(g) + 1,
             \A i \in 1..Len(g) : h[i] = g[i]
      PROVE  Bytes(h) = Bytes(g) + h[Len(g) + 1].bytes
  <2>1. PICK s \in [0..Len(g) -> Int] :
          /\ s[0] = 0 /\ \A i \in 1..Len(g) : s[i] = s[i - 1] + g[i].bytes
          /\ Bytes(g) = s[Len(g)]
    BY BytesRun
  <2>2. PICK t \in [0..Len(h) -> Int] :
          /\ t[0] = 0 /\ \A i \in 1..Len(h) : t[i] = t[i - 1] + h[i].bytes
          /\ Bytes(h) = t[Len(h)]
    BY BytesRun
  <2> DEFINE T == {i \in Nat : i <= Len(g) => t[i] = s[i]}
  <2>3. 0 \in T
    BY <2>1, <2>2
  <2>4. ASSUME NEW i \in Nat, i \in T PROVE i + 1 \in T
    <3> SUFFICES ASSUME i + 1 <= Len(g) PROVE t[i + 1] = s[i + 1]
      OBVIOUS
    <3>1. i + 1 \in 1..Len(g) /\ i + 1 \in 1..Len(h) /\ t[i] = s[i] /\ (i + 1) - 1 = i
      BY <1>1, <2>4
    <3> QED
      BY <1>1, <2>1, <2>2, <3>1
  <2>5. Nat \subseteq T
    <3> HIDE DEF T
    <3> QED
      BY <2>3, <2>4, NatSetInduction
  <2>6. t[Len(g)] = s[Len(g)]
    <3>1. Len(g) \in Nat /\ Len(g) <= Len(g)
      OBVIOUS
    <3>2. Len(g) \in T
      BY <2>5, <3>1
    <3> QED
      BY <3>1, <3>2
  <2>7. Len(h) \in 1..Len(h) /\ Len(h) - 1 = Len(g)
    BY <1>1
  <2>8. t[Len(h)] = t[Len(g)] + h[Len(h)].bytes
    BY <2>2, <2>7
  <2> QED
    BY <1>1, <2>1, <2>2, <2>6, <2>8
<1>2. <<>> \in Seq(Frame) /\ <<f>> \in Seq(Frame) /\ Append(frames, f) \in Seq(Frame)
  OBVIOUS
<1>3. Bytes(<<>>) = 0
  BY <1>2, BytesNat
<1>4. Bytes(<<f>>) = f.bytes
  <2>1. /\ Len(<<f>>) = Len(<<>>) + 1 /\ Len(<<>>) + 1 = 1
        /\ \A i \in 1..Len(<<>>) : <<f>>[i] = <<>>[i]
    OBVIOUS
  <2>2. <<f>>[1] = f /\ f.bytes \in Int
    BY FrameType
  <2>3. Bytes(<<f>>) = Bytes(<<>>) + <<f>>[Len(<<>>) + 1].bytes
    BY <1>1, <1>2, <2>1
  <2> QED
    BY <1>3, <2>1, <2>2, <2>3
<1>5. Bytes(Append(frames, f)) = Bytes(frames) + f.bytes
  <2>1. /\ Len(Append(frames, f)) = Len(frames) + 1
        /\ \A i \in 1..Len(frames) : Append(frames, f)[i] = frames[i]
        /\ Append(frames, f)[Len(frames) + 1] = f
    OBVIOUS
  <2>2. Bytes(Append(frames, f)) = Bytes(frames) + Append(frames, f)[Len(frames) + 1].bytes
    BY <1>1, <1>2, <2>1
  <2> QED
    BY <2>1, <2>2
<1> QED
  BY <1>4, <1>5

\* Cutting a sequence of frames in two cuts its bytes in two.
LEMMA BytesSplit ==
  ASSUME NEW frames \in Seq(Frame), NEW k \in 0..Len(frames)
  PROVE  LET older == SubSeq(frames, 1, k)
             newer == SubSeq(frames, k + 1, Len(frames))
         IN  /\ older \in Seq(Frame) /\ newer \in Seq(Frame)
             /\ Len(newer) = Len(frames) - k
             /\ \A i \in 1..Len(newer) : newer[i] = frames[k + i]
             /\ Bytes(newer) = Bytes(frames) - Bytes(older)
<1> DEFINE older == SubSeq(frames, 1, k)
           newer == SubSeq(frames, k + 1, Len(frames))
           n == Len(frames)
<1>1. n \in Nat /\ k \in Nat /\ k <= n
  OBVIOUS
<1>2. /\ older \in Seq(Frame) /\ Len(older) = k
      /\ \A i \in 1..k : older[i] = frames[i]
  <2>1. /\ older \in Seq(Frame) /\ Len(older) = IF 1 <= k THEN k - 1 + 1 ELSE 0
        /\ \A i \in 1..(k - 1 + 1) : older[i] = frames[1 + i - 1]
    <3>1. \A i \in 1..k : frames[i] \in Frame
      OBVIOUS
    <3> QED
      BY <3>1, SubSeqProperties
  <2> QED
    BY <2>1
<1>3. /\ newer \in Seq(Frame) /\ Len(newer) = n - k
      /\ \A i \in 1..(n - k) : newer[i] = frames[k + i]
  <2>1. /\ newer \in Seq(Frame) /\ Len(newer) = IF k + 1 <= n THEN n - (k + 1) + 1 ELSE 0
        /\ \A i \in 1..(n - (k + 1) + 1) : newer[i] = frames[(k + 1) + i - 1]
    <3>1. \A i \in (k + 1)..n : frames[i] \in Frame
      BY <1>1
    <3> QED
      BY <1>1, <3>1, SubSeqProperties
  <2> QED
    BY <1>1, <2>1
<1> HIDE DEF older, newer, n
<1>4. PICK s \in [0..n -> Int] :
        /\ s[0] = 0 /\ \A i \in 1..n : s[i] = s[i - 1] + frames[i].bytes
        /\ Bytes(frames) = s[n]
  BY BytesRun DEF n
<1>5. PICK o \in [0..k -> Int] :
        /\ o[0] = 0 /\ \A i \in 1..k : o[i] = o[i - 1] + older[i].bytes
        /\ Bytes(older) = o[k]
  BY <1>2, BytesRun
<1>6. PICK w \in [0..(n - k) -> Int] :
        /\ w[0] = 0 /\ \A i \in 1..(n - k) : w[i] = w[i - 1] + newer[i].bytes
        /\ Bytes(newer) = w[n - k]
  BY <1>3, BytesRun
<1>7. o[k] = s[k]
  <2> DEFINE T == {i \in Nat : i <= k => o[i] = s[i]}
  <2>1. 0 \in T
    BY <1>4, <1>5
  <2>2. ASSUME NEW i \in Nat, i \in T PROVE i + 1 \in T
    <3> SUFFICES ASSUME i + 1 <= k PROVE o[i + 1] = s[i + 1]
      OBVIOUS
    <3>1. i + 1 \in 1..k /\ i + 1 \in 1..n /\ o[i] = s[i] /\ (i + 1) - 1 = i
      BY <1>1, <2>2
    <3> QED
      BY <1>2, <1>4, <1>5, <3>1
  <2>3. Nat \subseteq T
    <3> HIDE DEF T
    <3> QED
      BY <2>1, <2>2, NatSetInduction
  <2> QED
    BY <1>1, <2>3
<1>8. w[n - k] = s[n] - s[k]
  <2> DEFINE T == {i \in Nat : i <= n - k => w[i] = s[k + i] - s[k]}
  <2>1. 0 \in T
    BY <1>1, <1>4, <1>6
  <2>2. ASSUME NEW i \in Nat, i \in T PROVE i + 1 \in T
    <3> SUFFICES ASSUME i + 1 <= n - k PROVE w[i + 1] = s[k + (i + 1)] - s[k]
      OBVIOUS
    <3>1. /\ i + 1 \in 1..(n - k) /\ k + (i + 1) \in 1..n /\ w[i] = s[k + i] - s[k]
          /\ (i + 1) - 1 = i /\ (k + (i + 1)) - 1 = k + i
          /\ k + i \in 0..n /\ k \in 0..n
      BY <1>1, <2>2
    <3>2. frames[k + (i + 1)].bytes \in Int
      BY <3>1, FrameType DEF n
    <3>3. /\ w[i + 1] = w[i] + frames[k + (i + 1)].bytes
          /\ s[k + (i + 1)] = s[k + i] + frames[k + (i + 1)].bytes
      BY <1>3, <1>4, <1>6, <3>1
    <3>4. s[k + i] \in Int /\ s[k] \in Int
      BY <3>1
    <3> QED
      BY <3>1, <3>2, <3>3, <3>4
  <2>3. Nat \subseteq T
    <3> HIDE DEF T
    <3> QED
      BY <2>1, <2>2, NatSetInduction
  <2>4. n - k \in Nat /\ k + (n - k) = n
    BY <1>1
  <2> QED
    BY <2>3, <2>4
<1> QED
  BY <1>2, <1>3, <1>4, <1>5, <1>6, <1>7, <1>8 DEF n, older, newer

-----------------------------------------------------------------------------
(* What the footage operators keep *)

\* r is what is left of footage when some of its oldest frames are dropped.
Trimmed(r, footage) ==
  /\ Sound(r)
  /\ \E k \in 0..Len(footage.frames) :
       /\ Len(r.frames) = Len(footage.frames) - k
       /\ \A i \in 1..Len(r.frames) : r.frames[i] = footage.frames[k + i]

\* Forgetting the k oldest frames.
LEMMA Forgetting ==
  ASSUME NEW footage, Sound(footage), NEW k \in 0..Len(footage.frames)
  PROVE  LET r == Forget(footage, k)
         IN  /\ Trimmed(r, footage)
             /\ Len(r.frames) = Len(footage.frames) - k
             /\ \A i \in 1..Len(r.frames) : r.frames[i] = footage.frames[k + i]
<1> DEFINE frames == footage.frames
           r == Forget(footage, k)
<1>1. frames \in Seq(Frame) /\ footage.bytes = Bytes(frames) /\ Ordered(frames)
  BY DEF Sound
<1>2. /\ r.frames = SubSeq(frames, k + 1, Len(frames))
      /\ r.bytes = footage.bytes - Bytes(SubSeq(frames, 1, k))
      /\ r = [frames |-> r.frames, bytes |-> r.bytes]
  BY DEF Forget
<1> HIDE DEF r
<1>3. /\ r.frames \in Seq(Frame) /\ Len(r.frames) = Len(frames) - k
      /\ \A i \in 1..Len(r.frames) : r.frames[i] = frames[k + i]
      /\ r.bytes = Bytes(r.frames)
  BY <1>1, <1>2, BytesSplit
<1>4. Ordered(r.frames)
  <2>1. ASSUME NEW i \in 1..Len(r.frames), NEW j \in 1..Len(r.frames), i < j
        PROVE  r.frames[i].at < r.frames[j].at
    <3>1. k + i \in 1..Len(frames) /\ k + j \in 1..Len(frames) /\ k + i < k + j
      BY <1>1, <1>3, <2>1
    <3> QED
      BY <1>1, <1>3, <3>1 DEF Ordered
  <2> QED
    BY <2>1 DEF Ordered
<1>5. r \in [frames : Seq(Frame), bytes : Int]
  <2>1. Bytes(r.frames) \in Nat
    BY <1>3, BytesNat
  <2>2. r = [frames |-> r.frames, bytes |-> r.bytes] /\ r.bytes \in Int
    BY <1>2, <1>3, <2>1
  <2> QED
    BY <1>3, <2>2
<1>6. Trimmed(r, footage)
  BY <1>3, <1>4, <1>5 DEF Trimmed, Sound
<1> QED
  BY <1>3, <1>6 DEF r

\* The number of frames a loop drops: its limit, or enough.
LEMMA Least ==
  ASSUME NEW limit \in Nat, NEW S, S \subseteq 0..limit
  PROVE  LET k == Min({limit} \cup S) IN k \in 0..limit /\ (k = limit \/ k \in S)
<1> DEFINE T == {limit} \cup S
<1>1. T \subseteq Nat /\ T # {} /\ T \subseteq 0..limit
  OBVIOUS
<1>2. \E x \in T : \A y \in T : x <= y
  <2> HIDE DEF T
  <2> QED
    BY <1>1, LeastNatural
<1>3. Min(T) \in T
  BY <1>2 DEF Min
<1> QED
  BY <1>1, <1>3

\* What is left of old footage begins within the pre-event window.
LEMMA RecentTrims ==
  ASSUME NEW footage, Sound(footage), NEW now
  PROVE  LET r == Recent(footage, now)
         IN  /\ Trimmed(r, footage)
             /\ r.frames = <<>> \/ r.frames[1].at >= now - PreEvent
<1> DEFINE n == Len(footage.frames)
           S == {k \in 0..n : \/ Forget(footage, k).frames = <<>>
                              \/ First(Forget(footage, k)).at >= now - PreEvent}
           k == Min({n} \cup S)
<1>1. n \in Nat
  BY DEF Sound
<1>2. Recent(footage, now) = Forget(footage, k)
  BY DEF Recent, Dropped
<1>3. S \subseteq 0..n
  OBVIOUS
<1> HIDE DEF S
<1>4. k \in 0..n /\ (k = n \/ k \in S)
  BY <1>1, <1>3, Least
<1> HIDE DEF k
<1> DEFINE r == Forget(footage, k)
<1>5. Trimmed(r, footage) /\ Len(r.frames) = n - k
  BY <1>4, Forgetting
<1>6. r.frames = <<>> \/ r.frames[1].at >= now - PreEvent
  <2>1. CASE k = n
    BY <1>1, <1>5, <2>1 DEF Trimmed, Sound
  <2>2. CASE k \in S
    BY <2>2 DEF S, First
  <2> QED
    BY <1>4, <2>1, <2>2
<1> QED
  BY <1>2, <1>5, <1>6

\* What the buffer keeps is its newest frames and fits.
LEMMA WithinBufferTrims ==
  ASSUME NEW footage, Sound(footage)
  PROVE  LET r == WithinBuffer(footage)
         IN  Trimmed(r, footage) /\ Fits(r, MaxBufferFrames, MaxBufferBytes)
<1> DEFINE n == Len(footage.frames)
           S == {k \in 0..n : Fits(Forget(footage, k), MaxBufferFrames, MaxBufferBytes)}
           k == Min({n} \cup S)
<1>1. n \in Nat
  BY DEF Sound
<1>2. WithinBuffer(footage) = Forget(footage, k)
  BY DEF WithinBuffer, Dropped
<1>3. S \subseteq 0..n
  OBVIOUS
<1> HIDE DEF S
<1>4. k \in 0..n /\ (k = n \/ k \in S)
  BY <1>1, <1>3, Least
<1> HIDE DEF k
<1> DEFINE r == Forget(footage, k)
<1>5. Trimmed(r, footage) /\ Len(r.frames) = n - k
  BY <1>4, Forgetting
<1>6. Fits(r, MaxBufferFrames, MaxBufferBytes)
  <2>1. CASE k = n
    <3>1. r.frames \in Seq(Frame) /\ r.bytes = Bytes(r.frames) /\ Len(r.frames) = 0
      BY <1>1, <1>5, <2>1 DEF Trimmed, Sound
    <3>2. Bytes(r.frames) = 0
      BY <3>1, BytesNat
    <3> QED
      BY <3>1, <3>2, RecorderConfigAssumption DEF Fits
  <2>2. CASE k \in S
    BY <2>2 DEF S
  <2> QED
    BY <1>4, <2>1, <2>2
<1> QED
  BY <1>2, <1>5, <1>6

\* The history of an incident keeps its last frame.
LEMMA WithinIncidentTrims ==
  ASSUME NEW footage, Sound(footage), footage.frames # <<>>
  PROVE  LET r == WithinIncident(footage)
         IN  Trimmed(r, footage) /\ r.frames # <<>>
<1> DEFINE n == Len(footage.frames)
           S == {k \in 0..(n - 1) : Fits(Forget(footage, k), MaxActiveFrames, MaxActiveBytes)}
           k == Min({n - 1} \cup S)
<1>1. n \in Nat /\ n - 1 \in Nat
  BY DEF Sound
<1>2. WithinIncident(footage) = Forget(footage, k)
  BY DEF WithinIncident, Dropped
<1>3. S \subseteq 0..(n - 1)
  OBVIOUS
<1> HIDE DEF S
<1>4. k \in 0..(n - 1)
  BY <1>1, <1>3, Least
<1> HIDE DEF k
<1> DEFINE r == Forget(footage, k)
<1>5. Trimmed(r, footage) /\ Len(r.frames) = n - k
  BY <1>1, <1>4, Forgetting
<1> QED
  BY <1>1, <1>2, <1>4, <1>5

\* One more frame, later than those before it.
LEMMA Extending ==
  ASSUME NEW footage, Sound(footage), NEW f \in Frame,
         \A i \in 1..Len(footage.frames) : footage.frames[i].at < f.at
  PROVE  LET r == Extend(footage, f)
         IN  /\ Sound(r) /\ Len(r.frames) = Len(footage.frames) + 1
             /\ \A i \in 1..Len(footage.frames) : r.frames[i] = footage.frames[i]
             /\ r.frames[Len(footage.frames) + 1] = f
             /\ r.bytes = footage.bytes + f.bytes
<1> DEFINE frames == footage.frames
           n == Len(frames)
           more == Append(frames, f)
           r == Extend(footage, f)
<1>1. /\ frames \in Seq(Frame) /\ footage.bytes = Bytes(frames) /\ Ordered(frames)
      /\ footage.bytes \in Int
  BY DEF Sound
<1>2. /\ more \in Seq(Frame) /\ Len(more) = n + 1 /\ n \in Nat
      /\ \A i \in 1..n : more[i] = frames[i]
      /\ more[n + 1] = f
  BY <1>1
<1>3. r = [frames |-> more, bytes |-> footage.bytes + f.bytes]
  BY DEF Extend
<1>4. Bytes(more) = Bytes(frames) + f.bytes /\ f.bytes \in Nat
  BY <1>1, BytesAppend, FrameType
<1> HIDE DEF r, more
<1>5. Ordered(more)
  <2>1. ASSUME NEW i \in 1..Len(more), NEW j \in 1..Len(more), i < j
        PROVE  more[i].at < more[j].at
    <3>1. i \in 1..n
      BY <1>2, <2>1
    <3>2. CASE j \in 1..n
      BY <1>1, <1>2, <2>1, <3>1, <3>2 DEF Ordered
    <3>3. CASE j = n + 1
      BY <1>2, <3>1, <3>3
    <3> QED
      BY <1>2, <3>2, <3>3
  <2> QED
    BY <2>1 DEF Ordered
<1>6. r.frames = more /\ r.bytes = footage.bytes + f.bytes
      /\ r \in [frames : Seq(Frame), bytes : Int]
  <2>1. footage.bytes + f.bytes \in Int
    BY <1>1, <1>4
  <2> QED
    BY <1>2, <1>3, <2>1
<1>7. Sound(r)
  BY <1>1, <1>4, <1>5, <1>6 DEF Sound
<1> QED
  BY <1>2, <1>6, <1>7 DEF r

\* Trimming twice is trimming.
LEMMA TrimmingTwice ==
  ASSUME NEW a, NEW b, NEW c, Trimmed(b, a), Trimmed(c, b), Sound(a)
  PROVE  Trimmed(c, a)
<1>1. PICK k \in 0..Len(a.frames) :
        /\ Len(b.frames) = Len(a.frames) - k
        /\ \A i \in 1..Len(b.frames) : b.frames[i] = a.frames[k + i]
  BY DEF Trimmed
<1>2. PICK l \in 0..Len(b.frames) :
        /\ Len(c.frames) = Len(b.frames) - l
        /\ \A i \in 1..Len(c.frames) : c.frames[i] = b.frames[l + i]
  BY DEF Trimmed
<1>3. Len(a.frames) \in Nat /\ Sound(c)
  BY DEF Sound, Trimmed
<1>4. k + l \in 0..Len(a.frames) /\ Len(c.frames) = Len(a.frames) - (k + l)
  BY <1>1, <1>2, <1>3
<1>5. \A i \in 1..Len(c.frames) : c.frames[i] = a.frames[(k + l) + i]
  <2> TAKE i \in 1..Len(c.frames)
  <2>1. l + i \in 1..Len(b.frames) /\ k + (l + i) = (k + l) + i
    BY <1>1, <1>2, <1>3
  <2> QED
    BY <1>1, <1>2, <2>1
<1> QED
  BY <1>3, <1>4, <1>5 DEF Trimmed

\* What is left after trimming: the same frames, and the last one stays.
LEMMA TrimmedFrames ==
  ASSUME NEW a, NEW b, Sound(a), Trimmed(b, a)
  PROVE  /\ Sound(b) /\ b.frames \in Seq(Frame)
         /\ \A i \in 1..Len(b.frames) : \E j \in 1..Len(a.frames) :
              i <= j /\ b.frames[i] = a.frames[j]
         /\ b.frames # <<>> => b.frames[Len(b.frames)] = a.frames[Len(a.frames)]
<1>1. PICK k \in 0..Len(a.frames) :
        /\ Len(b.frames) = Len(a.frames) - k
        /\ \A i \in 1..Len(b.frames) : b.frames[i] = a.frames[k + i]
  BY DEF Trimmed
<1>2. Sound(b) /\ b.frames \in Seq(Frame) /\ Len(a.frames) \in Nat /\ Len(b.frames) \in Nat
  BY DEF Trimmed, Sound
<1>3. \A i \in 1..Len(b.frames) : k + i \in 1..Len(a.frames) /\ i <= k + i
  BY <1>1, <1>2
<1>4. b.frames # <<>> => Len(b.frames) \in 1..Len(b.frames) /\ k + Len(b.frames) = Len(a.frames)
  BY <1>1, <1>2
<1> QED
  BY <1>1, <1>2, <1>3, <1>4

\* A frame remembered is the last one, and what is left of the buffer is recent.
LEMMA Remembering ==
  ASSUME NEW buffer, Sound(buffer), NEW f \in Frame,
         \A i \in 1..Len(buffer.frames) : buffer.frames[i].at < f.at
  PROVE  LET r == Remember(buffer, f)
         IN  /\ Sound(r) /\ Fits(r, MaxBufferFrames, MaxBufferBytes)
             /\ \A i \in 1..Len(r.frames) :
                  \/ r.frames[i] = f
                  \/ \E j \in 1..Len(buffer.frames) : r.frames[i] = buffer.frames[j]
             /\ \A i \in 1..Len(r.frames) : r.frames[i].at >= f.at - PreEvent
             /\ r.frames # <<>> => r.frames[Len(r.frames)] = f
<1> DEFINE more == Extend(buffer, f)
           recent == Recent(more, f.at)
           r == WithinBuffer(recent)
           n == Len(buffer.frames)
<1>1. /\ Sound(more) /\ Len(more.frames) = n + 1 /\ n \in Nat
      /\ \A i \in 1..n : more.frames[i] = buffer.frames[i]
      /\ more.frames[n + 1] = f
  <2>1. n \in Nat
    BY DEF Sound
  <2> HIDE DEF more
  <2> QED
    BY <2>1, Extending DEF more
<1> HIDE DEF more
<1>2. /\ Trimmed(recent, more)
      /\ recent.frames = <<>> \/ recent.frames[1].at >= f.at - PreEvent
  <2> HIDE DEF recent
  <2> QED
    BY <1>1, RecentTrims DEF recent
<1> HIDE DEF recent
<1>3. Sound(recent) /\ recent.frames \in Seq(Frame)
  BY <1>2 DEF Trimmed, Sound
<1>4. Trimmed(r, recent) /\ Fits(r, MaxBufferFrames, MaxBufferBytes)
  BY <1>3, WithinBufferTrims
<1> HIDE DEF r
<1>5. Trimmed(r, more)
  BY <1>1, <1>2, <1>4, TrimmingTwice
<1>6. /\ Sound(r) /\ r.frames \in Seq(Frame)
      /\ \A i \in 1..Len(r.frames) : \E j \in 1..Len(more.frames) : r.frames[i] = more.frames[j]
      /\ r.frames # <<>> => r.frames[Len(r.frames)] = f
  BY <1>1, <1>5, TrimmedFrames
<1>7. \A i \in 1..Len(r.frames) :
        r.frames[i] = f \/ \E j \in 1..n : r.frames[i] = buffer.frames[j]
  <2> TAKE i \in 1..Len(r.frames)
  <2>1. PICK j \in 1..(n + 1) : r.frames[i] = more.frames[j]
    BY <1>1, <1>6
  <2>2. CASE j = n + 1
    BY <1>1, <2>1, <2>2
  <2>3. CASE j \in 1..n
    BY <1>1, <2>1, <2>3
  <2> QED
    BY <1>1, <2>2, <2>3
<1>8. \A i \in 1..Len(r.frames) : r.frames[i].at >= f.at - PreEvent
  <2> TAKE i \in 1..Len(r.frames)
  <2>1. PICK j \in 1..Len(recent.frames) : r.frames[i] = recent.frames[j]
    BY <1>3, <1>4, TrimmedFrames
  <2>2. recent.frames[1].at >= f.at - PreEvent /\ 1 \in 1..Len(recent.frames)
    BY <1>2, <1>3, <2>1
  <2>3. /\ recent.frames[1].at \in Nat /\ recent.frames[j].at \in Nat
        /\ f.at \in Nat /\ PreEvent \in Nat
    BY <1>3, <2>2, FrameType, RecorderConfigAssumption
  <2>4. 1 < j => recent.frames[1].at < recent.frames[j].at
    BY <1>3, <2>2 DEF Sound, Ordered
  <2> QED
    BY <2>1, <2>2, <2>3, <2>4
<1> QED
  BY <1>4, <1>6, <1>7, <1>8 DEF Remember, r, recent, more

\* What an incident starts with when f arrives: f, after recent frames of the buffer.
Opens(footage, f, buffer) ==
  /\ Sound(footage) /\ footage.frames # <<>> /\ footage.frames[Len(footage.frames)] = f
  /\ \A i \in 1..Len(footage.frames) :
       /\ footage.frames[i].at >= f.at - PreEvent
       /\ \/ footage.frames[i] = f
          \/ \E j \in 1..Len(buffer.frames) : footage.frames[i] = buffer.frames[j]

\* Whether or not the buffer took the trigger frame, the incident starts with it.
LEMMA Opening ==
  ASSUME NEW buffer, Sound(buffer), NEW f \in Frame,
         \A i \in 1..Len(buffer.frames) : buffer.frames[i].at < f.at,
         NEW offered, offered = buffer \/ offered = Remember(buffer, f)
  PROVE  Opens(WithinIncident(History(offered, f)), f, buffer)
<1> DEFINE history == History(offered, f)
           footage == WithinIncident(history)
           alone == [frames |-> <<f>>, bytes |-> f.bytes]
<1>1. f.at \in Nat /\ f.bytes \in Nat /\ PreEvent \in Nat /\ f.at >= f.at - PreEvent
  BY FrameType, RecorderConfigAssumption
<1>2. Opens(history, f, buffer)
  <2>1. CASE offered.frames # <<>> /\ Last(offered.frames).at = f.at
    <3>1. offered = Remember(buffer, f)
      <4> SUFFICES ASSUME offered = buffer PROVE FALSE
        OBVIOUS
      <4>1. offered.frames \in Seq(Frame)
        BY DEF Sound
      <4>2. Len(offered.frames) \in 1..Len(offered.frames)
        BY <2>1, <4>1
      <4>3. buffer.frames[Len(offered.frames)].at = f.at
        BY <2>1 DEF Last
      <4> QED
        BY <1>1, <4>2, <4>3
    <3>2. history = offered
      BY <2>1 DEF History
    <3>3. /\ Sound(offered) /\ offered.frames # <<>>
          /\ offered.frames[Len(offered.frames)] = f
          /\ \A i \in 1..Len(offered.frames) :
               /\ offered.frames[i].at >= f.at - PreEvent
               /\ \/ offered.frames[i] = f
                  \/ \E j \in 1..Len(buffer.frames) : offered.frames[i] = buffer.frames[j]
      BY <2>1, <3>1, Remembering
    <3> QED
      BY <3>2, <3>3 DEF Opens
  <2>2. CASE ~(offered.frames # <<>> /\ Last(offered.frames).at = f.at)
    <3>1. history = alone
      BY <2>2 DEF History
    <3>2. /\ alone.frames = <<f>> /\ alone.bytes = f.bytes
          /\ alone \in [frames : Seq(Frame), bytes : Int]
          /\ <<f>> \in Seq(Frame) /\ Len(<<f>>) = 1 /\ <<f>>[1] = f /\ <<f>> # <<>>
      BY <1>1
    <3>3. Bytes(<<f>>) = f.bytes
      BY <3>2, BytesAppend
    <3>4. Sound(alone)
      BY <3>2, <3>3 DEF Sound, Ordered
    <3>5. \A i \in 1..Len(alone.frames) : alone.frames[i] = f
      BY <3>2
    <3> QED
      BY <1>1, <3>1, <3>2, <3>4, <3>5 DEF Opens
  <2> QED
    BY <2>1, <2>2
<1> HIDE DEF history
<1>3. Trimmed(footage, history) /\ footage.frames # <<>>
  BY <1>2, WithinIncidentTrims DEF Opens
<1> HIDE DEF footage
<1>4. /\ Sound(footage) /\ footage.frames \in Seq(Frame)
      /\ \A i \in 1..Len(footage.frames) : \E j \in 1..Len(history.frames) :
           footage.frames[i] = history.frames[j]
      /\ footage.frames[Len(footage.frames)] = history.frames[Len(history.frames)]
  BY <1>2, <1>3, TrimmedFrames DEF Opens
<1>5. Opens(footage, f, buffer)
  BY <1>2, <1>3, <1>4 DEF Opens
<1> QED
  BY <1>5 DEF footage, history

-----------------------------------------------------------------------------
(* Clips and the frames after them *)

\* Published clips stay as good as they were when time goes on.
LEMMA ClipsLater ==
  ASSUME NEW cs, NEW now \in Int, NEW later \in Int, ClipsFine(cs, now), now <= later
  PROVE  ClipsFine(cs, later)
<1>1. ASSUME NEW c \in 1..Len(cs) PROVE Presentable(cs[c].frames, later)
  <2>1. Presentable(cs[c].frames, now)
    BY DEF ClipsFine
  <2>2. \A i \in 1..Len(cs[c].frames) : cs[c].frames[i].at \in Nat
    BY <2>1, FrameType DEF Presentable
  <2>3. \A i \in 1..Len(cs[c].frames) : cs[c].frames[i].at <= later
    BY <2>1, <2>2 DEF Presentable
  <2> QED
    BY <2>1, <2>3 DEF Presentable
<1> QED
  BY <1>1 DEF ClipsFine

\* A clip of later frames and other visits joins those already published.
LEMMA Publishing ==
  ASSUME NEW cs, NEW now \in Int, NEW later \in Int, ClipsFine(cs, now), now <= later,
         NEW clip \in Clip,
         Presentable(clip.frames, later), After(cs, clip.frames), Fresh(cs, clip.frames)
  PROVE  ClipsFine(Append(cs, clip), later)
<1> DEFINE ds == Append(cs, clip)
           n == Len(cs)
<1>1. cs \in Seq(Clip) /\ ClipsFine(cs, later)
  BY ClipsLater DEF ClipsFine
<1>2. /\ ds \in Seq(Clip) /\ Len(ds) = n + 1 /\ n \in Nat
      /\ \A c \in 1..n : ds[c] = cs[c]
      /\ ds[n + 1] = clip
  BY <1>1
<1> HIDE DEF ds
<1>3. ASSUME NEW c \in 1..Len(ds) PROVE Presentable(ds[c].frames, later)
  <2>1. c \in 1..n \/ c = n + 1
    BY <1>2
  <2> QED
    BY <1>1, <1>2, <2>1 DEF ClipsFine
<1>4. ASSUME NEW c \in 1..Len(ds), NEW d \in 1..Len(ds), c < d,
             NEW i \in 1..Len(ds[c].frames), NEW j \in 1..Len(ds[d].frames)
      PROVE  /\ ds[c].frames[i].at < ds[d].frames[j].at
             /\ ~MayBeFollowed(ds[c]) /\ ds[d].frames[j].visit # None =>
                  ds[c].frames[i].visit # ds[d].frames[j].visit
  <2>1. c \in 1..n /\ ds[c] = cs[c]
    BY <1>2, <1>4
  <2>2. CASE d \in 1..n
    <3>1. ds[d] = cs[d]
      BY <1>2, <2>2
    <3> QED
      BY <1>1, <1>4, <2>1, <2>2, <3>1 DEF ClipsFine
  <2>3. CASE d = n + 1
    <3>1. ds[d] = clip
      BY <1>2, <2>3
    <3>2. i \in 1..Len(cs[c].frames) /\ j \in 1..Len(clip.frames)
      BY <2>1, <3>1
    <3>3. cs[c].frames[i].at < clip.frames[j].at
      BY <2>1, <3>2 DEF After
    <3>4. ~MayBeFollowed(cs[c]) /\ clip.frames[j].visit # None =>
            cs[c].frames[i].visit # clip.frames[j].visit
      BY <2>1, <3>2 DEF Fresh
    <3> QED
      BY <2>1, <3>1, <3>3, <3>4
  <2> QED
    BY <1>2, <2>2, <2>3
<1>5. ClipsFine(ds, later)
  BY <1>2, <1>3, <1>4 DEF ClipsFine
<1> QED
  BY <1>5 DEF ds

\* A frame later than all clips comes after them, and a visit that begins with
\* it is in none of them.
LEMMA Newer ==
  ASSUME NEW cs, NEW now \in Int, ClipsFine(cs, now), NEW f \in Frame, now < f.at
  PROVE  /\ After(cs, <<f>>)
         /\ f.visit \in {None, f.at} => Fresh(cs, <<f>>)
<1>1. ASSUME NEW c \in 1..Len(cs), NEW i \in 1..Len(cs[c].frames)
      PROVE  /\ cs[c].frames[i].at < f.at
             /\ f.visit = f.at => cs[c].frames[i].visit # f.visit
  <2>1. Presentable(cs[c].frames, now)
    BY DEF ClipsFine
  <2>2. cs[c].frames[i] \in Frame /\ cs[c].frames[i].at <= now /\ Dated(cs[c].frames[i])
    BY <2>1 DEF Presentable
  <2>3. cs[c].frames[i].at < f.at
    BY <2>2, FrameType
  <2>4. f.at \in Nat /\ cs[c].frames[i].at \in Nat /\ f.at # None
    BY <2>2, FrameType, SourceAssumption
  <2>5. cs[c].frames[i].visit = f.at => FALSE
    BY <2>2, <2>3, <2>4 DEF Dated
  <2> QED
    BY <2>3, <2>5
<1>2. Len(<<f>>) = 1 /\ <<f>>[1] = f
  OBVIOUS
<1> QED
  BY <1>1, <1>2 DEF After, Fresh

\* Frames of which each comes after the clips do so together.
LEMMA Together ==
  ASSUME NEW cs, NEW frames, NEW older, NEW f,
         \A i \in 1..Len(frames) :
           frames[i] = f \/ \E j \in 1..Len(older) : frames[i] = older[j]
  PROVE  /\ After(cs, older) /\ After(cs, <<f>>) => After(cs, frames)
         /\ Fresh(cs, older) /\ Fresh(cs, <<f>>) => Fresh(cs, frames)
<1>1. Len(<<f>>) = 1 /\ <<f>>[1] = f /\ 1 \in 1..1
  OBVIOUS
<1>2. ASSUME After(cs, older), After(cs, <<f>>) PROVE After(cs, frames)
  <2> SUFFICES ASSUME NEW c \in 1..Len(cs), NEW i \in 1..Len(cs[c].frames),
                      NEW j \in 1..Len(frames)
               PROVE  cs[c].frames[i].at < frames[j].at
    BY DEF After
  <2>1. cs[c].frames[i].at < f.at
    BY <1>1, <1>2 DEF After
  <2>2. \A m \in 1..Len(older) : cs[c].frames[i].at < older[m].at
    BY <1>2 DEF After
  <2> QED
    BY <2>1, <2>2
<1>3. ASSUME Fresh(cs, older), Fresh(cs, <<f>>) PROVE Fresh(cs, frames)
  <2> SUFFICES ASSUME NEW c \in 1..Len(cs), NEW i \in 1..Len(cs[c].frames),
                      NEW j \in 1..Len(frames), frames[j].visit # None,
                      ~MayBeFollowed(cs[c])
               PROVE  cs[c].frames[i].visit # frames[j].visit
    BY DEF Fresh
  <2>1. f.visit # None => cs[c].frames[i].visit # f.visit
    BY <1>1, <1>3 DEF Fresh
  <2>2. \A m \in 1..Len(older) :
          older[m].visit # None => cs[c].frames[i].visit # older[m].visit
    BY <1>3 DEF Fresh
  <2> QED
    BY <2>1, <2>2
<1> QED
  BY <1>2, <1>3

\* A clear frame leaves a good buffer, whether it is remembered or not.
LEMMA Retaining ==
  ASSUME NEW buffer, NEW now \in Int, BufferFine(buffer, now),
         NEW f \in Frame, now < f.at, ~Triggered(f),
         NEW cs, After(cs, buffer.frames), After(cs, <<f>>),
         NEW r, r = buffer \/ r = Remember(buffer, f)
  PROVE  BufferFine(r, f.at) /\ After(cs, r.frames)
<1>1. /\ Sound(buffer) /\ buffer.frames \in Seq(Frame)
      /\ \A i \in 1..Len(buffer.frames) : buffer.frames[i].at <= now
  BY DEF BufferFine, Sound
<1>2. f.at \in Nat /\ \A i \in 1..Len(buffer.frames) : buffer.frames[i].at \in Nat
  BY <1>1, FrameType
<1>3. \A i \in 1..Len(buffer.frames) :
        buffer.frames[i].at < f.at /\ buffer.frames[i].at <= f.at
  BY <1>1, <1>2
<1>4. CASE r = buffer
  BY <1>3, <1>4 DEF BufferFine
<1>5. CASE r = Remember(buffer, f)
  <2>1. /\ Sound(r) /\ Fits(r, MaxBufferFrames, MaxBufferBytes)
        /\ \A i \in 1..Len(r.frames) :
             \/ r.frames[i] = f
             \/ \E j \in 1..Len(buffer.frames) : r.frames[i] = buffer.frames[j]
    BY <1>1, <1>3, <1>5, Remembering
  <2>2. After(cs, r.frames)
    BY <2>1, Together
  <2>3. \A i \in 1..Len(r.frames) : r.frames[i].at <= f.at /\ ~Triggered(r.frames[i])
    BY <1>2, <1>3, <2>1 DEF BufferFine
  <2> QED
    BY <2>1, <2>2, <2>3 DEF BufferFine
<1> QED
  BY <1>4, <1>5

\* The empty buffer is a good one.
LEMMA NothingIsFine ==
  ASSUME NEW now, NEW cs
  PROVE  BufferFine(Nothing, now) /\ After(cs, Nothing.frames) /\ Sound(Nothing)
<1>1. Nothing.frames = <<>> /\ Nothing.bytes = 0 /\ Len(<<>>) = 0
      /\ Nothing \in [frames : Seq(Frame), bytes : Int]
  BY DEF Nothing
<1>2. Bytes(<<>>) = 0
  <2>1. <<>> \in Seq(Frame)
    OBVIOUS
  <2> QED
    BY <2>1, BytesNat
<1>3. Sound(Nothing) /\ Fits(Nothing, MaxBufferFrames, MaxBufferBytes)
  BY <1>1, <1>2, RecorderConfigAssumption DEF Sound, Ordered, Fits
<1> QED
  BY <1>1, <1>3 DEF BufferFine, After

\* A good buffer stays good when time goes on.
LEMMA BufferLater ==
  ASSUME NEW buffer, NEW now \in Int, NEW later \in Int, BufferFine(buffer, now), now <= later
  PROVE  BufferFine(buffer, later)
<1>1. buffer.frames \in Seq(Frame)
  BY DEF BufferFine, Sound
<1>2. \A i \in 1..Len(buffer.frames) : buffer.frames[i].at \in Nat
  BY <1>1, FrameType
<1>3. \A i \in 1..Len(buffer.frames) : buffer.frames[i].at <= later
  BY <1>2 DEF BufferFine
<1> QED
  BY <1>3 DEF BufferFine

\* The incident that a trigger opens, when it fits.
LEMMA Beginning ==
  ASSUME NEW buffer, NEW now, BufferFine(buffer, now),
         NEW f \in Frame, Triggered(f), Dated(f),
         NEW footage, Opens(footage, f, buffer),
         Fits(footage, MaxActiveFrames, MaxActiveBytes)
  PROVE  IncidentFine([footage |-> footage, firstTrigger |-> f.at,
                       lastTrigger |-> f.at, lastTriggered |-> TRUE], f)
<1> DEFINE frames == footage.frames
           n == Len(frames)
           incident == [footage |-> footage, firstTrigger |-> f.at,
                        lastTrigger |-> f.at, lastTriggered |-> TRUE]
<1>1. /\ Sound(footage) /\ frames \in Seq(Frame) /\ Ordered(frames)
      /\ frames # <<>> /\ frames[n] = f /\ n \in Nat /\ n \in 1..n /\ 1 \in 1..n
  BY DEF Opens, Sound
<1>2. f.at \in Nat /\ f.at \in Time /\ f # None /\ \A i \in 1..n : frames[i].at \in Nat
  BY <1>1, FrameType
<1>3. PreEvent \in Nat /\ PostEvent \in Nat /\ MaxClip \in Nat
  BY RecorderConfigAssumption
<1>4. footage \in Footage
  <2>1. footage.bytes \in Nat
    BY <1>1, BytesNat DEF Sound
  <2> QED
    BY <1>1, <2>1 DEF Sound, Footage
<1>5. incident \in Incident
  BY <1>2, <1>4 DEF Incident
<1>6. ASSUME NEW i \in 1..n PROVE frames[i].at <= f.at /\ Dated(frames[i]) /\ Covered(frames, i)
  <2>1. frames[i].at <= f.at
    BY <1>1, <1>2 DEF Ordered
  <2>2. Dated(frames[i])
    BY DEF Opens, BufferFine, Dated, Triggered
  <2>3. f.at - PreEvent <= frames[i].at /\ frames[i].at <= f.at + PostEvent
    BY <1>2, <1>3, <2>1 DEF Opens
  <2>4. Covered(frames, i)
    BY <1>1, <2>3 DEF Covered
  <2> QED
    BY <2>1, <2>2, <2>4
<1>7. frames[n].at - frames[1].at <= MaxClip \/ PreEvent > MaxClip
  BY <1>1, <1>2, <1>3 DEF Opens
<1>8. Presentable(frames, f.at)
  BY <1>1, <1>6, <1>7 DEF Presentable
<1> HIDE DEF frames, n
<1>9. /\ incident.footage = footage /\ incident.lastTrigger = f.at
      /\ incident.lastTriggered = TRUE
  OBVIOUS
<1> HIDE DEF incident
<1>10. IncidentFine(incident, f)
  BY <1>1, <1>2, <1>5, <1>6, <1>8, <1>9 DEF IncidentFine, frames, n
<1> QED
  BY <1>10 DEF incident

\* The incident with one more frame.
Grown(incident, f) ==
  [incident EXCEPT !.footage = Extend(@, f), !.lastTriggered = Triggered(f),
                   !.lastTrigger = IF Triggered(f) THEN f.at ELSE @]

\* One more frame makes a clip, and an incident when the limits allow it.
LEMMA Growing ==
  ASSUME NEW incident, NEW p \in Frame, IncidentFine(incident, p),
         NEW f \in Frame, p.at < f.at, Dated(f),
         f.at - incident.footage.frames[1].at <= MaxClip
  PROVE  LET grown == Grown(incident, f)
         IN  /\ Presentable(grown.footage.frames, f.at)
             /\ \A i \in 1..Len(grown.footage.frames) :
                  \/ grown.footage.frames[i] = f
                  \/ \E j \in 1..Len(incident.footage.frames) :
                       grown.footage.frames[i] = incident.footage.frames[j]
             /\ grown.footage.frames[1] = incident.footage.frames[1]
             /\ grown.firstTrigger = incident.firstTrigger
             /\ /\ Len(incident.footage.frames) < MaxActiveFrames
                /\ incident.footage.bytes + f.bytes <= MaxActiveBytes
                /\ Triggered(f) \/ f.at - incident.lastTrigger <= PostEvent
                => IncidentFine(grown, f)
<1> DEFINE old == incident.footage.frames
           n == Len(old)
           grown == Grown(incident, f)
           frames == grown.footage.frames
           last == IF Triggered(f) THEN f.at ELSE incident.lastTrigger
<1>1. /\ incident \in Incident /\ Sound(incident.footage) /\ old \in Seq(Frame) /\ old # <<>>
      /\ n \in Nat /\ n \in 1..n /\ 1 \in 1..n /\ Ordered(old) /\ old[n] = p
      /\ \A i \in 1..n : Dated(old[i]) /\ Covered(old, i) /\ old[i].at <= p.at
  BY DEF IncidentFine, Presentable
<1>2. f.at \in Nat /\ f.at \in Time /\ f # None /\ p.at \in Nat /\ \A i \in 1..n : old[i].at \in Nat
  BY <1>1, FrameType
<1>3. /\ PreEvent \in Nat /\ PostEvent \in Nat /\ MaxClip \in Nat
      /\ MaxActiveFrames \in Nat /\ MaxActiveBytes \in Nat
  BY RecorderConfigAssumption
<1>4. \A i \in 1..n : old[i].at < f.at
  BY <1>1, <1>2
<1>5. /\ grown.footage = Extend(incident.footage, f) /\ grown.lastTrigger = last
      /\ grown.lastTriggered = Triggered(f) /\ grown.firstTrigger = incident.firstTrigger
  BY <1>1 DEF Grown, Incident
<1> HIDE DEF grown
<1>6. /\ Sound(grown.footage) /\ Len(frames) = n + 1
      /\ \A i \in 1..n : frames[i] = old[i]
      /\ frames[n + 1] = f
      /\ grown.footage.bytes = incident.footage.bytes + f.bytes
  BY <1>1, <1>4, <1>5, Extending
<1>7. frames \in Seq(Frame) /\ frames # <<>> /\ Ordered(frames)
  <2>1. frames \in Seq(Frame) /\ Ordered(frames)
    BY <1>6 DEF Sound
  <2> QED
    BY <1>1, <1>6, <2>1
<1>8. ASSUME NEW i \in 1..(n + 1)
      PROVE  frames[i].at <= f.at /\ Dated(frames[i]) /\ (i \in 1..n => Covered(frames, i))
  <2>1. CASE i \in 1..n
    <3>1. frames[i] = old[i] /\ old[i].at <= f.at
      BY <1>2, <1>4, <1>6, <2>1
    <3>2. PICK j \in 1..n :
            /\ Triggered(old[j]) /\ old[j].at - PreEvent <= old[i].at
            /\ old[i].at <= old[j].at + PostEvent
      BY <1>1, <2>1 DEF Covered
    <3>3. j \in 1..Len(frames) /\ frames[j] = old[j]
      BY <1>1, <1>6
    <3>4. Covered(frames, i)
      BY <3>1, <3>2, <3>3 DEF Covered
    <3> QED
      BY <1>1, <2>1, <3>1, <3>4
  <2>2. CASE i = n + 1
    BY <1>1, <1>2, <1>6, <2>2
  <2> QED
    BY <1>1, <2>1, <2>2
<1>9. Presentable(frames, f.at)
  <2>1. frames[Len(frames)].at - frames[1].at <= MaxClip
    BY <1>1, <1>6
  <2>2. (n + 1) - 1 = n
    BY <1>1
  <2> QED
    BY <1>6, <1>7, <1>8, <2>1, <2>2 DEF Presentable
<1>10. ASSUME n < MaxActiveFrames, incident.footage.bytes + f.bytes <= MaxActiveBytes,
              Triggered(f) \/ f.at - incident.lastTrigger <= PostEvent
       PROVE  IncidentFine(grown, f)
  <2>1. incident.lastTrigger \in Time /\ incident.firstTrigger \in Time
        /\ incident.lastTrigger \in Nat
    BY <1>1 DEF Incident, Time
  <2>2. grown \in Incident
    <3>1. grown.footage.bytes \in Nat
      BY <1>6, <1>7, BytesNat DEF Sound
    <3>2. grown.footage \in Footage
      BY <1>6, <3>1 DEF Sound, Footage
    <3>3. last \in Time /\ Triggered(f) \in BOOLEAN
      BY <1>2, <2>1 DEF Triggered
    <3> HIDE DEF last
    <3> QED
      BY <1>1, <1>5, <3>2, <3>3 DEF Incident, Grown, grown
  <2>3. Fits(grown.footage, MaxActiveFrames, MaxActiveBytes)
    BY <1>1, <1>3, <1>6, <1>10 DEF Fits
  <2>4. \E j \in 1..Len(frames) : frames[j].at = grown.lastTrigger /\ Triggered(frames[j])
    <3>1. CASE Triggered(f)
      BY <1>1, <1>5, <1>6, <3>1
    <3>2. CASE ~Triggered(f)
      <4>1. PICK j \in 1..n : old[j].at = incident.lastTrigger /\ Triggered(old[j])
        BY DEF IncidentFine
      <4> QED
        BY <1>1, <1>5, <1>6, <3>2, <4>1
    <3> QED
      BY <3>1, <3>2
  <2>5. Covered(frames, n + 1)
    <3>1. PICK j \in 1..Len(frames) : frames[j].at = last /\ Triggered(frames[j])
      BY <1>5, <2>4
    <3>2. last \in Nat /\ f.at <= last + PostEvent
      BY <1>2, <1>3, <1>10, <2>1
    <3>3. frames[j].at <= f.at
      BY <1>6, <1>8
    <3>4. last - PreEvent <= f.at
      BY <1>2, <1>3, <3>1, <3>2, <3>3
    <3> QED
      BY <1>6, <3>1, <3>2, <3>4 DEF Covered
  <2>6. \A i \in 1..Len(frames) : Covered(frames, i)
    <3> TAKE i \in 1..Len(frames)
    <3>1. i \in 1..n \/ i = n + 1
      BY <1>1, <1>6
    <3> QED
      BY <1>6, <1>8, <2>5, <3>1
  <2> QED
    BY <1>2, <1>5, <1>6, <1>9, <2>2, <2>3, <2>4, <2>6 DEF IncidentFine
<1>11. \A i \in 1..Len(frames) : frames[i] = f \/ \E j \in 1..n : frames[i] = old[j]
  <2> TAKE i \in 1..Len(frames)
  <2>1. i \in 1..n \/ i = n + 1
    BY <1>1, <1>6
  <2> QED
    BY <1>6, <2>1
<1>12. frames[1] = old[1]
  BY <1>1, <1>6
<1> QED
  BY <1>5, <1>9, <1>10, <1>11, <1>12 DEF grown

-----------------------------------------------------------------------------
(* One step of the recorder *)

\* What is known of the observation that process accepts.
Arrives(f) ==
  /\ f \in Frame /\ Dated(f) /\ f # None
  /\ Clock(previous) \in Int /\ Clock(previous) < f.at
  /\ ~suppressed /\ ~closed => Fresh(clips, <<f>>)
  /\ (previous # None /\ Triggered(previous)) \/ f.visit \in {None, f.at}

\* The observation that follows is later, and its visit is in no clip unless
\* recording is suppressed.
LEMMA Arrival ==
  ASSUME IInv, NEW at \in Time, NEW bytes \in FrameSizes, NEW triggered \in BOOLEAN,
         Follows(at)
  PROVE  Arrives([at |-> at, bytes |-> bytes, visit |-> VisitOf(at, triggered)])
<1> DEFINE f == [at |-> at, bytes |-> bytes, visit |-> VisitOf(at, triggered)]
<1>1. at \in Nat /\ None \notin Nat
  BY SourceAssumption DEF Time
<1>2. Clock(previous) \in Int /\ Clock(previous) < at
  <2>1. CASE previous = None
    BY <1>1, <2>1 DEF Follows, Clock
  <2>2. CASE previous # None
    <3>1. previous \in Frame /\ previous.at \in Nat
      BY <2>2, FrameType DEF IInv
    <3>2. at - previous.at \in Nat \ {0}
      BY <2>2, SourceAssumption DEF Follows
    <3> QED
      BY <1>1, <2>2, <3>1, <3>2 DEF Clock
  <2> QED
    BY <2>1, <2>2
<1>3. \/ f.visit \in {None, f.at}
      \/ previous # None /\ Triggered(previous) /\ f.visit = previous.visit
  BY DEF VisitOf
<1>4. f \in Frame /\ Dated(f) /\ f # None
  <2>1. CASE f.visit \in {None, f.at}
    <3>1. f \in Frame
      BY <2>1 DEF Frame
    <3> QED
      BY <1>1, <2>1, <3>1, FrameType DEF Dated
  <2>2. CASE previous # None /\ Triggered(previous) /\ f.visit = previous.visit
    <3>1. /\ previous \in Frame /\ previous.at \in Nat /\ Dated(previous)
          /\ previous.visit \in Time
      BY <2>2, FrameType DEF IInv, Triggered
    <3>2. previous.visit <= at
      BY <1>1, <1>2, <2>2, <3>1 DEF Dated, Clock, Triggered, Time
    <3>3. f \in Frame
      BY <2>2, <3>1 DEF Frame
    <3> QED
      BY <2>2, <3>2, <3>3, FrameType DEF Dated
  <2> QED
    BY <1>3, <2>1, <2>2
<1>5. ASSUME ~suppressed, ~closed PROVE Fresh(clips, <<f>>)
  <2>1. CASE f.visit \in {None, f.at}
    <3>1. ClipsFine(clips, Clock(previous))
      BY DEF IInv
    <3> QED
      BY <1>2, <1>4, <2>1, <3>1, Newer
  <2>2. CASE previous # None /\ Triggered(previous) /\ f.visit = previous.visit
    <3>1. Fresh(clips, <<previous>>)
      BY <1>5, <2>2 DEF IInv
    <3> HIDE DEF f
    <3>2. /\ Len(<<f>>) = 1 /\ <<f>>[1] = f /\ 1 \in 1..1
          /\ Len(<<previous>>) = 1 /\ <<previous>>[1] = previous
      OBVIOUS
    <3> QED
      BY <2>2, <3>1, <3>2 DEF Fresh
  <2> QED
    BY <1>3, <2>1, <2>2
<1>6. f.at = at
  OBVIOUS
<1> HIDE DEF f
<1>7. Arrives(f)
  BY <1>2, <1>3, <1>4, <1>5, <1>6 DEF Arrives
<1> QED
  BY <1>7 DEF f

\* The parts of the invariant after an accepted observation.
LEMMA NextState ==
  ASSUME NEW f, Arrives(f), previous' = f,
         suppressed' \in BOOLEAN, closed' \in BOOLEAN,
         BufferFine(prebuffer', f.at), After(clips', prebuffer'.frames),
         active' # None =>
           /\ IncidentFine(active', f) /\ prebuffer' = Nothing /\ ~suppressed' /\ ~closed'
           /\ After(clips', active'.footage.frames) /\ Fresh(clips', active'.footage.frames),
         ClipsFine(clips', f.at),
         ~suppressed' /\ ~closed' => Fresh(clips', <<f>>)
  PROVE  IInv'
BY DEF IInv, Arrives, Clock

\* What IInv says of the state an observation finds.
LEMMA Found ==
  ASSUME IInv, NEW f, Arrives(f)
  PROVE  /\ ClipsFine(clips, f.at) /\ After(clips, <<f>>)
         /\ BufferFine(prebuffer, f.at) /\ Sound(prebuffer)
         /\ \A i \in 1..Len(prebuffer.frames) : prebuffer.frames[i].at < f.at
<1>1. /\ ClipsFine(clips, Clock(previous)) /\ BufferFine(prebuffer, Clock(previous))
      /\ f \in Frame /\ f.at \in Nat /\ Clock(previous) \in Int /\ Clock(previous) < f.at
  BY FrameType DEF IInv, Arrives
<1>2. ClipsFine(clips, f.at) /\ BufferFine(prebuffer, f.at) /\ After(clips, <<f>>)
  BY <1>1, ClipsLater, BufferLater, Newer
<1>3. Sound(prebuffer) /\ prebuffer.frames \in Seq(Frame)
  BY <1>1 DEF BufferFine, Sound
<1>4. \A i \in 1..Len(prebuffer.frames) : prebuffer.frames[i].at < f.at
  BY <1>1, <1>3, FrameType DEF BufferFine
<1> QED
  BY <1>2, <1>3, <1>4

\* One lemma per branch of process.
LEMMA StaySuppressedStep ==
  ASSUME IInv, NEW f, Arrives(f), StaySuppressed(f)
  PROVE  IInv'
<1>1. /\ previous' = f /\ suppressed /\ UNCHANGED <<prebuffer, active, suppressed, closed, clips>>
      /\ active = None
  BY DEF StaySuppressed, Accept, memory, IInv
<1>2. ClipsFine(clips, f.at) /\ BufferFine(prebuffer, f.at)
  BY Found
<1> QED
  BY <1>1, <1>2, NextState DEF IInv

\* A clear frame that the buffer may take.
LEMMA Retained ==
  ASSUME IInv, NEW f, Arrives(f), ~Triggered(f)
  PROVE  BufferFine(Retain(f), f.at) /\ After(clips, Retain(f).frames)
<1>1. Retain(f) = prebuffer \/ Retain(f) = Remember(prebuffer, f)
  BY DEF Retain
<1>2. After(clips, <<f>>)
  BY Found
<1> HIDE DEF Retain
<1> QED
  BY <1>1, <1>2, Retaining DEF IInv, Arrives

LEMMA ClearSuppressionStep ==
  ASSUME IInv, NEW f, Arrives(f), ClearSuppression(f)
  PROVE  IInv'
<1>1. /\ previous' = f /\ suppressed /\ UNCHANGED <<active, closed, clips>>
      /\ active = None /\ ~Triggered(f) /\ suppressed' = FALSE /\ prebuffer' = Retain(f)
  BY DEF ClearSuppression, Accept, IInv
<1>2. ClipsFine(clips, f.at) /\ BufferFine(prebuffer', f.at) /\ After(clips, prebuffer'.frames)
  BY <1>1, Found, Retained
<1>3. Fresh(clips, <<f>>)
  BY <1>1 DEF Fresh, Triggered
<1> QED
  BY <1>1, <1>2, <1>3, NextState DEF IInv

LEMMA WatchStep ==
  ASSUME IInv, NEW f, Arrives(f), Watch(f)
  PROVE  IInv'
<1>1. /\ previous' = f /\ ~suppressed /\ ~closed /\ UNCHANGED <<active, suppressed, closed, clips>>
      /\ active = None /\ ~Triggered(f) /\ prebuffer' = Retain(f)
  BY DEF Watch, Idle, Accept
<1>2. ClipsFine(clips, f.at) /\ BufferFine(prebuffer', f.at) /\ After(clips, prebuffer'.frames)
  BY <1>1, Found, Retained
<1>3. Fresh(clips, <<f>>)
  BY <1>1 DEF Arrives
<1> QED
  BY <1>1, <1>2, <1>3, NextState DEF IInv

\* What Start makes of a trigger, before and after a clip was published.
LEMMA Started ==
  ASSUME NEW f, f \in Frame, Dated(f), Triggered(f),
         suppressed \in BOOLEAN, ~suppressed, ~closed, UNCHANGED closed,
         NEW now \in Int, BufferFine(prebuffer, now), now < f.at,
         NEW offered, offered \in {prebuffer, Remember(prebuffer, f)},
         Start(offered, f), previous' = f,
         NEW cs, cs = clips', After(cs, prebuffer.frames), After(cs, <<f>>), Fresh(cs, <<f>>)
  PROVE  /\ prebuffer' = Nothing /\ suppressed' \in BOOLEAN
         /\ active' # None =>
              /\ IncidentFine(active', f) /\ ~suppressed' /\ ~closed'
              /\ After(clips', active'.footage.frames)
              /\ Fresh(clips', active'.footage.frames)
<1> DEFINE footage == WithinIncident(History(offered, f))
<1>1. Sound(prebuffer) /\ prebuffer.frames \in Seq(Frame)
  BY DEF BufferFine, Sound
<1>2. \A i \in 1..Len(prebuffer.frames) : prebuffer.frames[i].at < f.at
  BY <1>1, FrameType DEF BufferFine
<1>3. Opens(footage, f, prebuffer)
  BY <1>1, <1>2, Opening
<1>4. After(cs, footage.frames) /\ Fresh(cs, footage.frames)
  <2>1. Fresh(cs, prebuffer.frames)
    BY DEF BufferFine, Triggered, Fresh
  <2>2. \A i \in 1..Len(footage.frames) :
          \/ footage.frames[i] = f
          \/ \E j \in 1..Len(prebuffer.frames) : footage.frames[i] = prebuffer.frames[j]
    BY <1>3 DEF Opens
  <2> HIDE DEF footage
  <2> QED
    BY <2>1, <2>2, Together
<1>5. prebuffer' = Nothing
  BY DEF Start
<1>6. CASE Fits(footage, MaxActiveFrames, MaxActiveBytes)
  <2>1. /\ active' = [footage |-> footage, firstTrigger |-> f.at,
                      lastTrigger |-> f.at, lastTriggered |-> TRUE]
        /\ suppressed' = suppressed
    BY <1>6 DEF Start
  <2> HIDE DEF footage
  <2>2. IncidentFine(active', f)
    BY <1>3, <1>6, <2>1, Beginning
  <2>3. active'.footage = footage
    BY <2>1
  <2> QED
    BY <1>4, <1>5, <2>1, <2>2, <2>3
<1>7. CASE ~Fits(footage, MaxActiveFrames, MaxActiveBytes)
  BY <1>5, <1>7 DEF Start
<1> QED
  BY <1>6, <1>7

LEMMA TriggerStep ==
  ASSUME IInv, NEW f, Arrives(f), Trigger(f)
  PROVE  IInv'
<1>1. /\ previous' = f /\ ~suppressed /\ ~closed /\ UNCHANGED <<closed, clips>>
      /\ Triggered(f) /\ Start(Offered(f), f)
  BY DEF Trigger, Idle, Accept
<1>2. ClipsFine(clips, f.at) /\ After(clips, <<f>>) /\ Fresh(clips, <<f>>)
  BY <1>1, Found DEF Arrives
<1>3. Offered(f) \in {prebuffer, Remember(prebuffer, f)}
  BY DEF Offered
<1>4. /\ BufferFine(prebuffer, Clock(previous)) /\ After(clips, prebuffer.frames)
      /\ Clock(previous) \in Int /\ Clock(previous) < f.at /\ f \in Frame /\ Dated(f)
      /\ suppressed \in BOOLEAN
  BY DEF IInv, Arrives
<1>5. /\ prebuffer' = Nothing /\ suppressed' \in BOOLEAN
      /\ active' # None =>
           /\ IncidentFine(active', f) /\ ~suppressed' /\ ~closed'
           /\ After(clips', active'.footage.frames)
           /\ Fresh(clips', active'.footage.frames)
  <2> HIDE DEF Offered
  <2> QED
    BY <1>1, <1>2, <1>3, <1>4, Started
<1>6. BufferFine(prebuffer', f.at) /\ After(clips', prebuffer'.frames)
  BY <1>5, NothingIsFine
<1> QED
  BY <1>1, <1>2, <1>5, <1>6, NextState DEF IInv

\* What IInv says of the incident in progress that an observation finds.
LEMMA InProgress ==
  ASSUME IInv, active # None
  PROVE  /\ previous \in Frame /\ previous # None /\ previous.at \in Nat
         /\ Clock(previous) = previous.at
         /\ IncidentFine(active, previous) /\ active \in Incident
         /\ \A later \in Int :
              Clock(previous) <= later => Presentable(active.footage.frames, later)
         /\ active.footage.frames \in Seq(Frame)
         /\ Len(active.footage.frames) \in 1..Len(active.footage.frames)
         /\ After(clips, active.footage.frames) /\ Fresh(clips, active.footage.frames)
         /\ prebuffer = Nothing /\ suppressed = FALSE /\ ~closed
<1>1. /\ IncidentFine(active, previous) /\ prebuffer = Nothing /\ suppressed = FALSE /\ ~closed
      /\ After(clips, active.footage.frames) /\ Fresh(clips, active.footage.frames)
      /\ previous \in Frame
  BY DEF IInv, IncidentFine
<1>2. previous # None /\ previous.at \in Nat /\ Clock(previous) = previous.at
  BY <1>1, FrameType DEF IncidentFine, Clock
<1>3. /\ Presentable(active.footage.frames, previous.at) /\ active \in Incident
      /\ active.footage.frames \in Seq(Frame) /\ active.footage.frames # <<>>
  BY <1>1 DEF IncidentFine, Presentable
<1>4. \A i \in 1..Len(active.footage.frames) : active.footage.frames[i].at \in Nat
  BY <1>3, FrameType
<1>5. ASSUME NEW later \in Int, Clock(previous) <= later
      PROVE  Presentable(active.footage.frames, later)
  <2>1. \A i \in 1..Len(active.footage.frames) : active.footage.frames[i].at <= later
    BY <1>2, <1>3, <1>4, <1>5 DEF Presentable
  <2> QED
    BY <1>3, <2>1 DEF Presentable
<1>6. Len(active.footage.frames) \in 1..Len(active.footage.frames)
  BY <1>3
<1> QED
  BY <1>1, <1>2, <1>3, <1>5, <1>6

\* Publishing the incident in progress as it stands.
LEMMA ActivePublished ==
  ASSUME IInv, active # None, NEW t \in Terminations, NEW raised \in BOOLEAN,
         clips' = Append(clips, ClipOf(active, t, raised)),
         NEW later \in Int, Clock(previous) <= later
  PROVE  ClipsFine(clips', later)
<1>1. /\ Presentable(active.footage.frames, later) /\ active \in Incident
      /\ active.footage.frames \in Seq(Frame)
      /\ After(clips, active.footage.frames) /\ Fresh(clips, active.footage.frames)
  BY InProgress
<1>2. ClipsFine(clips, Clock(previous)) /\ Clock(previous) \in Int
  <2>1. ClipsFine(clips, Clock(previous)) /\ previous \in Frame /\ previous # None
    BY InProgress DEF IInv
  <2> QED
    BY <2>1, FrameType DEF Clock
<1>3. /\ ClipOf(active, t, raised) \in Clip
      /\ ClipOf(active, t, raised).frames = active.footage.frames
  BY <1>1 DEF ClipOf, Clip, Incident
<1> HIDE DEF ClipOf
<1> QED
  BY <1>1, <1>2, <1>3, Publishing

\* The frame with which the incident in progress closes.
LEMMA LastOne ==
  ASSUME IInv, active # None, NEW f, Arrives(f), ~Outlasts(f),
         NEW t \in Terminations, NEW raised \in BOOLEAN,
         clips' = Append(clips, ClipOf(Appended(f), t, raised))
  PROVE  ClipsFine(clips', f.at)
<1> DEFINE grown == Grown(active, f)
<1>1. /\ previous \in Frame /\ Clock(previous) = previous.at /\ IncidentFine(active, previous)
      /\ active \in Incident /\ f \in Frame /\ f.at \in Nat /\ Dated(f) /\ previous.at < f.at
      /\ previous.at \in Nat
      /\ After(clips, active.footage.frames) /\ Fresh(clips, active.footage.frames)
      /\ After(clips, <<f>>) /\ Fresh(clips, <<f>>)
  <2>1. f \in Frame /\ f.at \in Nat /\ Dated(f) /\ Clock(previous) \in Int /\ Clock(previous) < f.at
    BY FrameType DEF Arrives
  <2>2. ~suppressed /\ ~closed
    BY <2>1, InProgress
  <2> QED
    BY <2>1, <2>2, InProgress, Found DEF Arrives
<1>2. f.at - active.footage.frames[1].at <= MaxClip
  <2>1. active.footage.frames[1].at \in Nat /\ MaxClip \in Nat
    <3>1. active.footage.frames \in Seq(Frame) /\ active.footage.frames # <<>>
      BY <1>1 DEF IncidentFine, Presentable
    <3> QED
      BY <3>1, FrameType, RecorderConfigAssumption
  <2> QED
    BY <1>1, <2>1 DEF Outlasts, First
<1>3. /\ Presentable(grown.footage.frames, f.at) /\ grown.firstTrigger = active.firstTrigger
      /\ \A i \in 1..Len(grown.footage.frames) :
           \/ grown.footage.frames[i] = f
           \/ \E j \in 1..Len(active.footage.frames) :
                grown.footage.frames[i] = active.footage.frames[j]
  BY <1>1, <1>2, Growing
<1>4. Appended(f) = grown
  BY DEF Appended, Grown
<1> HIDE DEF grown
<1>5. After(clips, grown.footage.frames) /\ Fresh(clips, grown.footage.frames)
  BY <1>1, <1>3, Together
<1>6. /\ ClipOf(grown, t, raised) \in Clip
      /\ ClipOf(grown, t, raised).frames = grown.footage.frames
  BY <1>1, <1>3 DEF ClipOf, Clip, Incident, Presentable
<1>7. clips' = Append(clips, ClipOf(grown, t, raised))
  BY <1>4
<1>8. ClipsFine(clips, f.at) /\ f.at \in Int /\ f.at <= f.at
  BY <1>1, Found
<1> HIDE DEF ClipOf
<1> QED
  BY <1>1, <1>3, <1>5, <1>6, <1>7, <1>8, Publishing

\* A publication that raises forgets the incident, and the clip may stay.
LEMMA FailedStep ==
  ASSUME IInv, NEW f, Arrives(f), Recording(f), NEW t \in Terminations,
         \/ PublishFails(active, t)
         \/ PublishFails(Appended(f), t) /\ ~Outlasts(f)
  PROVE  IInv'
<1>1. /\ previous' = f /\ active # None /\ ~suppressed /\ ~closed /\ active' = None
      /\ UNCHANGED <<prebuffer, suppressed>> /\ closed' \in BOOLEAN
  BY DEF Recording, Accept, PublishFails, IInv
<1>2. /\ ClipsFine(clips, f.at) /\ Fresh(clips, <<f>>) /\ clips \in Seq(Clip)
      /\ f \in Frame /\ f.at \in Int /\ Clock(previous) <= f.at
  BY <1>1, Found, FrameType DEF Arrives, ClipsFine
<1>3. prebuffer = Nothing
  BY <1>1 DEF IInv
<1>4. BufferFine(prebuffer', f.at) /\ After(clips', prebuffer'.frames)
  BY <1>1, <1>2, <1>3, NothingIsFine
<1>5. CASE UNCHANGED clips
  BY <1>1, <1>2, <1>4, <1>5, NextState DEF IInv
<1>6. CASE ~UNCHANGED clips
  <2>1. PICK incident :
          /\ PublishFails(incident, t)
          /\ incident = active \/ (incident = Appended(f) /\ ~Outlasts(f))
    OBVIOUS
  <2> DEFINE clip == ClipOf(incident, t, TRUE)
  <2>2. clips' = Append(clips, clip) /\ clip.raised
    BY <1>6, <2>1 DEF PublishFails, Raised, ClipOf
  <2>3. ClipsFine(clips', f.at)
    <3>1. CASE incident = active
      BY <1>1, <1>2, <2>2, <3>1, ActivePublished
    <3>2. CASE incident = Appended(f) /\ ~Outlasts(f)
      BY <1>1, <2>2, <3>2, LastOne
    <3> QED
      BY <2>1, <3>1, <3>2
  <2>4. ASSUME ~closed' PROVE Fresh(clips', <<f>>)
    <3>1. MayBeFollowed(clip)
      BY <2>1, <2>2, <2>4 DEF PublishFails, MayBeFollowed
    <3> HIDE DEF clip
    <3>2. \A c \in 1..Len(clips') :
            clips'[c] = clip \/ (c \in 1..Len(clips) /\ clips'[c] = clips[c])
      BY <1>2, <2>2
    <3> QED
      BY <1>2, <3>1, <3>2 DEF Fresh
  <2> QED
    BY <1>1, <1>4, <2>3, <2>4, NextState DEF IInv
<1> QED
  BY <1>5, <1>6

\* An incident that ends at a limit with the frame before this one.
LEMMA EndAtLimitStep ==
  ASSUME IInv, NEW f, Arrives(f), Recording(f), NEW t \in Terminations, EndAtLimit(f, t)
  PROVE  IInv'
<1>1. previous' = f /\ active # None /\ ~suppressed /\ ~closed
  BY DEF Recording, Accept
<1>2. f \in Frame /\ f.at \in Nat /\ Clock(previous) \in Int /\ Clock(previous) < f.at
  BY FrameType DEF Arrives
<1>3. CASE PublishFails(active, t)
  BY <1>3, FailedStep
<1>4. CASE Published(active, t) /\ SuppressOrRetain(f) /\ UNCHANGED closed
  <2>1. /\ active' = None /\ suppressed' = Triggered(f) /\ closed' = closed
        /\ prebuffer' = IF Triggered(f) THEN prebuffer ELSE Retain(f)
    BY <1>4 DEF SuppressOrRetain
  <2>2. suppressed' \in BOOLEAN /\ closed' \in BOOLEAN
    BY <2>1 DEF Triggered, IInv
  <2>3. ClipsFine(clips', f.at) /\ ClipsFine(clips', Clock(previous))
    <3>1. clips' = Append(clips, ClipOf(active, t, FALSE)) /\ FALSE \in BOOLEAN
      BY <1>4 DEF Published
    <3>2. f.at \in Int /\ Clock(previous) <= f.at /\ Clock(previous) <= Clock(previous)
      BY <1>2
    <3> QED
      BY <1>1, <1>2, <3>1, <3>2, ActivePublished
  <2>4. After(clips', <<f>>)
    BY <1>2, <2>3, Newer
  <2>5. prebuffer = Nothing /\ BufferFine(Nothing, Clock(previous)) /\ After(clips', Nothing.frames)
        /\ BufferFine(Nothing, f.at)
    BY <1>1, <1>2, InProgress, NothingIsFine
  <2>6. BufferFine(prebuffer', f.at) /\ After(clips', prebuffer'.frames)
    <3>1. CASE Triggered(f)
      BY <2>1, <2>5, <3>1
    <3>2. CASE ~Triggered(f)
      <4>1. prebuffer' = Nothing \/ prebuffer' = Remember(Nothing, f)
        BY <2>1, <2>5, <3>2 DEF Retain
      <4> QED
        BY <1>2, <2>4, <2>5, <3>2, <4>1, Retaining
    <3> QED
      BY <3>1, <3>2
  <2>7. ~suppressed' => Fresh(clips', <<f>>)
    <3>1. ~suppressed' => f.visit = None /\ Len(<<f>>) = 1 /\ <<f>>[1] = f
      BY <2>1 DEF Triggered
    <3> QED
      BY <3>1 DEF Fresh
  <2> QED
    BY <1>1, <2>1, <2>2, <2>3, <2>6, <2>7, NextState
<1> QED
  BY <1>3, <1>4 DEF EndAtLimit

\* A late trigger ends one incident and opens the next.
LEMMA RestartStep ==
  ASSUME IInv, NEW f, Arrives(f), Restart(f)
  PROVE  IInv'
<1>1. previous' = f /\ active # None /\ ~suppressed /\ ~closed /\ Recording(f) /\ StartsLate(f)
  BY DEF Restart, Recording, Accept
<1>2. f \in Frame /\ f.at \in Nat /\ Clock(previous) \in Int /\ Clock(previous) < f.at /\ Dated(f)
  BY FrameType DEF Arrives
<1>3. CASE PublishFails(active, "post_event_elapsed")
  BY <1>1, <1>3, FailedStep DEF Terminations
<1>4. CASE /\ Published(active, "post_event_elapsed")
           /\ Start(Remember(prebuffer, f), f)
           /\ UNCHANGED closed
  <2>1. ClipsFine(clips', f.at) /\ ClipsFine(clips', Clock(previous))
    <3>1. "post_event_elapsed" \in Terminations
      BY DEF Terminations
    <3>2. Clock(previous) <= f.at /\ Clock(previous) <= Clock(previous) /\ f.at \in Int
      BY <1>2
    <3> QED
      BY <1>1, <1>2, <1>4, <3>1, <3>2, ActivePublished DEF Published
  <2>2. prebuffer = Nothing /\ BufferFine(prebuffer, Clock(previous))
        /\ After(clips', prebuffer.frames) /\ suppressed \in BOOLEAN
    BY <1>1, <1>2, InProgress, NothingIsFine
  <2>3. Triggered(f) /\ f.visit \in {None, f.at}
    <3>1. Triggered(f) /\ ~Triggered(previous)
      BY <1>1, InProgress DEF StartsLate, IncidentFine
    <3> QED
      BY <3>1 DEF Arrives
  <2>4. After(clips', <<f>>) /\ Fresh(clips', <<f>>)
    BY <1>2, <2>1, <2>3, Newer
  <2>5. /\ prebuffer' = Nothing /\ suppressed' \in BOOLEAN
        /\ active' # None =>
             /\ IncidentFine(active', f) /\ ~suppressed' /\ ~closed'
             /\ After(clips', active'.footage.frames)
             /\ Fresh(clips', active'.footage.frames)
    BY <1>1, <1>2, <1>4, <2>2, <2>3, <2>4, Started
  <2>6. BufferFine(prebuffer', f.at) /\ After(clips', prebuffer'.frames)
    BY <2>5, NothingIsFine
  <2> QED
    BY <1>1, <1>4, <2>1, <2>4, <2>5, <2>6, NextState DEF IInv
<1> QED
  BY <1>3, <1>4 DEF Restart

LEMMA ContinueStep ==
  ASSUME IInv, NEW f, Arrives(f), Continue(f)
  PROVE  IInv'
<1>1. /\ previous' = f /\ active # None /\ ~suppressed /\ ~closed
      /\ UNCHANGED <<prebuffer, suppressed, closed, clips>> /\ active' = Appended(f)
      /\ ~Outlasts(f) /\ ~StartsLate(f) /\ ~FramesFull /\ ~BytesFull(f) /\ ~PostEventElapsed(f)
  BY DEF Continue, Appending, Appendable, Recording, Accept
<1>2. f \in Frame /\ f.at \in Nat /\ Clock(previous) \in Int /\ Clock(previous) < f.at /\ Dated(f)
      /\ f.bytes \in Nat
  BY FrameType DEF Arrives
<1>3. /\ previous \in Frame /\ previous.at < f.at /\ IncidentFine(active, previous)
      /\ active \in Incident /\ active.footage.frames \in Seq(Frame)
      /\ Len(active.footage.frames) \in 1..Len(active.footage.frames)
      /\ After(clips, active.footage.frames) /\ Fresh(clips, active.footage.frames)
      /\ prebuffer = Nothing
  BY <1>1, <1>2, InProgress
<1>4. /\ active.footage.frames[1].at \in Nat /\ active.lastTrigger \in Nat
      /\ active.footage.bytes \in Nat /\ Len(active.footage.frames) \in Nat
  <2>1. active.footage.frames[1] \in Frame
    BY <1>3
  <2>2. active.lastTrigger \in Time /\ active.footage \in Footage
    BY <1>3 DEF Incident
  <2> QED
    BY <2>1, <2>2, FrameType DEF Time, Footage
<1>5. MaxClip \in Nat /\ PostEvent \in Nat /\ MaxActiveFrames \in Nat /\ MaxActiveBytes \in Nat
  BY RecorderConfigAssumption
<1>6. /\ f.at - active.footage.frames[1].at <= MaxClip
      /\ Len(active.footage.frames) < MaxActiveFrames
      /\ active.footage.bytes + f.bytes <= MaxActiveBytes
      /\ Triggered(f) \/ f.at - active.lastTrigger <= PostEvent
  <2>1. f.at - active.footage.frames[1].at <= MaxClip
    BY <1>1, <1>2, <1>4, <1>5 DEF Outlasts, First
  <2>2. Len(active.footage.frames) < MaxActiveFrames
    BY <1>1, <1>4, <1>5 DEF FramesFull
  <2>3. active.footage.bytes + f.bytes <= MaxActiveBytes
    BY <1>1, <1>2, <1>4, <1>5 DEF BytesFull
  <2>4. Triggered(f) \/ ~(f.at - active.lastTrigger >= PostEvent)
    BY <1>1 DEF PostEventElapsed
  <2>5. Triggered(f) \/ f.at - active.lastTrigger <= PostEvent
    BY <1>2, <1>4, <1>5, <2>4
  <2> QED
    BY <2>1, <2>2, <2>3, <2>5
<1>7. active' = Grown(active, f)
  BY <1>1 DEF Appended, Grown
<1>8. /\ IncidentFine(active', f)
      /\ \A i \in 1..Len(active'.footage.frames) :
           \/ active'.footage.frames[i] = f
           \/ \E j \in 1..Len(active.footage.frames) :
                active'.footage.frames[i] = active.footage.frames[j]
  BY <1>2, <1>3, <1>6, <1>7, Growing
<1>9. /\ ClipsFine(clips, f.at) /\ BufferFine(prebuffer, f.at)
      /\ After(clips, prebuffer.frames) /\ After(clips, <<f>>) /\ Fresh(clips, <<f>>)
  BY <1>1, Found DEF IInv, Arrives
<1>10. After(clips, active'.footage.frames) /\ Fresh(clips, active'.footage.frames)
  BY <1>3, <1>8, <1>9, Together
<1> QED
  BY <1>1, <1>3, <1>8, <1>9, <1>10, NextState DEF IInv

\* An incident that ends with this frame.
LEMMA EndWithStep ==
  ASSUME IInv, NEW f, Arrives(f), EndAtMaxClip(f) \/ EndAfterPostEvent(f)
  PROVE  IInv'
<1>1. /\ previous' = f /\ active # None /\ ~suppressed /\ ~closed /\ Recording(f)
      /\ ~Outlasts(f)
  BY DEF EndAtMaxClip, EndAfterPostEvent, Appending, Appendable, Recording, Accept
<1>2. f \in Frame /\ f.at \in Nat /\ Clock(previous) \in Int /\ Clock(previous) < f.at
  BY FrameType DEF Arrives
<1> DEFINE Fails == \E t \in Terminations : PublishFails(Appended(f), t)
<1>3. CASE Fails
  BY <1>1, <1>3, FailedStep
<1>4. CASE ~Fails
  <2>1. PICK t \in Terminations :
          /\ Published(Appended(f), t) /\ active' = None
          /\ suppressed' = Triggered(f) /\ UNCHANGED <<prebuffer, closed>>
    <3>1. EndAfterPostEvent(f) => ~Triggered(f) /\ suppressed = FALSE
      BY DEF EndAfterPostEvent, PostEventElapsed, Appending, Appendable, Recording, IInv
    <3>2. "max_clip_duration" \in Terminations /\ "post_event_elapsed" \in Terminations
      BY DEF Terminations
    <3>3. CASE EndAtMaxClip(f)
      BY <1>4, <3>2, <3>3 DEF EndAtMaxClip
    <3>4. CASE EndAfterPostEvent(f)
      <4>1. suppressed' = Triggered(f)
        <5>1. suppressed' = suppressed
          BY <1>4, <3>2, <3>4 DEF EndAfterPostEvent
        <5> QED
          BY <3>1, <3>4, <5>1 DEF Triggered
      <4> QED
        BY <1>4, <3>2, <3>4, <4>1 DEF EndAfterPostEvent
    <3> QED
      BY <3>3, <3>4
  <2>2. ClipsFine(clips', f.at)
    BY <1>1, <2>1, LastOne DEF Published
  <2>3. prebuffer' = Nothing /\ BufferFine(prebuffer', f.at) /\ After(clips', prebuffer'.frames)
    BY <1>1, <1>2, <2>1, InProgress, NothingIsFine
  <2>4. suppressed' \in BOOLEAN /\ closed' \in BOOLEAN /\ (~suppressed' => Fresh(clips', <<f>>))
    <3>1. ~suppressed' => f.visit = None /\ Len(<<f>>) = 1 /\ <<f>>[1] = f
      BY <2>1 DEF Triggered
    <3>2. suppressed' \in BOOLEAN /\ closed' \in BOOLEAN
      BY <2>1 DEF Triggered, IInv
    <3> QED
      BY <3>1, <3>2 DEF Fresh
  <2> QED
    BY <1>1, <2>1, <2>2, <2>3, <2>4, NextState
<1> QED
  BY <1>3, <1>4

\* Every branch keeps the invariant.
LEMMA ProcessStep ==
  ASSUME IInv, Process
  PROVE  IInv'
<1>1. PICK at \in Time, bytes \in FrameSizes, triggered \in BOOLEAN :
        LET f == [at |-> at, bytes |-> bytes, visit |-> VisitOf(at, triggered)]
        IN  /\ Follows(at)
            /\ \/ StaySuppressed(f) \/ ClearSuppression(f) \/ Watch(f) \/ Trigger(f)
               \/ EndOutlasted(f) \/ Restart(f) \/ EndFramesFull(f) \/ EndBytesFull(f)
               \/ Continue(f) \/ EndAtMaxClip(f) \/ EndAfterPostEvent(f)
  BY DEF Process
<1> DEFINE f == [at |-> at, bytes |-> bytes, visit |-> VisitOf(at, triggered)]
<1>2. Arrives(f)
  BY <1>1, Arrival
<1> HIDE DEF f
<1>3. CASE StaySuppressed(f)
  BY <1>2, <1>3, StaySuppressedStep
<1>4. CASE ClearSuppression(f)
  BY <1>2, <1>4, ClearSuppressionStep
<1>5. CASE Watch(f)
  BY <1>2, <1>5, WatchStep
<1>6. CASE Trigger(f)
  BY <1>2, <1>6, TriggerStep
<1>7. CASE EndOutlasted(f)
  <2>1. "max_clip_duration" \in Terminations
    BY DEF Terminations
  <2> QED
    BY <1>2, <1>7, <2>1, EndAtLimitStep DEF EndOutlasted
<1>8. CASE Restart(f)
  BY <1>2, <1>8, RestartStep
<1>9. CASE EndFramesFull(f)
  <2>1. "max_active_frames" \in Terminations
    BY DEF Terminations
  <2> QED
    BY <1>2, <1>9, <2>1, EndAtLimitStep DEF EndFramesFull, Appendable
<1>10. CASE EndBytesFull(f)
  <2>1. "max_active_bytes" \in Terminations
    BY DEF Terminations
  <2> QED
    BY <1>2, <1>10, <2>1, EndAtLimitStep DEF EndBytesFull, Appendable
<1>11. CASE Continue(f)
  BY <1>2, <1>11, ContinueStep
<1>12. CASE EndAtMaxClip(f) \/ EndAfterPostEvent(f)
  BY <1>2, <1>12, EndWithStep
<1>13. \/ StaySuppressed(f) \/ ClearSuppression(f) \/ Watch(f) \/ Trigger(f)
       \/ EndOutlasted(f) \/ Restart(f) \/ EndFramesFull(f) \/ EndBytesFull(f)
       \/ Continue(f) \/ EndAtMaxClip(f) \/ EndAfterPostEvent(f)
  BY <1>1 DEF f
<1> QED
  BY <1>3, <1>4, <1>5, <1>6, <1>7, <1>8, <1>9, <1>10, <1>11, <1>12, <1>13

\* The end of the source and the abort keep it.
LEMMA CloseStep ==
  ASSUME IInv, Close
  PROVE  IInv'
<1>1. closed' = TRUE /\ active' = None /\ UNCHANGED <<suppressed, previous>>
  BY DEF Close
<1>2. Clock(previous) \in Int /\ Clock(previous) <= Clock(previous)
  BY FrameType DEF IInv, Clock
<1>3. CASE active # None /\ Published(active, "source_end") /\ UNCHANGED prebuffer
  <2>1. "source_end" \in Terminations
    BY DEF Terminations
  <2>2. ClipsFine(clips', Clock(previous))
    BY <1>2, <1>3, <2>1, ActivePublished DEF Published
  <2>3. prebuffer' = Nothing
    BY <1>3 DEF IInv
  <2>4. BufferFine(prebuffer', Clock(previous)) /\ After(clips', prebuffer'.frames)
    BY <2>3, NothingIsFine
  <2> QED
    BY <1>1, <2>2, <2>4 DEF IInv, Clock
<1>4. CASE active # None /\ Raised(active, "source_end") /\ UNCHANGED prebuffer
  <2>1. "source_end" \in Terminations
    BY DEF Terminations
  <2>2. ClipsFine(clips', Clock(previous))
    <3>1. CASE UNCHANGED clips
      BY <3>1 DEF IInv
    <3>2. CASE clips' = Append(clips, ClipOf(active, "source_end", TRUE))
      BY <1>2, <1>4, <2>1, <3>2, ActivePublished
    <3> QED
      BY <1>4, <3>1, <3>2 DEF Raised
  <2>3. prebuffer' = Nothing
    BY <1>4 DEF IInv
  <2>4. BufferFine(prebuffer', Clock(previous)) /\ After(clips', prebuffer'.frames)
    BY <2>3, NothingIsFine
  <2> QED
    BY <1>1, <2>2, <2>4 DEF IInv, Clock
<1>5. CASE active = None /\ prebuffer' = Nothing /\ UNCHANGED clips
  <2>1. BufferFine(prebuffer', Clock(previous)) /\ After(clips', prebuffer'.frames)
    BY <1>5, NothingIsFine
  <2> QED
    BY <1>1, <1>5, <2>1 DEF IInv, Clock
<1> QED
  BY <1>3, <1>4, <1>5 DEF Close

LEMMA AbortStep ==
  ASSUME IInv, Abort
  PROVE  IInv'
<1>1. /\ closed' = TRUE /\ active' = None /\ prebuffer' = Nothing
      /\ UNCHANGED <<suppressed, previous, clips>>
  BY DEF Abort
<1>2. BufferFine(prebuffer', Clock(previous)) /\ After(clips', prebuffer'.frames)
  BY <1>1, NothingIsFine
<1> QED
  BY <1>1, <1>2 DEF IInv, Clock

\* The recorder starts in it.
LEMMA InitIInv == Init => IInv
<1> SUFFICES ASSUME Init PROVE IInv
  OBVIOUS
<1>1. /\ prebuffer = Nothing /\ active = None /\ suppressed = FALSE /\ previous = None
      /\ closed = FALSE /\ clips = <<>>
  BY DEF Init
<1>2. BufferFine(prebuffer, Clock(previous)) /\ After(clips, prebuffer.frames)
  BY <1>1, NothingIsFine
<1>3. ClipsFine(clips, Clock(previous))
  <2>1. clips \in Seq(Clip) /\ Len(clips) = 0
    BY <1>1
  <2> QED
    BY <2>1 DEF ClipsFine
<1> QED
  BY <1>1, <1>2, <1>3 DEF IInv

\* The inductive invariant holds in every reachable state.
LEMMA Invariant == Spec => []IInv
<1>1. Init => IInv
  BY InitIInv
<1>2. IInv /\ [Next]_vars => IInv'
  <2> SUFFICES ASSUME IInv, [Next]_vars PROVE IInv'
    OBVIOUS
  <2>1. CASE Process
    BY <2>1, ProcessStep
  <2>2. CASE Close
    BY <2>2, CloseStep
  <2>3. CASE Abort
    BY <2>3, AbortStep
  <2>4. CASE UNCHANGED vars
    BY <2>4 DEF vars, memory, session, IInv, Clock
  <2> QED
    BY <2>1, <2>2, <2>3, <2>4 DEF Next
<1> QED
  BY <1>1, <1>2, PTL DEF Spec

-----------------------------------------------------------------------------
(* The theorems *)

\* The frames and bytes held for the buffer and for an incident never exceed the
\* four configured limits, whatever sizes, gaps and failures occur, and no clip
\* outlasts max_clip_ms unless the configured history alone does.
THEOREM LimitsAlwaysKept == Spec => []LimitsAreKept
<1>1. IInv => LimitsAreKept
  <2> SUFFICES ASSUME IInv PROVE LimitsAreKept
    OBVIOUS
  <2>1. Held(prebuffer, MaxBufferFrames, MaxBufferBytes)
    BY DEF IInv, BufferFine, Sound, Fits, Held
  <2>2. active # None => Held(active.footage, MaxActiveFrames, MaxActiveBytes)
    BY DEF IInv, IncidentFine, Sound, Fits, Held
  <2>3. \A c \in DOMAIN clips : Span(clips[c].frames) <= MaxClip \/ PreEvent > MaxClip
    <3> TAKE c \in DOMAIN clips
    <3>1. c \in 1..Len(clips) /\ Presentable(clips[c].frames, Clock(previous))
      BY DEF IInv, ClipsFine
    <3> QED
      BY <3>1 DEF Presentable, Span, Last
  <2> QED
    BY <2>1, <2>2, <2>3 DEF LimitsAreKept
<1> QED
  BY <1>1, Invariant, PTL

\* Two clips, the earlier one first.
LEMMA ClipOrder ==
  ASSUME IInv, NEW c \in DOMAIN clips, NEW d \in DOMAIN clips, c < d
  PROVE  /\ clips[c].frames \in Seq(Frame) /\ clips[d].frames \in Seq(Frame)
         /\ clips[c].frames # <<>> /\ clips[d].frames # <<>>
         /\ \A i \in 1..Len(clips[c].frames), j \in 1..Len(clips[d].frames) :
              /\ clips[c].frames[i].at < clips[d].frames[j].at
              /\ ~MayBeFollowed(clips[c]) /\ clips[d].frames[j].visit # None =>
                   clips[c].frames[i].visit # clips[d].frames[j].visit
<1>1. ClipsFine(clips, Clock(previous)) /\ DOMAIN clips = 1..Len(clips)
  BY DEF IInv, ClipsFine
<1>2. Presentable(clips[c].frames, Clock(previous)) /\ Presentable(clips[d].frames, Clock(previous))
  BY <1>1 DEF ClipsFine
<1>3. \A i \in 1..Len(clips[c].frames), j \in 1..Len(clips[d].frames) :
        /\ clips[c].frames[i].at < clips[d].frames[j].at
        /\ ~MayBeFollowed(clips[c]) /\ clips[d].frames[j].visit # None =>
             clips[c].frames[i].visit # clips[d].frames[j].visit
  BY <1>1 DEF ClipsFine
<1> QED
  BY <1>2, <1>3 DEF Presentable

\* A cat that stays in view is in one clip only: after a limit ended a clip,
\* nothing of the same visit is recorded until a clear frame was seen.  The one
\* exception is a clip that stayed although publish raised for it, before a
\* caller that went on.
THEOREM NeverTwoClipsOfAVisit == Spec => []OneClipPerVisit
<1>1. IInv => OneClipPerVisit
  <2> SUFFICES ASSUME IInv, NEW e \in DOMAIN clips, NEW g \in DOMAIN clips, e < g,
                      ~MayBeFollowed(clips[e]), NEW v \in Visits(clips[e]),
                      v \in Visits(clips[g])
               PROVE  FALSE
    BY DEF OneClipPerVisit
  <2>1. PICK i \in DOMAIN clips[e].frames : v = clips[e].frames[i].visit
    BY DEF Visits, Range
  <2>2. PICK j \in DOMAIN clips[g].frames : v = clips[g].frames[j].visit /\ v # None
    BY DEF Visits, Range
  <2>3. DOMAIN clips[e].frames = 1..Len(clips[e].frames)
        /\ DOMAIN clips[g].frames = 1..Len(clips[g].frames)
    <3>1. clips[e].frames \in Seq(Frame) /\ clips[g].frames \in Seq(Frame)
      BY ClipOrder
    <3> QED
      BY <3>1
  <2>4. \A k \in 1..Len(clips[e].frames), l \in 1..Len(clips[g].frames) :
          clips[g].frames[l].visit # None =>
            clips[e].frames[k].visit # clips[g].frames[l].visit
    BY ClipOrder
  <2> QED
    BY <2>1, <2>2, <2>3, <2>4
<1> QED
  BY <1>1, Invariant, PTL

\* Each clip begins after the one before it ended: no frame is published twice and
\* the names of the clips increase.
THEOREM FootageNeverRepeats == Spec => []NoFootageTwice
<1>1. IInv => NoFootageTwice
  <2> SUFFICES ASSUME IInv, NEW c \in DOMAIN clips, NEW d \in DOMAIN clips, c < d
               PROVE  Last(clips[c].frames).at < Head(clips[d].frames).at
    BY DEF NoFootageTwice
  <2>1. /\ Len(clips[c].frames) \in 1..Len(clips[c].frames) /\ 1 \in 1..Len(clips[d].frames)
        /\ Head(clips[d].frames) = clips[d].frames[1]
    BY ClipOrder
  <2> QED
    BY <2>1, ClipOrder DEF Last
<1> QED
  BY <1>1, Invariant, PTL

\* Every frame of a clip but the closing one lies within pre_event_ms before or
\* post_event_ms after a trigger of that same clip.
THEOREM FootageAlwaysWarranted == Spec => []FootageIsWarranted
<1>1. IInv => FootageIsWarranted
  <2> SUFFICES ASSUME IInv, NEW c \in DOMAIN clips, NEW f \in Range(Front(clips[c].frames))
               PROVE  Warranted(f, clips[c])
    BY DEF FootageIsWarranted
  <2> DEFINE frames == clips[c].frames
             n == Len(frames)
  <2>1. Presentable(frames, Clock(previous))
    <3>1. ClipsFine(clips, Clock(previous)) /\ c \in 1..Len(clips)
      BY DEF IInv, ClipsFine
    <3> QED
      BY <3>1 DEF ClipsFine
  <2>2. frames \in Seq(Frame) /\ frames # <<>> /\ n \in Nat /\ n - 1 \in Nat
        /\ DOMAIN frames = 1..n
    BY <2>1 DEF Presentable
  <2>3. PICK i \in 1..(n - 1) : f = frames[i]
    <3>1. \A i \in 1..(n - 1) : frames[i] \in Frame
      BY <2>2
    <3>2. /\ Front(frames) \in Seq(Frame) /\ Len(Front(frames)) = n - 1
          /\ \A i \in 1..(n - 1) : Front(frames)[i] = frames[i]
      <4>1. /\ SubSeq(frames, 1, n - 1) \in Seq(Frame)
            /\ Len(SubSeq(frames, 1, n - 1)) = IF 1 <= n - 1 THEN (n - 1) - 1 + 1 ELSE 0
            /\ \A i \in 1..((n - 1) - 1 + 1) : SubSeq(frames, 1, n - 1)[i] = frames[1 + i - 1]
        BY <2>2, <3>1, SubSeqProperties
      <4> QED
        BY <2>2, <4>1 DEF Front
    <3>3. DOMAIN Front(frames) = 1..(n - 1)
      BY <3>2
    <3> QED
      BY <3>2, <3>3 DEF Range
  <2>4. PICK j \in 1..n :
          /\ Triggered(frames[j]) /\ frames[j].at - PreEvent <= f.at
          /\ f.at <= frames[j].at + PostEvent
    BY <2>1, <2>3 DEF Presentable, Covered
  <2>5. frames[j] \in Range(frames)
    BY <2>2 DEF Range
  <2> QED
    BY <2>4, <2>5 DEF Warranted
<1> QED
  BY <1>1, Invariant, PTL
=============================================================================
