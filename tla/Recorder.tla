------------------------------- MODULE Recorder -------------------------------
(***************************************************************************)
(* The rolling buffer and one-clip-per-incident state machine of           *)
(* recorder/.../core.py, driven one accepted observation at a time.  Each  *)
(* call of IncidentRecorder.process takes one branch, and each branch is   *)
(* an action below.                                                        *)
(*                                                                         *)
(* A frame stands for itself and its perception binding.  Sequence numbers *)
(* and capture times both increase strictly, so the time names the frame   *)
(* and, for a trigger, the incident.  Pixels are kept as a byte count.     *)
(* The store is a call that publishes the clip, or raises before or after  *)
(* the rename that makes it one.                                           *)
(***************************************************************************)
EXTENDS Integers, SequencesExt

CONSTANTS
  None,
  \* RecorderConfig
  PreEvent, PostEvent, MaxClip,
  MaxBufferFrames, MaxBufferBytes, MaxActiveFrames, MaxActiveBytes,
  MaxObservations,
  \* the sources, stores and callers considered
  MaxTime,               \* bound on capture times
  FrameGaps,             \* milliseconds between two frames
  FrameSizes,            \* decoded bytes of a frame
  StoreOutcomes,         \* "Published"; "Failed", "Kept": publish raised, and
                         \* the clip is lost or, after the rename, stays
  Callers                \* "run_paired", and "direct" for one that goes on

Time == 0..MaxTime

\* visit is history: the time at which the unbroken run of triggering
\* observations that the frame belongs to began, None on a clear frame.
Frame == [at : Time, bytes : FrameSizes, visit : Time \cup {None}]
Triggered(f) == f.visit # None

Nothing == [frames |-> <<>>, bytes |-> 0]

Footage == [frames : Seq(Frame), bytes : Nat]
Incident == [footage : Footage, firstTrigger : Time, lastTrigger : Time,
             lastTriggered : BOOLEAN]

ASSUME RecorderConfigAssumption ==          \* RecorderConfig.__post_init__
  /\ {PreEvent, PostEvent} \subseteq Nat
  /\ {MaxClip, MaxBufferFrames, MaxBufferBytes, MaxActiveFrames,
      MaxActiveBytes, MaxObservations} \subseteq Nat \ {0}

ASSUME SourceAssumption ==
  /\ MaxTime \in Nat /\ None \notin Nat
  /\ FrameGaps \subseteq Nat \ {0} /\ FrameSizes \subseteq Nat
  /\ StoreOutcomes \subseteq {"Published", "Failed", "Kept"}
  /\ Callers \subseteq {"run_paired", "direct"}

\* An absent optional is no frame and no incident.
ASSUME AbsenceAssumption == None \notin Frame \cup Incident

VARIABLES
  prebuffer,             \* _prebuffer, _prebuffer_bytes: [frames, bytes]
  active,                \* _active: [footage, firstTrigger, lastTrigger,
                         \* lastTriggered], None when there is no incident
  suppressed,            \* _suppressed_until_clear
  previous,              \* the last accepted frame (_previous), None at first
  accepted,              \* accepted_observation_count
  closed,                \* _closed
  clips                  \* every clip on disk: [frames, firstTrigger, termination,
                         \* raised], the last one history: publish raised for it

memory == <<prebuffer, active, suppressed>>
session == <<previous, accepted, closed>>
vars == <<memory, session, clips>>

-----------------------------------------------------------------------------
\* Bounded footage.

Bytes(frames) ==
  LET total[i \in 0..Len(frames)] == IF i = 0 THEN 0 ELSE total[i - 1] + frames[i].bytes
  IN  total[Len(frames)]

Forget(footage, k) ==                    \* drop the k oldest frames
  [frames |-> SubSeq(footage.frames, k + 1, Len(footage.frames)),
   bytes |-> footage.bytes - Bytes(SubSeq(footage.frames, 1, k))]

Extend(footage, f) ==
  [frames |-> Append(footage.frames, f), bytes |-> footage.bytes + f.bytes]

First(footage) == footage.frames[1]

Fits(footage, maxFrames, maxBytes) ==
  Len(footage.frames) <= maxFrames /\ footage.bytes <= maxBytes

\* How many frames a loop drops that stops as soon as what is left is Enough.
Dropped(footage, limit, Enough(_)) ==
  Min({limit} \cup {k \in 0..limit : Enough(Forget(footage, k))})

AsBuffered(footage, now) == footage     \* slip: the buffer ages unpruned

Recent(footage, now) ==
  LET Enough(rest) == rest.frames = <<>> \/ First(rest).at >= now - PreEvent
  IN  Forget(footage, Dropped(footage, Len(footage.frames), Enough))

WithinBuffer(footage) ==
  LET Enough(rest) == Fits(rest, MaxBufferFrames, MaxBufferBytes)
  IN  Forget(footage, Dropped(footage, Len(footage.frames), Enough))

Remember(footage, f) == WithinBuffer(Recent(Extend(footage, f), f.at))

\* The pre-event history of an incident; its last frame is never dropped.
WithinIncident(footage) ==
  LET Enough(rest) == Fits(rest, MaxActiveFrames, MaxActiveBytes)
  IN  Forget(footage, Dropped(footage, Len(footage.frames) - 1, Enough))

-----------------------------------------------------------------------------
\* Starting and finishing an incident.

History(buffered, f) ==
  IF buffered.frames # <<>> /\ Last(buffered.frames).at = f.at
  THEN buffered ELSE [frames |-> <<f>>, bytes |-> f.bytes]

StartKeepingBuffer(buffered, f) ==       \* slip: _clear_prebuffer forgotten
  LET footage == WithinIncident(History(buffered, f))
  IN  /\ prebuffer' = buffered
      /\ active' = [footage |-> footage, firstTrigger |-> f.at,
                    lastTrigger |-> f.at, lastTriggered |-> TRUE]
      /\ UNCHANGED suppressed

\* _start, with the buffer as it is after the trigger frame was offered to it.
Start(buffered, f) ==
  LET footage == WithinIncident(History(buffered, f))
  IN  /\ prebuffer' = Nothing
      /\ IF Fits(footage, MaxActiveFrames, MaxActiveBytes)
         THEN /\ active' = [footage |-> footage, firstTrigger |-> f.at,
                            lastTrigger |-> f.at, lastTriggered |-> TRUE]
              /\ UNCHANGED suppressed
         ELSE suppressed' = TRUE /\ active' = None

ClipOf(incident, termination, raised) ==
  [frames |-> incident.footage.frames, firstTrigger |-> incident.firstTrigger,
   termination |-> termination, raised |-> raised]

\* _finalize forgets the incident before it publishes.
Published(incident, termination) ==
  /\ "Published" \in StoreOutcomes
  /\ clips' = Append(clips, ClipOf(incident, termination, FALSE))

\* publish removes its staging directory, but not what it has renamed.
Raised(incident, termination) ==
  \/ "Failed" \in StoreOutcomes /\ UNCHANGED clips
  \/ "Kept" \in StoreOutcomes /\ clips' = Append(clips, ClipOf(incident, termination, TRUE))

\* publish raised: nothing after it in process runs; run_paired aborts.
PublishFails(incident, termination) ==
  /\ Raised(incident, termination)
  /\ active' = None
  /\ \/ "direct" \in Callers /\ UNCHANGED closed
     \/ "run_paired" \in Callers /\ closed' = TRUE
  /\ UNCHANGED <<prebuffer, suppressed>>

-----------------------------------------------------------------------------
\* process, branch by branch.

VisitOf(at, triggered) ==
  IF ~triggered THEN None
  ELSE IF previous # None /\ Triggered(previous) THEN previous.visit ELSE at

Accept(f) ==
  /\ ~closed /\ accepted < MaxObservations
  /\ previous' = f /\ accepted' = accepted + 1

StaySuppressed(f) ==
  /\ Accept(f) /\ suppressed /\ Triggered(f)
  /\ UNCHANGED <<memory, closed, clips>>

Retain(f) ==
  IF f.bytes <= MaxBufferBytes THEN Remember(prebuffer, f) ELSE prebuffer

ClearSuppression(f) ==
  /\ Accept(f) /\ suppressed /\ ~Triggered(f)
  /\ suppressed' = FALSE /\ prebuffer' = Retain(f)
  /\ UNCHANGED <<active, closed, clips>>

Idle(f) == Accept(f) /\ ~suppressed /\ active = None

Watch(f) ==
  /\ Idle(f) /\ ~Triggered(f)
  /\ prebuffer' = Retain(f)
  /\ UNCHANGED <<active, suppressed, closed, clips>>

\* A trigger frame too large for the buffer but not for a clip empties it.
Offered(f) ==
  IF f.bytes <= MaxBufferBytes \/ f.bytes <= MaxActiveBytes
  THEN Remember(prebuffer, f) ELSE prebuffer

Trigger(f) ==
  /\ Idle(f) /\ Triggered(f)
  /\ Start(Offered(f), f)
  /\ UNCHANGED <<closed, clips>>

Recording(f) == Accept(f) /\ ~suppressed /\ active # None

Outlasts(f) == f.at - First(active.footage).at > MaxClip
StartsLate(f) ==
  /\ Triggered(f) /\ ~active.lastTriggered
  /\ f.at - active.lastTrigger > PostEvent
FramesFull == Len(active.footage.frames) >= MaxActiveFrames
OneMoreFits(f) == active.footage.bytes >= MaxActiveBytes   \* slip: off by one frame
BytesFull(f) == active.footage.bytes + f.bytes > MaxActiveBytes

\* After a limit the next clip waits until the cat was seen to leave.
RetainAlways(f) ==                       \* slip: nothing suppressed
  active' = None /\ prebuffer' = Retain(f) /\ UNCHANGED suppressed

SuppressOrRetain(f) ==
  /\ active' = None
  /\ suppressed' = Triggered(f)
  /\ prebuffer' = IF Triggered(f) THEN prebuffer ELSE Retain(f)

EndAtLimit(f, termination) ==
  \/ Published(active, termination) /\ SuppressOrRetain(f) /\ UNCHANGED closed
  \/ PublishFails(active, termination)

EndOutlasted(f) == Recording(f) /\ Outlasts(f) /\ EndAtLimit(f, "max_clip_duration")

\* The post-event window passed between two frames: the late trigger opens
\* the next incident at once.
Restart(f) ==
  /\ Recording(f) /\ ~Outlasts(f) /\ StartsLate(f)
  /\ \/ /\ Published(active, "post_event_elapsed")
        /\ Start(Remember(prebuffer, f), f)
        /\ UNCHANGED closed
     \/ PublishFails(active, "post_event_elapsed")

Appendable(f) == Recording(f) /\ ~Outlasts(f) /\ ~StartsLate(f)

EndFramesFull(f) ==
  Appendable(f) /\ FramesFull /\ EndAtLimit(f, "max_active_frames")

EndBytesFull(f) ==
  Appendable(f) /\ ~FramesFull /\ BytesFull(f) /\ EndAtLimit(f, "max_active_bytes")

Appended(f) ==
  [active EXCEPT !.footage = Extend(@, f), !.lastTriggered = Triggered(f),
                 !.lastTrigger = IF Triggered(f) THEN f.at ELSE @]

ReachesMaxClip(f) == f.at - First(active.footage).at >= MaxClip
PostEventElapsed(f) == ~Triggered(f) /\ f.at - active.lastTrigger >= PostEvent

Appending(f) == Appendable(f) /\ ~FramesFull /\ ~BytesFull(f)

Continue(f) ==
  /\ Appending(f) /\ ~ReachesMaxClip(f) /\ ~PostEventElapsed(f)
  /\ active' = Appended(f)
  /\ UNCHANGED <<prebuffer, suppressed, closed, clips>>

EndAtMaxClip(f) ==
  /\ Appending(f) /\ ReachesMaxClip(f)
  /\ \/ /\ Published(Appended(f), "max_clip_duration")
        /\ active' = None /\ suppressed' = Triggered(f)
        /\ UNCHANGED <<prebuffer, closed>>
     \/ PublishFails(Appended(f), "max_clip_duration")

EndAfterPostEvent(f) ==
  /\ Appending(f) /\ ~ReachesMaxClip(f) /\ PostEventElapsed(f)
  /\ \/ /\ Published(Appended(f), "post_event_elapsed")
        /\ active' = None
        /\ UNCHANGED <<prebuffer, suppressed, closed>>
     \/ PublishFails(Appended(f), "post_event_elapsed")

\* The observation that follows: only differences of capture times matter, so
\* the first one is at 0.
Follows(at) == IF previous = None THEN at = 0 ELSE at - previous.at \in FrameGaps

Process ==
  \E at \in Time, bytes \in FrameSizes, triggered \in BOOLEAN :
    LET f == [at |-> at, bytes |-> bytes, visit |-> VisitOf(at, triggered)]
    IN  /\ Follows(at)
        /\ \/ StaySuppressed(f) \/ ClearSuppression(f) \/ Watch(f) \/ Trigger(f)
           \/ EndOutlasted(f) \/ Restart(f) \/ EndFramesFull(f) \/ EndBytesFull(f)
           \/ Continue(f) \/ EndAtMaxClip(f) \/ EndAfterPostEvent(f)

\* close at the end of the source: an incident in progress is published.
Close ==
  /\ ~closed /\ closed' = TRUE
  /\ active' = None
  /\ \/ active # None /\ Published(active, "source_end") /\ UNCHANGED prebuffer
     \/ active # None /\ Raised(active, "source_end") /\ UNCHANGED prebuffer
     \/ active = None /\ prebuffer' = Nothing /\ UNCHANGED clips
  /\ UNCHANGED <<suppressed, previous, accepted>>

\* A malformed, unpaired, repeated or surplus observation raises before it
\* changes anything; run_paired then aborts without publishing.
Abort ==
  /\ "run_paired" \in Callers /\ ~closed
  /\ active' = None /\ prebuffer' = Nothing /\ closed' = TRUE
  /\ UNCHANGED <<suppressed, previous, accepted, clips>>

Init ==
  /\ prebuffer = Nothing /\ active = None /\ suppressed = FALSE
  /\ previous = None /\ accepted = 0 /\ closed = FALSE
  /\ clips = <<>>

Next == Process \/ Close \/ Abort

Spec == Init /\ [][Next]_vars

-----------------------------------------------------------------------------
\* What the recorder must keep.

Held(footage, maxFrames, maxBytes) ==
  Len(footage.frames) <= maxFrames /\ Bytes(footage.frames) <= maxBytes

Span(frames) == Last(frames).at - Head(frames).at

\* The pixels really held in memory stay within the four in-memory limits,
\* whatever the byte counters say, and no clip is longer than max_clip_ms unless
\* the configured history alone is (core.py:126-136, 154-165, 285-292, 307-333).
LimitsAreKept ==
  /\ Held(prebuffer, MaxBufferFrames, MaxBufferBytes)
  /\ active # None => Held(active.footage, MaxActiveFrames, MaxActiveBytes)
  /\ \A i \in DOMAIN clips :
       Span(clips[i].frames) <= MaxClip \/ PreEvent > MaxClip

Visits(clip) == {f.visit : f \in Range(clip.frames)} \ {None}

\* publish raised although the clip stayed, and its caller may have gone on.
MayBeFollowed(clip) == clip.raised /\ "direct" \in Callers

\* One unbroken run of triggering observations appears in a second clip only if
\* publish raised for the first one and its caller went on regardless: no
\* suppression is set then (core.py:225-237, 264-269; storage.py:514-526).
OneClipPerVisit ==
  \A i, j \in DOMAIN clips :
    i < j /\ ~MayBeFollowed(clips[i]) => Visits(clips[i]) \cap Visits(clips[j]) = {}

\* Clips are published in order and share no frame, so their names, made of the
\* trigger's time, are unique and sort by age (core.py:159, 179).
NoFootageTwice ==
  \A i, j \in DOMAIN clips :
    i < j => Last(clips[i].frames).at < Head(clips[j].frames).at

Warranted(f, clip) ==
  \E trigger \in {g \in Range(clip.frames) : Triggered(g)} :
    trigger.at - PreEvent <= f.at /\ f.at <= trigger.at + PostEvent

\* Every published frame but the closing one lies within the pre-event or the
\* post-event window of a trigger in the same clip (core.py:129-131, 334-338).
FootageIsWarranted ==
  \A i \in DOMAIN clips :
    \A f \in Range(Front(clips[i].frames)) : Warranted(f, clips[i])
=============================================================================
