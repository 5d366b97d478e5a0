---------------------------- MODULE ReviewProofs ----------------------------
(***************************************************************************)
(* Proofs about AnnotationReview, for any number of pages, annotations,    *)
(* saves and waiting calls, failed writes and restarts.                    *)
(*                                                                         *)
(* The hard case is the replacement that raised: the file is then one      *)
(* revision ahead of the server, which goes on from its old state.  What   *)
(* anybody has seen is therefore compared with the file as a bound, and    *)
(* only at the file's own revision as an equal.                            *)
(***************************************************************************)
EXTENDS AnnotationReview, TLAPS

\* The call that holds the lock is still waiting, and the new file has its
\* change.
LockInv ==
  lock # None =>
    /\ memory # None /\ lock \in Calls /\ Answered(lock, "Waiting")
    /\ file.annotations[call[lock].event] = call[lock].value

-----------------------------------------------------------------------------
(* Types. *)

LEMMA InitTyped == Init => TypeOK
BY ReviewAssumption DEF Init, TypeOK, Empty, State, Annotations

\* What the store answers and persists is a snapshot and a state.
LEMMA StatesTyped ==
  ASSUME TypeOK
  PROVE  /\ SnapshotOf(file) \in Snapshot
         /\ memory # None => SnapshotOf(memory) \in Snapshot
         /\ \A c \in Calls : Changing(c) => NextState(c) \in State
<1>1. \A s \in State : SnapshotOf(s) \in Snapshot
  BY DEF State, Snapshot, SnapshotOf
<1>2. ASSUME NEW c \in Calls, Changing(c)
      PROVE  NextState(c) \in State
  <2>1. call[c] \in Call /\ memory \in State
    BY <1>2 DEF TypeOK, Changing, Reached, Readable, Answered
  <2>2. /\ call[c].event \in Events /\ call[c].value \in Values \cup {None}
        /\ call[c].kind \in {"Save", "Archive"}
    BY <2>1 DEF Call
  <2>3. /\ memory.annotations \in [Events -> Values \cup {None}]
        /\ memory.history \subseteq Entry /\ memory.revision \in Nat
    BY <2>1 DEF State, Annotations
  <2>4. Superseded(c) \subseteq Entry
    BY <2>2, <2>3 DEF Superseded, Current, Entry
  <2>5. [memory.annotations EXCEPT ![call[c].event] = call[c].value] \in Annotations
    BY <2>2, <2>3 DEF Annotations
  <2> QED BY <2>3, <2>4, <2>5 DEF NextState, State
<1> QED BY <1>1, <1>2 DEF TypeOK

\* An answer to one call leaves the other calls as they were.
LEMMA RepliesTyped ==
  ASSUME TypeOK, NEW c \in Calls, call[c] # None,
         NEW status \in {"Waiting", "Ok", "Conflict", "Error"},
         NEW answer \in Snapshot \cup {None}, Reply(c, status, answer)
  PROVE  /\ call' \in [Calls -> Call \cup {None}]
         /\ \A d \in Calls : call'[d] # None /\ call'[d].kind = "Save" => call'[d].value # None
<1>1. call[c] \in Call
  BY DEF TypeOK
<1> DEFINE new == [call[c] EXCEPT !.status = status, !.answer = answer]
<1>2. new \in Call /\ new.kind = call[c].kind /\ new.value = call[c].value
  BY <1>1 DEF Call
<1>3. call' = [call EXCEPT ![c] = new]
  BY DEF Reply
<1> HIDE DEF new
<1> QED BY <1>2, <1>3 DEF TypeOK

LEMMA PageTyped ==
  ASSUME TypeOK, Page
  PROVE  TypeOK'
<1>1. ASSUME NEW b \in Browsers, OpenPage(b)
      PROVE  TypeOK'
  <2>1. view' \in [Browsers -> Snapshot \cup {None}]
    BY <1>1, StatesTyped DEF OpenPage, TypeOK, Readable
  <2>2. \A c \in Calls : \/ call'[c] = call[c]
                         \/ call'[c] = None
                         \/ call[c] # None /\ call'[c] = [call[c] EXCEPT !.page = FALSE]
    BY <1>1 DEF OpenPage
  <2>3. \A c \in Calls : call[c] # None =>
          /\ [call[c] EXCEPT !.page = FALSE] \in Call
          /\ [call[c] EXCEPT !.page = FALSE].kind = call[c].kind
          /\ [call[c] EXCEPT !.page = FALSE].value = call[c].value
    BY DEF TypeOK, Call
  <2>4. call' \in [Calls -> Call \cup {None}]
    <3>1. call' = [c \in Calls |-> call'[c]]
      BY <1>1 DEF OpenPage
    <3>2. \A c \in Calls : call'[c] \in Call \cup {None}
      BY <2>2, <2>3 DEF TypeOK
    <3> QED BY <3>1, <3>2
  <2>5. \A c \in Calls : call'[c] # None /\ call'[c].kind = "Save" => call'[c].value # None
    BY <2>2, <2>3 DEF TypeOK
  <2> QED BY <1>1, <2>1, <2>4, <2>5 DEF OpenPage, TypeOK, server
<1>2. ASSUME NEW b \in Browsers, NEW kind \in {"Save", "Archive"}, NEW e \in Events,
             NEW v \in Values \cup {None}, kind = "Save" => v # None, Submit(b, kind, e, v)
      PROVE  TypeOK'
  <2>1. PICK i \in 1 .. MaxPending :
          call' = [call EXCEPT ![<<b, i>>] =
                    [kind |-> kind, event |-> e, value |-> v,
                     expected |-> view[b].revision, status |-> "Waiting",
                     answer |-> None, page |-> TRUE, seen |-> view[b].annotations[e]]]
    BY <1>2 DEF Submit
  <2> DEFINE new == [kind |-> kind, event |-> e, value |-> v,
                     expected |-> view[b].revision, status |-> "Waiting",
                     answer |-> None, page |-> TRUE, seen |-> view[b].annotations[e]]
  <2>2. view[b] \in Snapshot
    BY <1>2 DEF Submit, TypeOK
  <2>3. new \in Call /\ new.kind = kind /\ new.value = v
    BY <1>2, <2>2 DEF Call, Snapshot, Annotations
  <2> HIDE DEF new
  <2>4. <<b, i>> \in Calls /\ call' = [call EXCEPT ![<<b, i>>] = new]
    BY <2>1 DEF Calls, new
  <2> QED BY <1>2, <2>3, <2>4 DEF TypeOK, Submit, server
<1>3. ASSUME NEW c \in Calls, Receive(c) \/ Refresh(c) \/ ShowError(c)
      PROVE  TypeOK'
  <2>1. call[c] \in Call /\ call' = [call EXCEPT ![c] = None] /\ c[1] \in Browsers
    BY <1>3 DEF TypeOK, Receive, Refresh, ShowError, Answered, Calls
  <2>2. /\ call' \in [Calls -> Call \cup {None}]
        /\ \A d \in Calls : call'[d] # None /\ call'[d].kind = "Save" => call'[d].value # None
    BY <2>1 DEF TypeOK
  <2>3. CASE Receive(c)
    <3>1. view' \in [Browsers -> Snapshot \cup {None}]
      BY <2>1, <2>3 DEF Receive, TypeOK, Call
    <3>2. saved' \subseteq Events \X Values
      <4>1. CASE call[c].page /\ call[c].kind = "Save"
        <5>1. call[c].event \in Events /\ call[c].value \in Values
          BY <2>1, <2>3, <4>1 DEF TypeOK, Call, Receive, Answered
        <5> QED BY <2>3, <4>1, <5>1 DEF Receive, TypeOK
      <4> QED BY <2>3, <4>1 DEF Receive, TypeOK
    <3> QED BY <2>2, <2>3, <3>1, <3>2 DEF Receive, TypeOK, server
  <2>4. CASE Refresh(c) \/ ShowError(c)
    <3>1. view' \in [Browsers -> Snapshot \cup {None}]
      BY <2>1, <2>4, StatesTyped DEF Refresh, ShowError, TypeOK, Readable
    <3> QED BY <2>2, <2>4, <3>1 DEF Refresh, ShowError, TypeOK, server
  <2> QED BY <1>3, <2>3, <2>4
<1>4. \A v \in Values : v # None
  BY ReviewAssumption
<1> QED BY <1>1, <1>2, <1>3, <1>4 DEF Page, SaveAnnotation, ArchiveAnnotation

LEMMA ServerTyped ==
  ASSUME TypeOK, LockInv, (\E c \in Calls : Handle(c)) \/ Stop \/ Start
  PROVE  TypeOK'
<1>1. ASSUME NEW c \in Calls, RejectStale(c) \/ RejectUnknown(c) \/ WriteFails(c) \/ Refuse(c)
      PROVE  TypeOK'
  <2>1. /\ call[c] # None
        /\ Reply(c, "Conflict", None) \/ Reply(c, "Error", None)
        /\ UNCHANGED <<server, view, saved>>
    BY <1>1 DEF RejectStale, RejectUnknown, WriteFails, Refuse, Changing, Reached, Answered
  <2> QED BY <2>1, RepliesTyped DEF TypeOK, server
<1>2. ASSUME NEW c \in Calls, KeepSame(c)
      PROVE  TypeOK'
  <2>1. call[c] # None /\ SnapshotOf(memory) \in Snapshot
    BY <1>2, StatesTyped DEF KeepSame, Reached, Answered, Readable
  <2> QED BY <1>2, <2>1, RepliesTyped DEF KeepSame, TypeOK, server
<1>3. ASSUME NEW c \in Calls, Replace(c)
      PROVE  TypeOK'
  BY <1>3, StatesTyped DEF Replace, TypeOK
<1>4. ASSUME NEW c \in Calls, Commit(c) \/ ReplaceFails(c)
      PROVE  TypeOK'
  <2>1. c # None
    BY ReviewAssumption
  <2>2. call[c] # None
    BY <1>4, <2>1 DEF Commit, ReplaceFails, LockInv, Answered
  <2> QED BY <1>4, <2>2, StatesTyped, RepliesTyped DEF Commit, ReplaceFails, TypeOK
<1>5. CASE Stop
  <2>1. \A c \in Calls : call[c] # None => /\ [call[c] EXCEPT !.status = "Error"] \in Call
                                           /\ [call[c] EXCEPT !.status = "Error"].kind = call[c].kind
                                           /\ [call[c] EXCEPT !.status = "Error"].value = call[c].value
    BY DEF TypeOK, Call
  <2>2. /\ call' = [c \in Calls |-> IF Answered(c, "Waiting")
                                    THEN [call[c] EXCEPT !.status = "Error"] ELSE call[c]]
        /\ \A c \in Calls : Answered(c, "Waiting") => call[c] # None
    BY <1>5 DEF Stop, Answered
  <2>3. call' \in [Calls -> Call \cup {None}]
    BY <2>1, <2>2 DEF TypeOK
  <2>4. \A c \in Calls : call'[c] # None /\ call'[c].kind = "Save" => call'[c].value # None
    BY <2>1, <2>2 DEF TypeOK
  <2> QED BY <1>5, <2>3, <2>4 DEF Stop, TypeOK
<1>6. CASE Start
  BY <1>6 DEF Start, TypeOK
<1> QED BY <1>1, <1>2, <1>3, <1>4, <1>5, <1>6 DEF Handle

-----------------------------------------------------------------------------
(* The lock. *)

LEMMA StepKeepsLock ==
  ASSUME TypeOK, LockInv, Next
  PROVE  LockInv'
<1>1. CASE Page
  <2>1. UNCHANGED server
    BY <1>1 DEF Page, OpenPage, SaveAnnotation, ArchiveAnnotation, Submit, Receive, Refresh,
                ShowError
  <2>2. ASSUME NEW c \in Calls, Answered(c, "Waiting")
        PROVE  /\ call'[c] # None /\ call'[c].status = "Waiting"
               /\ call'[c].event = call[c].event /\ call'[c].value = call[c].value
    <3>1. call[c] \in Call /\ call[c] # None /\ call[c].status = "Waiting"
      BY <2>2 DEF TypeOK, Answered
    <3>2. CASE \E b \in Browsers : OpenPage(b)
      <4>1. call'[c] = call[c] \/ call'[c] = [call[c] EXCEPT !.page = FALSE]
        BY <3>1, <3>2 DEF OpenPage
      <4>2. [call[c] EXCEPT !.page = FALSE] # None
        <5>1. [call[c] EXCEPT !.page = FALSE] \in Call
          BY <3>1 DEF Call
        <5> QED BY <5>1, ReviewAssumption
      <4> QED BY <3>1, <4>1, <4>2 DEF Call
    <3>3. CASE \E b \in Browsers, kind \in {"Save", "Archive"}, e \in Events,
                 v \in Values \cup {None} : Submit(b, kind, e, v)
      BY <3>1, <3>3 DEF Submit, TypeOK
    <3>4. CASE \E d \in Calls : Receive(d) \/ Refresh(d) \/ ShowError(d)
      BY <3>1, <3>4 DEF Receive, Refresh, ShowError, Answered, TypeOK
    <3> QED BY <1>1, <3>2, <3>3, <3>4 DEF Page, SaveAnnotation, ArchiveAnnotation
  <2> QED BY <2>1, <2>2 DEF LockInv, server, Answered
<1>2. ASSUME NEW c \in Calls, Handle(c)
      PROVE  LockInv'
  <2>1. CASE Replace(c)
    <3>1. /\ lock' = c /\ memory' = memory /\ call' = call /\ memory # None
          /\ Answered(c, "Waiting") /\ file' = NextState(c)
      BY <2>1 DEF Replace, Changing, Reached, Readable
    <3>2. call[c].event \in Events /\ memory.annotations \in [Events -> Values \cup {None}]
      BY <3>1 DEF TypeOK, Answered, Call, State, Annotations
    <3> QED BY <3>1, <3>2 DEF LockInv, NextState, Answered
  <2>2. CASE Commit(c) \/ ReplaceFails(c)
    BY <2>2 DEF Commit, ReplaceFails, LockInv
  <2>3. CASE \/ RejectStale(c) \/ RejectUnknown(c) \/ KeepSame(c) \/ WriteFails(c) \/ Refuse(c)
    <3>1. lock = None /\ lock' = lock
      BY <2>3 DEF RejectStale, RejectUnknown, KeepSame, WriteFails, Refuse, Changing, Reached,
                  Readable, LockInv, server
    <3> QED BY <3>1 DEF LockInv
  <2> QED BY <1>2, <2>1, <2>2, <2>3 DEF Handle
<1>3. CASE Stop \/ Start
  BY <1>3 DEF Stop, Start, LockInv
<1> QED BY <1>1, <1>2, <1>3 DEF Next

LEMMA StepKeepsTypes ==
  ASSUME TypeOK, LockInv, [Next]_vars
  PROVE  TypeOK' /\ LockInv'
<1>1. CASE Next
  BY <1>1, PageTyped, ServerTyped, StepKeepsLock DEF Next
<1>2. CASE UNCHANGED vars
  BY <1>2 DEF vars, server, TypeOK, LockInv, Answered
<1> QED BY <1>1, <1>2

-----------------------------------------------------------------------------
(* What has been seen of the annotations: by the server, a page, an answer,  *)
(* or a page that sent a call.                                               *)

Tells(s, r, e, v) == s.revision = r /\ s.annotations[e] = v

Seen(r, e, v) ==
  \/ memory # None /\ Tells(memory, r, e, v)
  \/ \E b \in Browsers : view[b] # None /\ Tells(view[b], r, e, v)
  \/ \E c \in Calls : call[c] # None /\ call[c].answer # None /\ Tells(call[c].answer, r, e, v)
  \/ \E c \in Calls :
       /\ call[c] # None
       /\ r = call[c].expected /\ e = call[c].event /\ v = call[c].seen

\* Nobody is ahead of the file or of the server, and two who are at the same
\* revision have seen the same.
SeenInv ==
  \A e \in Events : \A r, v : Seen(r, e, v) =>
    /\ r \in Nat /\ r <= file.revision
    /\ r = file.revision => v = file.annotations[e]
    /\ memory # None => r <= memory.revision
    /\ \A w : Seen(r, e, w) => v = w

LEMMA NothingNewIsSeen ==
  ASSUME SeenInv, file' = file, memory' = memory \/ memory' = None,
         \A e \in Events : \A r, v : Seen(r, e, v)' => Seen(r, e, v)
  PROVE  SeenInv'
<1> HIDE DEF Seen
<1> QED BY DEF SeenInv

\* A commit, or a start, shows the file.
LEMMA TheFileIsSeen ==
  ASSUME TypeOK, SeenInv, file' = file, memory' = file,
         \A e \in Events : \A r, v : Seen(r, e, v)' => Seen(r, e, v) \/ Tells(file, r, e, v)
  PROVE  SeenInv'
<1> HIDE DEF Seen
<1>1. file.revision \in Nat
  BY DEF TypeOK, State
<1> QED BY <1>1 DEF SeenInv, Tells

\* The pages only pass on what was seen.
LEMMA PagesSeeNothingNew ==
  ASSUME TypeOK, Page
  PROVE  \A e \in Events : \A r, v : Seen(r, e, v)' => Seen(r, e, v)
<1>0. memory' = memory
  BY DEF Page, OpenPage, SaveAnnotation, ArchiveAnnotation, Submit, Receive, Refresh,
         ShowError, server
<1> SUFFICES ASSUME NEW e \in Events, NEW r, NEW v, Seen(r, e, v)' PROVE Seen(r, e, v)
  OBVIOUS
<1>1. CASE memory' # None /\ Tells(memory', r, e, v)
  BY <1>0, <1>1 DEF Seen
<1>2. ASSUME NEW b \in Browsers, view'[b] # None, Tells(view'[b], r, e, v)
      PROVE  Seen(r, e, v)
  <2>1. \/ view'[b] = view[b]
        \/ memory # None /\ view'[b] = SnapshotOf(memory)
        \/ \E c \in Calls : call[c] # None /\ view'[b] = call[c].answer
    <3>1. ASSUME NEW c \in Calls, NEW s, view' = [view EXCEPT ![c[1]] = s]
          PROVE  view'[b] = view[b] \/ view'[b] = s
      BY <3>1 DEF TypeOK
    <3>2. ASSUME NEW a \in Browsers, OpenPage(a), view' # view
          PROVE  \/ view'[b] = view[b] \/ view'[b] = None
                 \/ memory # None /\ view'[b] = SnapshotOf(memory)
      BY <3>2 DEF OpenPage, TypeOK, Readable
    <3> QED BY <1>2, <3>1, <3>2
            DEF Page, SaveAnnotation, ArchiveAnnotation, Submit, Receive, Refresh,
                ShowError, Readable, Answered
  <2> QED BY <1>2, <2>1 DEF Seen, Tells, SnapshotOf
<1>3. ASSUME NEW c \in Calls, call'[c] # None
      PROVE  \/ /\ call[c] # None
                /\ call'[c].answer = call[c].answer /\ call'[c].expected = call[c].expected
                /\ call'[c].event = call[c].event /\ call'[c].seen = call[c].seen
             \/ \E b \in Browsers :
                  /\ view[b] # None /\ call'[c].answer = None
                  /\ call'[c].expected = view[b].revision
                  /\ call'[c].seen = view[b].annotations[call'[c].event]
  <2>1. CASE \E b \in Browsers : OpenPage(b)
    <3>1. \/ call'[c] = call[c]
          \/ call[c] # None /\ call'[c] = [call[c] EXCEPT !.page = FALSE]
      BY <1>3, <2>1 DEF OpenPage
    <3> QED BY <1>3, <3>1 DEF TypeOK, Call
  <2>2. CASE \E b \in Browsers, kind \in {"Save", "Archive"}, a \in Events,
               x \in Values \cup {None} : Submit(b, kind, a, x)
    BY <1>3, <2>2 DEF Submit, TypeOK
  <2>3. CASE \E d \in Calls : Receive(d) \/ Refresh(d) \/ ShowError(d)
    BY <1>3, <2>3 DEF Receive, Refresh, ShowError, TypeOK
  <2> QED BY <2>1, <2>2, <2>3 DEF Page, SaveAnnotation, ArchiveAnnotation
<1>4. ASSUME NEW c \in Calls, call'[c] # None, call'[c].answer # None,
             Tells(call'[c].answer, r, e, v)
      PROVE  Seen(r, e, v)
  BY <1>3, <1>4 DEF Seen
<1>5. ASSUME NEW c \in Calls, call'[c] # None,
             r = call'[c].expected, e = call'[c].event, v = call'[c].seen
      PROVE  Seen(r, e, v)
  BY <1>3, <1>5 DEF Seen, Tells
<1> QED BY <1>1, <1>2, <1>4, <1>5 DEF Seen

\* So does the server, but for a commit and a start.
LEMMA RepliesShow ==
  ASSUME TypeOK, NEW c \in Calls, call[c] # None, NEW status, NEW answer,
         Reply(c, status, answer), view' = view, NEW e \in Events, NEW r, NEW v,
         Seen(r, e, v)'
  PROVE  \/ memory' # None /\ Tells(memory', r, e, v)
         \/ answer # None /\ Tells(answer, r, e, v)
         \/ Seen(r, e, v)
<1>1. \A d \in Calls : call'[d] # None =>
        /\ call[d] # None
        /\ call'[d].expected = call[d].expected
        /\ call'[d].event = call[d].event /\ call'[d].seen = call[d].seen
        /\ call'[d].answer = call[d].answer \/ call'[d].answer = answer
  BY DEF Reply, TypeOK, Call
<1> QED BY <1>1 DEF Seen

LEMMA StepKeepsSeen ==
  ASSUME TypeOK, LockInv, SeenInv, Next
  PROVE  SeenInv'
<1>0. \A c \in Calls : c # None
  BY ReviewAssumption
<1>1. CASE Page
  <2>1. file' = file /\ memory' = memory
    BY <1>1 DEF Page, OpenPage, SaveAnnotation, ArchiveAnnotation, Submit, Receive, Refresh,
                ShowError, server
  <2> QED BY <1>1, <2>1, PagesSeeNothingNew, NothingNewIsSeen
<1>2. ASSUME NEW c \in Calls,
             \/ RejectStale(c) \/ RejectUnknown(c) \/ KeepSame(c)
             \/ WriteFails(c) \/ ReplaceFails(c) \/ Refuse(c)
      PROVE  SeenInv'
  <2>1. file' = file /\ memory' = memory /\ view' = view /\ call[c] # None
    BY <1>0, <1>2 DEF RejectStale, RejectUnknown, KeepSame, WriteFails, ReplaceFails, Refuse,
                Changing, Reached, Answered, LockInv, server
  <2>2. \E status : \/ Reply(c, status, None)
                    \/ memory # None /\ Reply(c, status, SnapshotOf(memory))
    BY <1>2 DEF RejectStale, RejectUnknown, KeepSame, WriteFails, ReplaceFails, Refuse,
                Reached, Readable
  <2>3. \A e \in Events : \A r, v : Seen(r, e, v)' => Seen(r, e, v)
    <3> SUFFICES ASSUME NEW e \in Events, NEW r, NEW v, Seen(r, e, v)' PROVE Seen(r, e, v)
      OBVIOUS
    <3>1. \/ memory' # None /\ Tells(memory', r, e, v)
          \/ memory # None /\ Tells(SnapshotOf(memory), r, e, v)
          \/ Seen(r, e, v)
      BY <2>1, <2>2, RepliesShow
    <3> QED BY <2>1, <3>1 DEF Seen, Tells, SnapshotOf
  <2> QED BY <2>1, <2>3, NothingNewIsSeen
<1>3. ASSUME NEW c \in Calls, Replace(c)
      PROVE  SeenInv'
  <2>1. /\ UNCHANGED <<memory, view, call>> /\ memory # None
        /\ file'.revision = memory.revision + 1
    BY <1>3 DEF Replace, Changing, Reached, Readable, NextState
  <2>2. memory.revision \in Nat
    BY <2>1 DEF TypeOK, State
  <2>3. \A e \in Events : \A r, v : Seen(r, e, v)' <=> Seen(r, e, v)
    BY <2>1 DEF Seen
  <2> HIDE DEF Seen
  <2> QED BY <2>1, <2>2, <2>3 DEF SeenInv
<1>4. ASSUME NEW c \in Calls, Commit(c)
      PROVE  SeenInv'
  <2>1. /\ file' = file /\ memory' = file /\ view' = view /\ call[c] # None
        /\ Reply(c, "Ok", SnapshotOf(file))
    BY <1>0, <1>4 DEF Commit, LockInv, Answered
  <2>2. \A e \in Events : \A r, v : Seen(r, e, v)' => Seen(r, e, v) \/ Tells(file, r, e, v)
    BY <2>1, RepliesShow DEF Tells, SnapshotOf
  <2> QED BY <2>1, <2>2, TheFileIsSeen
<1>5. CASE Start
  <2>1. \A e \in Events : \A r, v : Seen(r, e, v)' => Seen(r, e, v) \/ Tells(file, r, e, v)
    BY <1>5 DEF Start, Seen
  <2> QED BY <1>5, <2>1, TheFileIsSeen DEF Start
<1>6. CASE Stop
  <2>1. \A c \in Calls : call'[c] # None =>
          /\ call[c] # None /\ call'[c].answer = call[c].answer
          /\ call'[c].expected = call[c].expected
          /\ call'[c].event = call[c].event /\ call'[c].seen = call[c].seen
    BY <1>6 DEF Stop, Answered, TypeOK, Call
  <2>2. \A e \in Events : \A r, v : Seen(r, e, v)' => Seen(r, e, v)
    BY <1>6, <2>1 DEF Stop, Seen
  <2> QED BY <1>6, <2>2, NothingNewIsSeen DEF Stop
<1> QED BY <1>1, <1>2, <1>3, <1>4, <1>5, <1>6 DEF Next, Handle

-----------------------------------------------------------------------------
(* What was saved. *)

\* A page was told, or an answer tells it, that the value is saved.
Promised(e, v) ==
  \/ <<e, v>> \in saved
  \/ \E c \in Calls : /\ call[c] # None /\ call[c].status = "Ok" /\ call[c].kind = "Save"
                      /\ call[c].event = e /\ call[c].value = v

\* The file has all that the server has, and both have what was promised.
SavedInv ==
  \A e \in Events, v \in Values :
    /\ memory # None /\ Kept(memory, e, v) => Kept(file, e, v)
    /\ Promised(e, v) => Kept(file, e, v) /\ (memory # None => Kept(memory, e, v))

\* A change keeps in the history what it replaces.
LEMMA ChangesKeep ==
  ASSUME TypeOK, NEW c \in Calls, Changing(c), NEW e \in Events, NEW v \in Values,
         Kept(memory, e, v)
  PROVE  Kept(NextState(c), e, v)
<1>1. /\ call[c].event \in Events /\ v # None
      /\ memory.annotations \in [Events -> Values \cup {None}]
  BY ReviewAssumption DEF TypeOK, Changing, Reached, Readable, Answered, Call, State, Annotations
<1>2. CASE memory.annotations[e] = v /\ e = call[c].event
  <2>1. PICK entry \in Superseded(c) : entry.event = e /\ entry.value = v
    BY <1>1, <1>2 DEF Superseded, Current
  <2> QED BY <2>1 DEF Kept, NextState
<1>3. CASE memory.annotations[e] = v /\ e # call[c].event
  BY <1>1, <1>3 DEF Kept, NextState
<1>4. CASE \E entry \in memory.history : entry.event = e /\ entry.value = v
  BY <1>4 DEF Kept, NextState
<1> QED BY <1>2, <1>3, <1>4 DEF Kept

\* Nothing is promised but what is kept already.
LEMMA NothingNewIsPromised ==
  ASSUME SavedInv, file' = file,
         memory' = memory \/ memory' = None \/ memory' = file,
         \A e \in Events, v \in Values :
           Promised(e, v)' =>
             \/ Promised(e, v)
             \/ Kept(file, e, v) /\ (memory' # None => Kept(memory', e, v))
  PROVE  SavedInv'
<1> HIDE DEF Promised
<1>1. \A s, e, v : Kept(s, e, v)' = Kept(s, e, v)
  BY DEF Kept
<1> SUFFICES ASSUME NEW e \in Events, NEW v \in Values
             PROVE  /\ memory' # None /\ Kept(memory', e, v) => Kept(file', e, v)
                    /\ Promised(e, v)' =>
                         Kept(file', e, v) /\ (memory' # None => Kept(memory', e, v))
  BY DEF SavedInv, Kept
<1>2. /\ memory # None /\ Kept(memory, e, v) => Kept(file, e, v)
      /\ Promised(e, v) => Kept(file, e, v) /\ (memory # None => Kept(memory, e, v))
  BY DEF SavedInv
<1> HIDE DEF Kept
<1> QED BY <1>2

LEMMA PagesPromiseNothing ==
  ASSUME TypeOK, Page
  PROVE  \A e \in Events, v \in Values : Promised(e, v)' => Promised(e, v)
<1> SUFFICES ASSUME NEW e \in Events, NEW v \in Values, Promised(e, v)' PROVE Promised(e, v)
  OBVIOUS
<1>1. CASE \E b \in Browsers : OpenPage(b)
  <2>1. \A c \in Calls : \/ call'[c] = call[c]
                         \/ call'[c] = None
                         \/ call[c] # None /\ call'[c] = [call[c] EXCEPT !.page = FALSE]
    BY <1>1 DEF OpenPage
  <2>2. ASSUME NEW c \in Calls, call'[c] # None
        PROVE  /\ call[c] # None /\ call'[c].status = call[c].status
               /\ call'[c].kind = call[c].kind
               /\ call'[c].event = call[c].event /\ call'[c].value = call[c].value
    <3>1. CASE call'[c] = call[c]
      BY <2>2, <3>1
    <3>2. CASE call[c] # None /\ call'[c] = [call[c] EXCEPT !.page = FALSE]
      <4>1. call[c] \in Call
        BY <3>2 DEF TypeOK
      <4> QED BY <3>2, <4>1 DEF Call
    <3> QED BY <2>1, <2>2, <3>1, <3>2
  <2> QED BY <1>1, <2>2 DEF Promised, OpenPage
<1>2. CASE \E b \in Browsers, kind \in {"Save", "Archive"}, a \in Events,
             x \in Values \cup {None} : Submit(b, kind, a, x)
  <2>1. \A c \in Calls : call'[c] = call[c] \/ call'[c].status = "Waiting"
    BY <1>2 DEF Submit, TypeOK
  <2> QED BY <1>2, <2>1 DEF Promised, Submit
<1>3. CASE \E c \in Calls : Receive(c) \/ Refresh(c) \/ ShowError(c)
  <2>1. PICK c \in Calls : Receive(c) \/ Refresh(c) \/ ShowError(c)
    BY <1>3
  <2>2. /\ \A d \in Calls : call'[d] = call[d] \/ call'[d] = None
        /\ \/ saved' = saved
           \/ /\ Answered(c, "Ok") /\ call[c].kind = "Save"
              /\ saved' = saved \cup {<<call[c].event, call[c].value>>}
    BY <2>1 DEF Receive, Refresh, ShowError, TypeOK
  <2> QED BY <2>2 DEF Promised, Answered
<1> QED BY <1>1, <1>2, <1>3 DEF Page, SaveAnnotation, ArchiveAnnotation

\* A reply promises at most its own call's value.
LEMMA RepliesPromise ==
  ASSUME TypeOK, NEW c \in Calls, call[c] # None, NEW status, NEW answer,
         Reply(c, status, answer), saved' = saved, NEW e, NEW v, Promised(e, v)'
  PROVE  \/ Promised(e, v)
         \/ /\ status = "Ok" /\ call[c].kind = "Save"
            /\ call[c].event = e /\ call[c].value = v
<1>1. \A d \in Calls : call'[d] # None =>
        /\ call[d] # None
        /\ call'[d].kind = call[d].kind /\ call'[d].event = call[d].event
        /\ call'[d].value = call[d].value
        /\ \/ call'[d].status = call[d].status
           \/ d = c /\ call'[d].status = status
  BY DEF Reply, TypeOK, Call
<1> QED BY <1>1 DEF Promised

LEMMA StepKeepsSaved ==
  ASSUME TypeOK, LockInv, SavedInv, Next
  PROVE  SavedInv'
<1>0. \A c \in Calls : c # None
  BY ReviewAssumption
<1>1. CASE Page
  <2>1. file' = file /\ memory' = memory
    BY <1>1 DEF Page, OpenPage, SaveAnnotation, ArchiveAnnotation, Submit, Receive, Refresh,
                ShowError, server
  <2> QED BY <1>1, <2>1, PagesPromiseNothing, NothingNewIsPromised
<1>2. ASSUME NEW c \in Calls,
             RejectStale(c) \/ RejectUnknown(c) \/ WriteFails(c) \/ ReplaceFails(c) \/ Refuse(c)
      PROVE  SavedInv'
  <2>1. /\ file' = file /\ memory' = memory /\ saved' = saved /\ call[c] # None
        /\ Reply(c, "Conflict", None) \/ Reply(c, "Error", None)
    BY <1>0, <1>2 DEF RejectStale, RejectUnknown, WriteFails, ReplaceFails, Refuse,
                Changing, Reached, Answered, LockInv, server
  <2>2. \A e \in Events, v \in Values : Promised(e, v)' => Promised(e, v)
    BY <2>1, RepliesPromise
  <2> QED BY <2>1, <2>2, NothingNewIsPromised
<1>3. ASSUME NEW c \in Calls, KeepSame(c)
      PROVE  SavedInv'
  <2>1. /\ file' = file /\ memory' = memory /\ saved' = saved /\ call[c] # None
        /\ Reply(c, "Ok", SnapshotOf(memory)) /\ memory # None
        /\ memory.annotations[call[c].event] = call[c].value
    BY <1>3 DEF KeepSame, Same, Current, Reached, Readable, Answered, server
  <2>2. ASSUME NEW e \in Events, NEW v \in Values, Promised(e, v)'
        PROVE  \/ Promised(e, v)
               \/ Kept(file, e, v) /\ Kept(memory, e, v)
    <3>1. Promised(e, v) \/ (call[c].event = e /\ call[c].value = v)
      BY <2>1, <2>2, RepliesPromise
    <3>2. call[c].event = e /\ call[c].value = v => Kept(memory, e, v)
      BY <2>1 DEF Kept
    <3> QED BY <2>1, <3>1, <3>2 DEF SavedInv
  <2> QED BY <2>1, <2>2, NothingNewIsPromised
<1>4. ASSUME NEW c \in Calls, Commit(c)
      PROVE  SavedInv'
  <2>1. /\ file' = file /\ memory' = file /\ saved' = saved /\ call[c] # None
        /\ Reply(c, "Ok", SnapshotOf(file))
        /\ file.annotations[call[c].event] = call[c].value
    BY <1>0, <1>4 DEF Commit, LockInv, Answered
  <2>2. ASSUME NEW e \in Events, NEW v \in Values, Promised(e, v)'
        PROVE  Promised(e, v) \/ Kept(file, e, v)
    <3>1. Promised(e, v) \/ (call[c].event = e /\ call[c].value = v)
      BY <2>1, <2>2, RepliesPromise
    <3> QED BY <2>1, <3>1 DEF Kept
  <2> QED BY <2>1, <2>2, NothingNewIsPromised
<1>5. ASSUME NEW c \in Calls, Replace(c)
      PROVE  SavedInv'
  <2>1. /\ memory' = memory /\ memory # None /\ call' = call /\ saved' = saved
        /\ Changing(c) /\ file' = NextState(c)
    BY <1>5 DEF Replace, Changing, Reached, Readable
  <2>2. \A e \in Events, v \in Values :
          /\ Kept(memory, e, v) => Kept(file', e, v)
          /\ Promised(e, v)' <=> Promised(e, v)
    BY <2>1, ChangesKeep DEF Promised
  <2> QED BY <2>1, <2>2 DEF SavedInv, Kept
<1>6. CASE Stop \/ Start
  <2>1. \A c \in Calls : call'[c] # None =>
          \/ call'[c] = call[c]
          \/ call[c] # None /\ call'[c].status = "Error"
    BY <1>6 DEF Stop, Start, Answered, TypeOK, Call
  <2>2. \A e \in Events, v \in Values : Promised(e, v)' => Promised(e, v)
    BY <1>6, <2>1 DEF Stop, Start, Promised
  <2> QED BY <1>6, <2>2, NothingNewIsPromised DEF Stop, Start
<1> QED BY <1>1, <1>2, <1>3, <1>4, <1>5, <1>6 DEF Next, Handle

-----------------------------------------------------------------------------
(* The theorems. *)

IInv == TypeOK /\ LockInv /\ SeenInv /\ SavedInv

LEMMA InitIInv == Init => IInv
<1> SUFFICES ASSUME Init PROVE IInv
  OBVIOUS
<1>1. LockInv
  BY DEF Init, LockInv
<1>2. \A e, r, v : ~Seen(r, e, v)
  BY DEF Init, Seen
<1>3. \A e, v : ~Promised(e, v)
  BY DEF Init, Promised
<1>4. memory = None
  BY DEF Init
<1>5. SeenInv /\ SavedInv
  BY <1>2, <1>3, <1>4 DEF SeenInv, SavedInv
<1> QED BY <1>1, <1>5, InitTyped DEF IInv

LEMMA StepKeepsIInv == IInv /\ [Next]_vars => IInv'
<1> SUFFICES ASSUME IInv, [Next]_vars PROVE IInv'
  OBVIOUS
<1>1. TypeOK' /\ LockInv'
  BY StepKeepsTypes DEF IInv
<1>2. CASE Next
  BY <1>1, <1>2, StepKeepsSeen, StepKeepsSaved DEF IInv
<1>3. CASE UNCHANGED vars
  <2>1. /\ \A r, e, v : Seen(r, e, v)' <=> Seen(r, e, v)
        /\ \A e, v : Promised(e, v)' <=> Promised(e, v)
        /\ file' = file /\ memory' = memory
    BY <1>3 DEF vars, server, Seen, Promised
  <2>2. SeenInv'
    <3> HIDE DEF Seen
    <3> QED BY <2>1 DEF IInv, SeenInv
  <2>3. SavedInv'
    BY <2>1 DEF IInv, SavedInv, Kept
  <2> QED BY <1>1, <2>2, <2>3 DEF IInv
<1> QED BY <1>1, <1>2, <1>3

LEMMA IInvHolds == Spec => []IInv
BY InitIInv, StepKeepsIInv, PTL DEF Spec

\* Whatever the pages send, the file, the server and every page hold states of
\* their kind, and a save has a value (AnnotationStore).
THEOREM StoreIsTyped == Spec => []TypeOK
BY IInvHolds, PTL DEF IInv

\* Two who are at the same revision see the same annotations: the number that a
\* save is checked against stands for what its page saw, over failed writes and
\* restarts (AnnotationStore._check_revision).
THEOREM ARevisionNamesOneState == Spec => []RevisionNamesOneState
<1>1. IInv => RevisionNamesOneState
  <2> SUFFICES ASSUME IInv, NEW s \in Shown \ {None}, NEW t \in Shown \ {None},
                      s.revision = t.revision
               PROVE  s.annotations = t.annotations
    BY DEF RevisionNamesOneState
  <2>1. ASSUME NEW x \in Shown \ {None}
        PROVE  /\ x.annotations \in [Events -> Values \cup {None}]
               /\ \A e \in Events : Seen(x.revision, e, x.annotations[e])
    <3>1. CASE \E b \in Browsers : x = view[b]
      BY <2>1, <3>1 DEF IInv, TypeOK, Seen, Tells, Snapshot, Annotations
    <3>2. CASE \E c \in Calls : call[c] # None /\ x = call[c].answer
      BY <2>1, <3>2 DEF IInv, TypeOK, Call, Seen, Tells, Snapshot, Annotations
    <3>3. CASE memory # None /\ x = SnapshotOf(memory)
      BY <3>3 DEF IInv, TypeOK, State, Seen, Tells, SnapshotOf, Annotations
    <3> QED BY <2>1, <3>1, <3>2, <3>3 DEF Shown
  <2>2. \A e \in Events : s.annotations[e] = t.annotations[e]
    <3> HIDE DEF Seen
    <3> QED BY <2>1 DEF IInv, SeenInv
  <2> QED BY <2>1, <2>2
<1> QED BY <1>1, IInvHolds, PTL

\* What a page was told is saved is in the file and in the server, as the value
\* of now or in the history (AnnotationStore.upsert, archive).
THEOREM WhatIsSavedIsKept == Spec => []SavedIsKept
<1>1. IInv => SavedIsKept
  <2> SUFFICES ASSUME IInv, NEW pair \in saved
               PROVE  /\ Kept(file, pair[1], pair[2])
                      /\ memory # None => Kept(memory, pair[1], pair[2])
    BY DEF SavedIsKept
  <2>1. /\ pair = <<pair[1], pair[2]>> /\ pair[1] \in Events /\ pair[2] \in Values
    BY DEF IInv, TypeOK
  <2>2. Promised(pair[1], pair[2])
    BY <2>1 DEF Promised
  <2> QED BY <2>1, <2>2 DEF IInv, SavedInv
<1> QED BY <1>1, IInvHolds, PTL

\* A change is only made to the value that its page showed (AnnotationStore.
\* _check_revision): no reviewer writes over a value without having seen it.
THEOREM NothingIsOverwrittenUnseen == Spec => OverwritesAreSeen
<1> DEFINE Taking == \A c \in Calls : lock # c /\ lock' = c => call[c].seen = Current(c)
<1>1. IInv /\ [Next]_vars => [Taking]_vars
  <2> SUFFICES ASSUME IInv, Next, NEW c \in Calls, lock # c, lock' = c
               PROVE  call[c].seen = Current(c)
    OBVIOUS
  <2>1. c # None
    BY ReviewAssumption
  <2>2. Replace(c)
    BY <2>1 DEF Next, Handle, Page, OpenPage, SaveAnnotation, ArchiveAnnotation, Submit,
                Receive, Refresh, ShowError, Stop, Start, RejectStale, RejectUnknown, KeepSame,
                Replace, Commit, WriteFails, ReplaceFails, Refuse, server
  <2>3. /\ memory # None /\ call[c] # None /\ call[c].expected = memory.revision
    BY <2>2 DEF Replace, Changing, Reached, Readable, Answered, Checked
  <2>4. call[c].event \in Events
    BY <2>3 DEF IInv, TypeOK, Call
  <2>5. /\ Seen(memory.revision, call[c].event, Current(c))
        /\ Seen(memory.revision, call[c].event, call[c].seen)
    BY <2>3 DEF Seen, Tells, Current
  <2> HIDE DEF Seen
  <2> QED BY <2>4, <2>5 DEF IInv, SeenInv
<1> QED BY <1>1, IInvHolds, PTL DEF Spec, OverwritesAreSeen
=============================================================================
