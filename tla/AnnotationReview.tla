--------------------------- MODULE AnnotationReview ---------------------------
(***************************************************************************)
(* Browsers that annotate recordings through the local review server:      *)
(* the revisioned store of review/.../storage.py, the request handler of   *)
(* server.py, one thread per request, and the page of web/app.js.          *)
(*                                                                         *)
(* An annotation is its event id and one value for everything else.  The   *)
(* form is not modelled: a loaded page, or a script using its requests,    *)
(* may submit anything at any time, also while it waits for an answer.     *)
(* Validation of a request's shape and origin comes before the store is    *)
(* touched and is left out.                                                *)
(***************************************************************************)
EXTENDS Integers, FiniteSets

CONSTANTS
  None,
  Browsers, Events, Values,
  MaxRevision,           \* bound on the saves considered
  MaxPending,            \* answers a page waits for at once
  WriteErrors,           \* _atomic_write may raise, before or after its replace
  Restarts               \* the server may be killed and started again

Annotations == [Events -> Values \cup {None}]          \* event_id -> the rest
Entry == [event : Events, value : Values, reason : {"updated", "archived"}, at : Nat]
State == [annotations : Annotations, history : SUBSET Entry, revision : Nat]
Snapshot == [annotations : Annotations, revision : Nat]

Calls == Browsers \X (1..MaxPending)
Call ==
  [kind : {"Save", "Archive"}, event : Events, value : Values \cup {None},
   expected : Nat, status : {"Waiting", "Ok", "Conflict", "Error"},
   answer : Snapshot \cup {None},
   page : BOOLEAN,       \* the page that sent it is still open
   seen : Values \cup {None}]  \* history: the value that page showed

ASSUME ReviewAssumption ==
  /\ MaxRevision \in Nat /\ MaxPending \in Nat \ {0}
  /\ WriteErrors \in BOOLEAN /\ Restarts \in BOOLEAN
  /\ None \notin Values /\ None \notin Calls /\ None \notin Call

VARIABLES
  file,                  \* the annotation file
  memory,                \* AnnotationStore._state, None while no server runs
  lock,                  \* the call between its replace and its new _state, or None
  view,                  \* view[b]: the page's store, None until it is loaded
  call,                  \* call[c]: a request and its answer, None when over
  saved                  \* history: the annotations a page was told are saved

server == <<file, memory, lock>>
vars == <<server, view, call, saved>>

Empty == [annotations |-> [e \in Events |-> None], history |-> {}, revision |-> 0]
SnapshotOf(state) == [annotations |-> state.annotations, revision |-> state.revision]

-----------------------------------------------------------------------------
\* The page.

\* GET /api/annotations waits for a save to finish.  It is answered at once: a
\* late answer is an old view, which a page may have anyway.
Readable == memory # None /\ lock = None

\* A page is opened or reloaded: what the old one waited for is still handled,
\* and nobody reads the answer.
OpenPage(b) ==
  /\ view' = [view EXCEPT ![b] = IF Readable THEN SnapshotOf(memory) ELSE None]
  /\ call' = [c \in Calls |->
                IF c[1] # b \/ call[c] = None THEN call[c]
                ELSE IF call[c].status = "Waiting" THEN [call[c] EXCEPT !.page = FALSE]
                ELSE None]
  /\ UNCHANGED <<server, saved>>

Submit(b, kind, e, v) ==
  /\ view[b] # None
  /\ \E i \in 1..MaxPending :
       /\ call[<<b, i>>] = None
       /\ call' = [call EXCEPT ![<<b, i>>] =
                     [kind |-> kind, event |-> e, value |-> v,
                      expected |-> view[b].revision, status |-> "Waiting",
                      answer |-> None, page |-> TRUE, seen |-> view[b].annotations[e]]]
  /\ UNCHANGED <<server, view, saved>>

SaveAnnotation(b, e, v) == Submit(b, "Save", e, v)

\* A page shows a button for what exists; a script may name any event.
ArchiveAnnotation(b, e) == Submit(b, "Archive", e, None)

Answered(c, status) == call[c] # None /\ call[c].status = status

\* The answer to any call that succeeds replaces the page's store, whichever
\* answers overtook it.
Receive(c) ==
  /\ Answered(c, "Ok")
  /\ view' = IF call[c].page THEN [view EXCEPT ![c[1]] = call[c].answer] ELSE view
  /\ call' = [call EXCEPT ![c] = None]
  /\ saved' = IF call[c].page /\ call[c].kind = "Save"
              THEN saved \cup {<<call[c].event, call[c].value>>} ELSE saved
  /\ UNCHANGED server

\* A conflict makes the page fetch the annotations before it shows the error.
Refresh(c) ==
  /\ Answered(c, "Conflict")
  /\ view' = IF call[c].page /\ Readable THEN [view EXCEPT ![c[1]] = SnapshotOf(memory)]
             ELSE view
  /\ call' = [call EXCEPT ![c] = None]
  /\ UNCHANGED <<server, saved>>

ShowError(c) ==
  /\ Answered(c, "Error")
  /\ call' = [call EXCEPT ![c] = None]
  /\ UNCHANGED <<server, view, saved>>

-----------------------------------------------------------------------------
\* The server.  Every access takes the store's lock; a save holds it while it
\* writes, so only two moments of a save can be told apart from outside.

Reached(c) == Readable /\ Answered(c, "Waiting")

Reply(c, status, answer) ==
  call' = [call EXCEPT ![c].status = status, ![c].answer = answer]

Unchecked(c) == TRUE                       \* slip: the revision is not checked
Checked(c) == call[c].expected = memory.revision

RejectStale(c) ==
  /\ Reached(c) /\ ~Checked(c)
  /\ Reply(c, "Conflict", None)
  /\ UNCHANGED <<server, view, saved>>

Current(c) == memory.annotations[call[c].event]

RejectUnknown(c) ==
  /\ Reached(c) /\ call[c].kind = "Archive" /\ Checked(c)
  /\ Current(c) = None
  /\ Reply(c, "Error", None)
  /\ UNCHANGED <<server, view, saved>>

Same(c) == call[c].kind = "Save" /\ Current(c) = call[c].value

KeepSame(c) ==
  /\ Reached(c) /\ Checked(c) /\ Same(c)
  /\ Reply(c, "Ok", SnapshotOf(memory))
  /\ UNCHANGED <<server, view, saved>>

Changing(c) ==
  /\ Reached(c) /\ Checked(c) /\ ~Same(c)
  /\ call[c].kind = "Archive" => Current(c) # None

ArchivedOnly(c) ==                         \* slip: an update keeps no history
  IF call[c].kind = "Save" THEN {}
  ELSE {[event |-> call[c].event, value |-> Current(c), reason |-> "archived",
         at |-> memory.revision + 1]}

Superseded(c) ==
  IF Current(c) = None THEN {}
  ELSE {[event |-> call[c].event, value |-> Current(c),
         reason |-> IF call[c].kind = "Save" THEN "updated" ELSE "archived",
         at |-> memory.revision + 1]}

\* upsert and archive: the state to persist.
NextState(c) ==
  [annotations |-> [memory.annotations EXCEPT ![call[c].event] = call[c].value],
   history |-> memory.history \cup Superseded(c),
   revision |-> memory.revision + 1]

Replace(c) ==
  /\ Changing(c) /\ memory.revision < MaxRevision
  /\ lock' = c /\ file' = NextState(c)
  /\ UNCHANGED <<memory, view, call, saved>>

Commit(c) ==
  /\ lock = c
  /\ lock' = None /\ memory' = file
  /\ Reply(c, "Ok", SnapshotOf(file))
  /\ UNCHANGED <<file, view, saved>>

FailAfterState(c) ==                       \* slip: _state is set before the file
  /\ WriteErrors /\ Changing(c) /\ memory.revision < MaxRevision
  /\ memory' = NextState(c)
  /\ Reply(c, "Error", None)
  /\ UNCHANGED <<file, lock, view, saved>>

\* An OSError leaves do_POST, the connection closes and the page sees an error.
WriteFails(c) ==
  /\ WriteErrors /\ Changing(c)
  /\ Reply(c, "Error", None)
  /\ UNCHANGED <<server, view, saved>>

\* chmod raised: the new file is in place and the old _state stays.
ReplaceFails(c) ==
  /\ WriteErrors /\ lock = c
  /\ lock' = None
  /\ Reply(c, "Error", None)
  /\ UNCHANGED <<file, memory, view, saved>>

\* The server is killed, between the replace and the new _state too.
Stop ==
  /\ Restarts /\ memory # None
  /\ memory' = None /\ lock' = None
  /\ call' = [c \in Calls |->
                IF Answered(c, "Waiting") THEN [call[c] EXCEPT !.status = "Error"]
                ELSE call[c]]
  /\ UNCHANGED <<file, view, saved>>

Start ==
  /\ memory = None /\ memory' = file
  /\ UNCHANGED <<file, lock, view, call, saved>>

Refuse(c) ==
  /\ memory = None /\ Answered(c, "Waiting")
  /\ Reply(c, "Error", None)
  /\ UNCHANGED <<server, view, saved>>

-----------------------------------------------------------------------------
Init ==
  /\ file = Empty /\ memory = None /\ lock = None
  /\ view = [b \in Browsers |-> None]
  /\ call = [c \in Calls |-> None]
  /\ saved = {}

Page ==
  \/ \E b \in Browsers : OpenPage(b)
  \/ \E b \in Browsers, e \in Events, v \in Values : SaveAnnotation(b, e, v)
  \/ \E b \in Browsers, e \in Events : ArchiveAnnotation(b, e)
  \/ \E c \in Calls : Receive(c) \/ Refresh(c) \/ ShowError(c)

Handle(c) ==
  \/ RejectStale(c) \/ RejectUnknown(c) \/ KeepSame(c)
  \/ Replace(c) \/ Commit(c) \/ WriteFails(c) \/ ReplaceFails(c) \/ Refuse(c)

Next == Page \/ (\E c \in Calls : Handle(c)) \/ Stop \/ Start

Spec == Init /\ [][Next]_vars

-----------------------------------------------------------------------------
\* What reviewers rely on.

\* What the file, the server, the pages and their calls may hold; a save has a
\* value.
TypeOK ==
  /\ file \in State /\ memory \in State \cup {None}
  /\ lock \in Calls \cup {None}
  /\ view \in [Browsers -> Snapshot \cup {None}]
  /\ call \in [Calls -> Call \cup {None}]
  /\ saved \subseteq Events \X Values
  /\ \A c \in Calls : call[c] # None /\ call[c].kind = "Save" => call[c].value # None

Shown ==
  {view[b] : b \in Browsers} \cup {call[c].answer : c \in {d \in Calls : call[d] # None}}
    \cup (IF memory = None THEN {} ELSE {SnapshotOf(memory)})

\* A revision names one state: pages, answers and server that hold the same
\* revision hold the same annotations, over failed writes and restarts, so the
\* revision check compares what the page really saw (storage.py:157-168).
RevisionNamesOneState ==
  \A s, t \in Shown \ {None} :
    s.revision = t.revision => s.annotations = t.annotations

Kept(state, e, v) ==
  \/ state.annotations[e] = v
  \/ \E entry \in state.history : entry.event = e /\ entry.value = v

\* What a page was told is saved is current or in the history, in the file and
\* in the server (storage.py:173-237): racing pages lose nothing.
SavedIsKept ==
  \A pair \in saved :
    /\ Kept(file, pair[1], pair[2])
    /\ memory # None => Kept(memory, pair[1], pair[2])

\* A change is applied only to the value its page showed: no page overwrites or
\* archives what another one saved in between (README:82-83, storage.py:157-168).
OverwritesAreSeen ==
  [][\A c \in Calls : lock # c /\ lock' = c => call[c].seen = Current(c)]_vars
=============================================================================
