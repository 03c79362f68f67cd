------------------------------ MODULE RunDocs ------------------------------
(***************************************************************************)
(* The stored document of one InvestigationRun and its event sequence      *)
(* (investigation/store.py, investigation/events.py), written by several   *)
(* processes: the service, and the PreToolUse hooks, which run on the      *)
(* agent server, one process per tool call.  The storage is Redis: each    *)
(* storage call is atomic, a read-modify-write of two calls is not.  An    *)
(* action of this module ends with one storage call; the code before it    *)
(* that only computes belongs to it.                                       *)
(*                                                                         *)
(* A writer runs one operation at a time, since the operations are         *)
(* synchronous: the service runs them on its event loop, and a hook is one *)
(* thread.  An operation saves the document and then appends events; each  *)
(* append ends with a save of its own, by bump_event_stats().  The two     *)
(* zadd of _save(), to the indexes by user and by chat, only order         *)
(* listings and are left out.                                              *)
(***************************************************************************)
EXTENDS RunStatus, FiniteSets, Naturals, Sequences

CONSTANTS Service,    \* the service process
          Hooks,      \* hook processes
          MaxSeq,     \* bound on the events appended to the run: the last append stops there
          MaxCrashes  \* bound on the crashes of the service and of hooks

ASSUME ConstantsAssumption ==
    /\ Service \notin Hooks
    /\ IsFiniteSet(Hooks)
    /\ MaxSeq \in Nat
    /\ MaxCrashes \in Nat

VARIABLES
    \* in storage
    doc,       \* the JSON document: status, started_at and finished_at set, event_count
    counter,   \* the Redis counter of _next_seq()
    visible,   \* the events in the index of the run, with their documents
    \* in the memory of a writer
    pc,        \* the storage call it does next
    snap,      \* the document it has read and changed
    todo,      \* types of the events its operation has still to append
    seq,       \* the sequence number it has drawn
    \* observation only
    stale,     \* writers whose document was overwritten by another since they read it
    lost,      \* a stale writer has saved: a change of another was undone
    crashes

writer == <<pc, snap, todo, seq>>
vars   == <<doc, counter, visible, writer, stale, lost, crashes>>

Writers == {Service} \cup Hooks

EventTypes == {"run_created", "run_status_changed", "run_completed", "other"}

Docs == [status : Statuses, started : BOOLEAN, finished : BOOLEAN, count : Nat]

NoDoc == [status |-> "none", started |-> FALSE, finished |-> FALSE, count |-> 0]

Calls == {"idle",   \* between two operations
          "save",   \* set_json() of _save(), for a new status or conversation
          "incr",   \* incr() of _next_seq()
          "index",  \* set_json() and zadd() of append(); the event shows with the zadd
          "read",   \* get_json() of bump_event_stats()
          "bump"}   \* set_json() of _save(), for bump_event_stats()

\* The calls that write a document read before.
Saving == {"save", "bump"}

TypeOK ==
    /\ doc \in Docs
    /\ counter \in 0..MaxSeq
    /\ visible \subseteq [seq : 1..MaxSeq, type : EventTypes, by : Writers]
    /\ pc \in [Writers -> Calls]
    /\ snap \in [Writers -> Docs]
    /\ todo \in [Writers -> Seq(EventTypes)]
    /\ seq \in [Writers -> 0..MaxSeq]
    /\ stale \subseteq Writers
    /\ lost \in BOOLEAN
    /\ crashes \in 0..MaxCrashes

Init ==
    /\ doc = NoDoc
    /\ counter = 0
    /\ visible = {}
    /\ pc = [w \in Writers |-> "idle"]
    /\ snap = [w \in Writers |-> NoDoc]
    /\ todo = [w \in Writers |-> <<>>]
    /\ seq = [w \in Writers |-> 0]
    /\ stale = {}
    /\ lost = FALSE
    /\ crashes = 0
-----------------------------------------------------------------------------
(***************************************************************************)
(* The operations.                                                         *)
(***************************************************************************)

\* Writer w begins an operation that saves d and then appends events of types es.
Saves(w, d, es) ==
    /\ pc' = [pc EXCEPT ![w] = "save"]
    /\ snap' = [snap EXCEPT ![w] = d]
    /\ todo' = [todo EXCEPT ![w] = es]
    /\ stale' = stale \ {w}
    /\ UNCHANGED <<doc, counter, visible, seq, lost>>

\* create_run() and record_run_created_event().
CreateRun ==
    /\ pc[Service] = "idle"
    /\ doc = NoDoc
    /\ Saves(Service, [NoDoc EXCEPT !.status = "created"], <<"run_created">>)
    /\ UNCHANGED crashes

\* A fault: transition() forgets finished_at.
ChangedToMutantFinished(d, to) ==
    [d EXCEPT !.status = to, !.started = @ \/ to = "running"]

\* The fields transition() changes.
ChangedTo(d, to) ==
    [d EXCEPT !.status = to,
              !.started = @ \/ to = "running",
              !.finished = @ \/ to \in Terminal]

\* What transition() appends after the save.
StatusEvents(to) ==
    IF to \in Terminal THEN <<"run_status_changed", "run_completed">>
                       ELSE <<"run_status_changed">>

\* A fault: the change is not validated.
TransitionMutant(w, to, es) ==
    /\ pc[w] = "idle"
    /\ doc.status # "none"
    /\ Saves(w, ChangedTo(doc, to), es)

\* transition(): get_run(), validate_transition(), change; the save is the next call.
Transition(w, to, es) ==
    /\ pc[w] = "idle"
    /\ CanTransition(doc.status, to)
    /\ Saves(w, ChangedTo(doc, to), es)

\* A task of the service moves the run: begin_investigation_run(), the ends of
\* _execute(), the resume after an approval, a rejection or a cancellation.  A run is
\* started in the stretch of code that creates it.
ServiceTransition(to) ==
    /\ doc.status = "created" => to = "running"
    /\ Transition(Service, to, StatusEvents(to))
    /\ UNCHANGED crashes

\* The engine works for the run: only once begin_investigation_run() has returned, with
\* the creation and the start stored, recorded and counted.
EngineStarted == doc.started /\ doc.count >= 2

\* mark_run_waiting_approval() in a hook: it skips the transition when it is not
\* allowed.
HookTransition(h) ==
    /\ EngineStarted
    /\ Transition(h, "waiting_approval", StatusEvents("waiting_approval"))
    /\ UNCHANGED crashes

\* set_oh_conversation_id(), by the task of a run whose engine has a conversation: every
\* field of the document that is modelled is written back as it was read.
SetConversation ==
    /\ pc[Service] = "idle"
    /\ EngineStarted
    /\ Saves(Service, doc, <<>>)
    /\ UNCHANGED crashes

\* RunEventStore.append() on its own: the engine records what the agent does, the
\* governance gate records its decisions.
AppendEvent(w) ==
    /\ pc[w] = "idle"
    /\ EngineStarted
    /\ pc' = [pc EXCEPT ![w] = "incr"]
    /\ todo' = [todo EXCEPT ![w] = <<"other">>]
    /\ UNCHANGED <<doc, counter, visible, snap, seq, stale, lost, crashes>>
-----------------------------------------------------------------------------
(***************************************************************************)
(* The storage calls of an operation.                                      *)
(***************************************************************************)

\* Where an operation goes on after a save: the next append, or the end.
AfterSave(es) == IF es = <<>> THEN "idle" ELSE "incr"

\* _save(): the whole document is written, whatever it has become meanwhile.
Save(w) ==
    /\ pc[w] \in Saving
    /\ doc' = snap[w]
    /\ pc' = [pc EXCEPT ![w] = AfterSave(todo[w])]
    /\ stale' = (stale \ {w}) \cup {v \in Writers \ {w} : pc[v] \in Saving}
    /\ lost' = (lost \/ w \in stale)
    /\ UNCHANGED <<counter, visible, snap, todo, seq, crashes>>

\* A fault: the number comes from the events listed so far.
NextSeqMutant(w) ==
    /\ pc[w] = "incr"
    /\ counter < MaxSeq
    /\ counter' = Cardinality(visible) + 1
    /\ seq' = [seq EXCEPT ![w] = counter']
    /\ pc' = [pc EXCEPT ![w] = "index"]
    /\ UNCHANGED <<doc, visible, snap, todo, stale, lost, crashes>>

\* _next_seq(): INCR.
NextSeq(w) ==
    /\ pc[w] = "incr"
    /\ counter < MaxSeq
    /\ counter' = counter + 1
    /\ seq' = [seq EXCEPT ![w] = counter']
    /\ pc' = [pc EXCEPT ![w] = "index"]
    /\ UNCHANGED <<doc, visible, snap, todo, stale, lost, crashes>>

\* A fault: the append ends with the listing, and the event is not counted.
IndexMutantCount(w) ==
    /\ pc[w] = "index"
    /\ visible' = visible \cup {[seq |-> seq[w], type |-> Head(todo[w]), by |-> w]}
    /\ todo' = [todo EXCEPT ![w] = Tail(@)]
    /\ pc' = [pc EXCEPT ![w] = AfterSave(Tail(todo[w]))]
    /\ UNCHANGED <<doc, counter, snap, seq, stale, lost, crashes>>

\* A fault: what is appended to a finished run is dropped after its number is drawn.
IndexMutantDrop(w) ==
    /\ pc[w] = "index"
    /\ visible' = IF doc.finished THEN visible
                  ELSE visible \cup {[seq |-> seq[w], type |-> Head(todo[w]), by |-> w]}
    /\ todo' = [todo EXCEPT ![w] = Tail(@)]
    /\ pc' = [pc EXCEPT ![w] = "read"]
    /\ UNCHANGED <<doc, counter, snap, seq, stale, lost, crashes>>

\* append() stores the event and adds it to the index.
Index(w) ==
    /\ pc[w] = "index"
    /\ visible' = visible \cup {[seq |-> seq[w], type |-> Head(todo[w]), by |-> w]}
    /\ todo' = [todo EXCEPT ![w] = Tail(@)]
    /\ pc' = [pc EXCEPT ![w] = "read"]
    /\ UNCHANGED <<doc, counter, snap, seq, stale, lost, crashes>>

\* bump_event_stats(): reads the document again and counts the event.
ReadForBump(w) ==
    /\ pc[w] = "read"
    /\ snap' = [snap EXCEPT ![w] = [doc EXCEPT !.count = @ + 1]]
    /\ pc' = [pc EXCEPT ![w] = "bump"]
    /\ stale' = stale \ {w}
    /\ UNCHANGED <<doc, counter, visible, todo, seq, lost, crashes>>

\* The service dies between two storage calls and is started again; startup()
\* calls fail_orphaned_runs(), a transition without an event store.
Restart ==
    /\ crashes < MaxCrashes
    /\ crashes' = crashes + 1
    /\ IF CanTransition(doc.status, "failed")
       THEN Saves(Service, ChangedTo(doc, "failed"), <<>>)
       ELSE /\ pc' = [pc EXCEPT ![Service] = "idle"]
            /\ todo' = [todo EXCEPT ![Service] = <<>>]
            /\ stale' = stale \ {Service}
            /\ UNCHANGED <<doc, counter, visible, snap, seq, lost>>

\* The agent server ends a hook that takes too long, between two storage calls.
HookDies(h) ==
    /\ crashes < MaxCrashes
    /\ crashes' = crashes + 1
    /\ pc[h] # "idle"
    /\ pc' = [pc EXCEPT ![h] = "idle"]
    /\ todo' = [todo EXCEPT ![h] = <<>>]
    /\ stale' = stale \ {h}
    /\ UNCHANGED <<doc, counter, visible, snap, seq, lost>>

ServiceTargets == {"running", "completed", "failed", "blocked", "cancelled"}

Next ==
    \/ CreateRun
    \/ Restart
    \/ \E to \in ServiceTargets : ServiceTransition(to)
    \/ SetConversation
    \/ \E h \in Hooks : HookTransition(h) \/ HookDies(h)
    \/ \E w \in Writers : \/ AppendEvent(w)
                          \/ Save(w)
                          \/ NextSeq(w)
                          \/ Index(w)
                          \/ ReadForBump(w)

Spec == Init /\ [][Next]_vars
-----------------------------------------------------------------------------
(***************************************************************************)
(* What holds whoever writes.                                              *)
(***************************************************************************)

\* No two events of a run share a sequence number, however the appends of the
\* service and the hooks interleave: after_seq pages through them (_next_seq()).
SeqUnique == \A e, f \in visible : e.seq = f.seq => e = f

\* event_count may lose increments to a concurrent save, but never counts an event
\* that the index does not show (bump_event_stats() comes last in append()).
CountNeverOver == doc.count <= Cardinality(visible)

\* What readers page by and count: the numbers of the listed events are different, and
\* the count never exceeds them.
EventsCounted == SeqUnique /\ CountNeverOver

\* Writers that have listed an event and not yet stored that they counted it.
Counting == {w \in Writers : pc[w] \in {"read", "bump"}}

\* What event_count can miss: as long as no save has undone the change of another
\* process, it lacks only the events that writers are about to count, and one for each
\* crash of the service or of a hook, at whatever storage call (bump_event_stats()).
CountKept ==
    lost \/ Cardinality(visible) <= doc.count + Cardinality(Counting) + crashes

\* Every number drawn gets its event: what is missing in the list is about to be
\* listed, but for one event per crash of the service or of a hook (_next_seq() and
\* zadd() of append()).
NumbersListed ==
    counter <= Cardinality(visible) + Cardinality({w \in Writers : pc[w] = "index"}) + crashes

\* The fields of the document agree, though writers overwrite each other: each
\* writes a whole document.  A finished run has finished_at, and only it; a run that
\* has got further than created has started_at, unless it was cancelled before.
DocConsistent ==
    /\ doc.finished <=> doc.status \in Terminal
    /\ doc.status \notin {"none", "created", "cancelled"} => doc.started

\* No stale save takes a started run back to before its start: every process that
\* holds a copy of the document has read it after the start.
StartIsKept == [][doc.started => doc'.started]_vars
-----------------------------------------------------------------------------
(***************************************************************************)
(* The life of the run.                                                    *)
(***************************************************************************)

\* The stored status, as the run of the abstract state machine.
Lifecycle == INSTANCE RunStateMachine WITH Runs <- {Service},
                                           status <- [r \in {Service} |-> doc.status]

\* Writer w saves a document that another process has overwritten since w read it.
SavesStale(w) == /\ w \in stale
                 /\ pc[w] \in Saving
                 /\ doc' = snap[w]

\* The stored status takes only the steps of the transition table, whichever processes
\* write and wherever the service crashes, unless the very save is a stale one: only
\* the writer of an older copy can revive or re-label a finished run (transition(),
\* bump_event_stats() and set_oh_conversation_id(): read, change, _save()).
MovesLegally ==
    [][\/ Lifecycle!LegalMove(doc.status, doc'.status)
       \/ \E w \in Writers : SavesStale(w)]_vars
-----------------------------------------------------------------------------
(***************************************************************************)
(* What the store says of its events, and two writers break.               *)
(***************************************************************************)

\* Events appear in the order of their numbers, so that a reader that has seen n
\* need only ask for the later ones (events.py: "Run 内 append-only 事件流 ... 每条
\* Run 有单调递增的 seq"; list_events() and fetchRunEvents() with after_seq).
EventsAppended ==
    [][\A e \in visible' \ visible : \A f \in visible : f.seq < e.seq]_vars
=============================================================================
