------------------------------ MODULE ChatRuns ------------------------------
(***************************************************************************)
(* ChatRunManager (chat_runs.py) for one chat of one user, together with   *)
(* what acts on the same stored state: the run API (api/routers/runs.py),  *)
(* the PreToolUse hook, which runs in a process of its own on the agent    *)
(* server, the deletion of the chat, and crash and restart of the service. *)
(*                                                                         *)
(* The service is one asyncio event loop: code between two suspension      *)
(* points is atomic, and an action of this module is such a stretch of     *)
(* code.  _execute() suspends while it waits for the next chunk of the     *)
(* engine and while it records the token usage; resume_after_approval()    *)
(* suspends while it awaits the task it replaces.                          *)
(*                                                                         *)
(* A task identifier stands for a _ChatRun object with its asyncio task;   *)
(* identifiers of objects nobody refers to are used again.                 *)
(***************************************************************************)
EXTENDS RunStatus, FiniteSets, Naturals, Sequences

CONSTANTS Runs,        \* identifiers of InvestigationRuns; bounds how many are created
          Tasks,       \* identifiers of _ChatRun objects alive at the same time
          NoRun, NoTask,
          MaxCrashes   \* bound on crashes of the service

ASSUME ConstantsAssumption ==
    /\ NoRun \notin Runs
    /\ NoTask \notin Tasks
    /\ MaxCrashes \in Nat

VARIABLES
    \* in storage: survives a crash
    status,          \* status[r] of the stored InvestigationRun
    chat,            \* agent_run_status of the chat, or "deleted"
    pending,         \* runs that have a PENDING ApprovalRequest
    grants,          \* runs that have an unused one-time tool grant
    session,         \* the run that the governance session of the conversation names
    \* in the memory of the service
    entry,           \* _runs[key]
    ready,           \* tasks that wait for their first step, in the loop's order
    exec,            \* how far the task of each _ChatRun has come
    runOf,           \* _ChatRun.run_id
    cancelRequested, \* _ChatRun.cancel_requested
    cancelPending,   \* tasks to which task.cancel() will deliver CancelledError
    awaits,          \* stale task that a resume_after_approval() call awaits
    up,              \* the service is running
    \* observation only
    crashes,         \* crashes so far
    overlapped,      \* some approval found the paused _ChatRun still in _runs
    cancelOk         \* waiting runs whose cancel endpoint answered OK to the owner

stored  == <<status, chat, pending, grants, session>>
memory  == <<entry, ready, exec, runOf, cancelRequested, cancelPending, awaits>>
history == <<crashes, overlapped, cancelOk>>
vars    == <<stored, memory, up, history>>

ExecStates ==
    {"free",       \* no such object, or its task has returned
     "reserved",   \* in _runs, task not created yet: a resume awaits the stale task
     "scheduled",  \* create_task() done, first step not taken
     "streaming",  \* suspended in `async for chunk in service._run_stream()`
     "tokens",     \* suspended in record_chat_token_usage()
     "aborted",    \* cancelled before its first step: its finally never runs
     "raised"}     \* ended by an exception other than CancelledError

ChatStatuses == {"idle", "running", "waiting_approval", "failed", "deleted"}

TypeOK ==
    /\ status \in [Runs -> Statuses]
    /\ chat \in ChatStatuses
    /\ pending \subseteq Runs
    /\ grants \subseteq Runs
    /\ session \in Runs \cup {NoRun}
    /\ entry \in Tasks \cup {NoTask}
    /\ ready \in Seq(Tasks)
    /\ exec \in [Tasks -> ExecStates]
    /\ runOf \in [Tasks -> Runs \cup {NoRun}]
    /\ cancelRequested \subseteq Tasks
    /\ cancelPending \subseteq Tasks
    /\ awaits \in [Tasks -> Tasks \cup {NoTask}]
    /\ up \in BOOLEAN
    /\ crashes \in 0..MaxCrashes
    /\ overlapped \in BOOLEAN
    /\ cancelOk \subseteq Runs

Init ==
    /\ status = [r \in Runs |-> "none"]
    /\ chat = "idle"
    /\ pending = {}
    /\ grants = {}
    /\ session = NoRun
    /\ entry = NoTask
    /\ ready = <<>>
    /\ exec = [t \in Tasks |-> "free"]
    /\ runOf = [t \in Tasks |-> NoRun]
    /\ cancelRequested = {}
    /\ cancelPending = {}
    /\ awaits = [t \in Tasks |-> NoTask]
    /\ up = TRUE
    /\ crashes = 0
    /\ overlapped = FALSE
    /\ cancelOk = {}
-----------------------------------------------------------------------------
\* The task is between its first step and its finally.
Executing(t) == exec[t] \in {"streaming", "tokens"}

\* task is not None and not task.done()
LiveTask(t) == exec[t] \in {"scheduled", "streaming", "tokens"}

\* The task is the next to take its first step: tasks start in the order of their
\* create_task() calls.
NextToStart(t) == exec[t] = "scheduled" /\ ready # <<>> /\ t = Head(ready)

\* The loop takes the first step of the task.
FirstStep(t) == NextToStart(t) /\ ready' = Tail(ready)

\* Nothing refers to the object any more: its identifier may be used again.
Fresh(t) ==
    /\ exec[t] \in {"free", "aborted", "raised"}
    /\ entry # t
    /\ \A u \in Tasks : awaits[u] # t

\* get_active_run_for_chat() returns None.
NoUnfinishedRunMutant == \A r \in Runs : status[r] # "running"
NoUnfinishedRun == \A r \in Runs : status[r] \notin Active

\* InvestigationRunStore.transition() with its RunTransitionError caught.
TransitionMutant(r, to) == [status EXCEPT ![r] = to]
Transition(r, to) == [status EXCEPT ![r] = Moved(@, to)]

\* set_agent_run_status(), which raises KeyError once the chat is deleted.
ChatAfter(s) == IF chat = "deleted" THEN "deleted" ELSE s

\* _execute() runs its finally: done = True, and whatever _runs holds for the chat
\* is popped.  With the chat deleted the task ends with the KeyError.
Finally(t) ==
    /\ exec' = [exec EXCEPT ![t] = IF chat = "deleted" THEN "raised" ELSE "free"]
    /\ entry' = NoTask
    /\ runOf' = [runOf EXCEPT ![t] = NoRun]
    /\ cancelRequested' = cancelRequested \ {t}
    /\ cancelPending' = cancelPending \ {t}
    /\ UNCHANGED <<awaits, pending, grants, session, up, history>>

\* _execute() brings its run to `to`, the chat to `s`, and ends.  A KeyError of the
\* chat store in the try block is handled as a failure of the run.
EndWith(t, to, s) ==
    LET after == Moved(status[runOf[t]], to)
    IN  /\ status' = [status EXCEPT ![runOf[t]] =
                          IF chat = "deleted" THEN Moved(after, "failed") ELSE after]
        /\ chat' = ChatAfter(s)
        /\ Finally(t)
        /\ UNCHANGED ready
-----------------------------------------------------------------------------
\* start(): rejected while _runs or the storage has an unfinished run of the chat.
\* The last conjunct bounds the model: a run is left for the task to create.
Start(t) ==
    /\ up /\ chat # "deleted"
    /\ Fresh(t)
    /\ entry = NoTask
    /\ NoUnfinishedRun
    /\ exec' = [exec EXCEPT ![t] = "scheduled"]
    /\ ready' = Append(ready, t)
    /\ entry' = t
    /\ runOf' = [runOf EXCEPT ![t] = NoRun]
    /\ cancelRequested' = cancelRequested \ {t}
    /\ Cardinality({u \in Tasks : exec[u] = "scheduled" /\ runOf[u] = NoRun})
         < Cardinality({r \in Runs : status[r] = "none"})
    /\ UNCHANGED <<stored, cancelPending, awaits, up, history>>

\* First step of _execute() for a new message: begin_investigation_run(), then the
\* chat is shown as running and the engine stream is awaited.
BeginRun(t, r) ==
    /\ FirstStep(t) /\ t \notin cancelPending
    /\ runOf[t] = NoRun /\ status[r] = "none"
    /\ IF chat = "deleted"
       THEN /\ status' = [status EXCEPT ![r] = "failed"]
            /\ Finally(t)
            /\ UNCHANGED chat
       ELSE /\ status' = [status EXCEPT ![r] = "running"]
            /\ chat' = "running"
            /\ exec' = [exec EXCEPT ![t] = "streaming"]
            /\ runOf' = [runOf EXCEPT ![t] = r]
            /\ UNCHANGED <<pending, grants, session, entry, cancelRequested,
                           cancelPending, awaits, up, history>>

\* A run that waits runs again; in any other status it is streamed all the same.
ResumedMutant(s) == s
Resumed(s) == IF s = "waiting_approval" THEN "running" ELSE s

\* First step of _execute() for an approved run: waiting_approval -> running.
ContinueRun(t) ==
    /\ FirstStep(t) /\ t \notin cancelPending
    /\ runOf[t] # NoRun
    /\ LET r == runOf[t]
           after == Resumed(status[r])
       IN  IF chat = "deleted"
           THEN /\ status' = [status EXCEPT ![r] = Moved(after, "failed")]
                /\ Finally(t)
                /\ UNCHANGED chat
           ELSE /\ status' = [status EXCEPT ![r] = after]
                /\ chat' = "running"
                /\ exec' = [exec EXCEPT ![t] = "streaming"]
                /\ UNCHANGED <<pending, grants, session, entry, runOf, cancelRequested,
                               cancelPending, awaits, up, history>>

\* The engine has posted the message and names the run in the governance session of
\* the conversation (_ensure_conversation): tool calls before that are attributed to
\* the run registered last.
RegisterSession(t) ==
    /\ exec[t] = "streaming"
    /\ session' = runOf[t]
    /\ UNCHANGED <<status, chat, pending, grants, memory, up, history>>

\* A chunk arrives and the stored run waits for approval: the task leaves.
PauseOnChunk(t) ==
    /\ exec[t] = "streaming" /\ t \notin cancelPending \cup cancelRequested
    /\ status[runOf[t]] = "waiting_approval"
    /\ EndWith(t, "waiting_approval", "waiting_approval")

\* A chunk arrives, or the stream ends, after cancel_requested was set.  The
\* RunTransitionError of a run that is terminal already is not caught here: it is
\* handled as a failure of the run.
StopOnCancelRequest(t) ==
    /\ exec[t] = "streaming" /\ t \in cancelRequested \ cancelPending
    /\ IF CanTransition(status[runOf[t]], "cancelled")
       THEN EndWith(t, "cancelled", "idle")
       ELSE EndWith(t, "failed", "failed")

\* The stream ends: the reply is appended to the chat and the token usage fetched.
StreamEnds(t) ==
    /\ exec[t] = "streaming" /\ t \notin cancelPending \cup cancelRequested
    /\ IF chat = "deleted"
       THEN EndWith(t, "failed", "failed")
       ELSE /\ exec' = [exec EXCEPT ![t] = "tokens"]
            /\ UNCHANGED <<stored, entry, ready, runOf, cancelRequested, cancelPending,
                           awaits, up, history>>

\* Mutants: the handler forgets the chat; the handler forgets the run.
StreamRaisesMutantChat(t) ==
    exec[t] = "streaming" /\ t \notin cancelPending /\ EndWith(t, "failed", chat)
StreamRaisesMutantRun(t) ==
    exec[t] = "streaming" /\ t \notin cancelPending /\ EndWith(t, "running", "failed")

\* The engine raises: HTTP error, agent error, timeout.
StreamRaises(t) ==
    /\ exec[t] = "streaming" /\ t \notin cancelPending
    /\ EndWith(t, "failed", "failed")

\* After the token usage: a run that waits is left waiting, a terminal one as it is,
\* any other is completed.
Finalize(t) ==
    /\ exec[t] = "tokens" /\ t \notin cancelPending
    /\ IF status[runOf[t]] = "waiting_approval"
       THEN EndWith(t, "waiting_approval", "waiting_approval")
       ELSE EndWith(t, "completed", "idle")

\* CancelledError is delivered at a suspension point of _execute().
HandleCancelled(t) ==
    /\ Executing(t) /\ t \in cancelPending
    /\ EndWith(t, "cancelled", "idle")

\* CancelledError is delivered before the first step: neither the try block nor its
\* finally is ever entered, so the _ChatRun stays in _runs with done = False.
CancelledBeforeFirstStep(t) ==
    /\ FirstStep(t) /\ t \in cancelPending
    /\ exec' = [exec EXCEPT ![t] = "aborted"]
    /\ cancelPending' = cancelPending \ {t}
    /\ UNCHANGED <<stored, entry, runOf, cancelRequested, awaits, up, history>>
-----------------------------------------------------------------------------
\* cancel_chat() with a _ChatRun in _runs.
CancelEntry ==
    /\ entry # NoTask
    /\ status' = IF runOf[entry] = NoRun THEN status
                                         ELSE Transition(runOf[entry], "cancelled")
    /\ cancelRequested' = cancelRequested \cup {entry}
    /\ cancelPending' = IF LiveTask(entry) THEN cancelPending \cup {entry}
                                           ELSE cancelPending
    /\ UNCHANGED <<chat, pending, grants, session, entry, ready, exec, runOf, awaits>>

\* POST /api/agent/cancel for the chat.
CancelChat ==
    /\ up
    /\ CancelEntry
    /\ UNCHANGED <<up, history>>

\* POST /api/runs/{id}/cancel for an active run.  The _ChatRun is looked up under the
\* uid of the caller, which is not the owner's when an administrator cancels; without
\* one only the stop event of the engine is set, which ends the stream early.
CancelRun(r, byOwner) ==
    /\ up
    /\ status[r] \in Active
    /\ cancelOk' = IF byOwner /\ status[r] = "waiting_approval" THEN cancelOk \cup {r}
                                                                 ELSE cancelOk
    /\ IF byOwner /\ entry # NoTask THEN CancelEntry ELSE UNCHANGED <<stored, memory>>
    /\ UNCHANGED <<up, crashes, overlapped>>

\* resume_after_approval(approved = False).
Reject(r) ==
    /\ up
    /\ status[r] = "waiting_approval" /\ r \in pending
    /\ pending' = pending \ {r}
    /\ status' = Transition(r, "blocked")
    /\ chat' = ChatAfter("idle")
    /\ UNCHANGED <<grants, session, memory, up, history>>

\* resume_after_approval(approved = True): the request is resolved and the grant
\* issued; then a new _ChatRun for the same run replaces the one in _runs, whose task
\* is cancelled and awaited when it has not finished.
Approve(r, t) ==
    LET stale == IF entry # NoTask /\ LiveTask(entry) THEN entry ELSE NoTask
    IN  /\ up /\ chat # "deleted"
        /\ status[r] = "waiting_approval" /\ r \in pending
        /\ Fresh(t)
        /\ entry # NoTask => runOf[entry] = r
        /\ pending' = pending \ {r}
        /\ grants' = grants \cup {r}
        /\ entry' = t
        /\ exec' = [exec EXCEPT ![t] = IF stale = NoTask THEN "scheduled" ELSE "reserved"]
        /\ ready' = IF stale = NoTask THEN Append(ready, t) ELSE ready
        /\ runOf' = [runOf EXCEPT ![t] = r]
        /\ awaits' = [awaits EXCEPT ![t] = stale]
        /\ cancelRequested' = (cancelRequested \ {t}) \cup ({entry} \ {NoTask})
        /\ cancelPending' = cancelPending \cup ({stale} \ {NoTask})
        /\ overlapped' = (overlapped \/ entry # NoTask)
        /\ UNCHANGED <<status, chat, session, up, crashes, cancelOk>>

\* The same call fails after the request is resolved and the grant issued: the chat
\* is gone, or _runs holds a _ChatRun of another run.
ApproveFails(r) ==
    /\ up
    /\ status[r] = "waiting_approval" /\ r \in pending
    /\ chat = "deleted" \/ (entry # NoTask /\ runOf[entry] # r)
    /\ pending' = pending \ {r}
    /\ grants' = grants \cup {r}
    /\ UNCHANGED <<status, chat, session, memory, up, history>>

\* Mutant: waits for the finally of the stale task, not for the task.
ResumeAfterStaleMutant(t) ==
    /\ exec[t] = "reserved"
    /\ exec[awaits[t]] \in {"free", "raised"}
    /\ exec' = [exec EXCEPT ![t] = "scheduled"]
    /\ ready' = Append(ready, t)
    /\ awaits' = [awaits EXCEPT ![t] = NoTask]
    /\ UNCHANGED <<stored, entry, runOf, cancelRequested, cancelPending, up, history>>

\* `await stale_task` returns, or raises CancelledError, which is ignored, and the
\* task of the new _ChatRun is created; any other exception of the stale task ends the
\* call before that.
ResumeAfterStale(t) ==
    /\ exec[t] = "reserved"
    /\ ~LiveTask(awaits[t])
    /\ IF exec[awaits[t]] = "raised"
       THEN exec' = [exec EXCEPT ![t] = "raised"] /\ ready' = ready
       ELSE exec' = [exec EXCEPT ![t] = "scheduled"] /\ ready' = Append(ready, t)
    /\ awaits' = [awaits EXCEPT ![t] = NoTask]
    /\ UNCHANGED <<stored, entry, runOf, cancelRequested, cancelPending, up, history>>
-----------------------------------------------------------------------------
\* PreToolUse hook for a tool that requires approval, in the agent server: a grant is
\* used up; otherwise the call is denied, an approval request is made unless one is
\* pending, the run pauses if it can, and the chat is shown as waiting in any case.
\* The agent server runs the agent whether or not the service still listens.
ToolCall(r) ==
    /\ r = session
    /\ IF r \in grants
       THEN /\ grants' = grants \ {r}
            /\ UNCHANGED <<status, chat, pending>>
       ELSE /\ pending' = pending \cup {r}
            /\ status' = Transition(r, "waiting_approval")
            /\ chat' = ChatAfter("waiting_approval")
            /\ UNCHANGED grants
    /\ UNCHANGED <<session, memory, up, history>>

\* DELETE /api/chats/{id}: delete_thread() does not look at the runs of the chat.
DeleteChat ==
    /\ up /\ chat # "deleted"
    /\ chat' = "deleted"
    /\ UNCHANGED <<status, pending, grants, session, memory, up, history>>

\* The service dies.  A task that was creating its run may have written it and not yet
\* started it.
Crash ==
    /\ up /\ crashes < MaxCrashes
    /\ up' = FALSE
    /\ crashes' = crashes + 1
    /\ \/ status' = status
       \/ \E t \in Tasks, r \in Runs :
             /\ NextToStart(t) /\ t \notin cancelPending
             /\ runOf[t] = NoRun /\ status[r] = "none"
             /\ status' = [status EXCEPT ![r] = "created"]
    /\ entry' = NoTask
    /\ ready' = <<>>
    /\ exec' = [t \in Tasks |-> "free"]
    /\ runOf' = [t \in Tasks |-> NoRun]
    /\ cancelRequested' = {}
    /\ cancelPending' = {}
    /\ awaits' = [t \in Tasks |-> NoTask]
    /\ UNCHANGED <<chat, pending, grants, session, overlapped, cancelOk>>

\* Mutant: the recovery overlooks the runs that were running.
StartupMutant ==
    /\ ~up
    /\ up' = TRUE
    /\ status' = [r \in Runs |-> IF status[r] = "running" THEN "running"
                                 ELSE Moved(status[r], "failed")]
    /\ UNCHANGED <<chat, pending, grants, session, memory, history>>

\* DeepTicketService.startup(): fail_orphaned_runs() over all stored runs.
Startup ==
    /\ ~up
    /\ up' = TRUE
    /\ status' = [r \in Runs |-> Moved(status[r], "failed")]
    /\ UNCHANGED <<chat, pending, grants, session, memory, history>>
-----------------------------------------------------------------------------
\* Steps the event loop takes by itself.
TaskStep(t) ==
    \/ \E r \in Runs : BeginRun(t, r)
    \/ ContinueRun(t)
    \/ PauseOnChunk(t)
    \/ StopOnCancelRequest(t)
    \/ StreamEnds(t)
    \/ StreamRaises(t)
    \/ Finalize(t)
    \/ HandleCancelled(t)
    \/ CancelledBeforeFirstStep(t)
    \/ ResumeAfterStale(t)

\* Requests of users and operators.
Request ==
    \/ \E t \in Tasks : Start(t)
    \/ CancelChat
    \/ \E r \in Runs, byOwner \in BOOLEAN : CancelRun(r, byOwner)
    \/ \E r \in Runs : Reject(r)
    \/ \E r \in Runs, t \in Tasks : Approve(r, t)
    \/ \E r \in Runs : ApproveFails(r)
    \/ DeleteChat

Next ==
    \/ \E t \in Tasks : TaskStep(t)
    \/ \E t \in Tasks : RegisterSession(t)
    \/ Request
    \/ \E r \in Runs : ToolCall(r)
    \/ Crash
    \/ Startup

Spec == Init /\ [][Next]_vars

\* The loop runs every task that is ready, the engine bounds a stream by
\* agent_timeout_seconds, and a crashed service is started again.
Fairness ==
    /\ \A t \in Tasks : WF_vars(TaskStep(t))
    /\ WF_vars(Startup)

FairSpec == Spec /\ Fairness
-----------------------------------------------------------------------------
\* The abstract life of a run, with the stored status as it is.
Lifecycle == INSTANCE RunStateMachine

\* Every step is a legal step of the run state machine: cancellation, approval, the
\* hook, a failing stream and the recovery at startup never disagree about a run in a
\* way that revives or re-labels it (chat_runs.py, runs.py, store.py: transition()).
ImplementsLifecycle == Lifecycle!Spec

\* While the service is up, a run stored as running has a task that is executing it
\* and will settle it: no handler of _execute() leaves without moving its run, and
\* the recovery at startup has taken care of what a crash left (chat_runs.py 435-522,
\* store.py fail_orphaned_runs).
RunningIsExecuted ==
    up => \A r \in Runs : status[r] = "running" =>
              \E t \in Tasks : Executing(t) /\ runOf[t] = r

\* Unless the service crashed, a chat that is shown as running has a task executing:
\* whichever of several tasks is last to leave has reset agent_run_status.
SpinnerHasTask ==
    (crashes = 0 /\ chat = "running") => \E t \in Tasks : Executing(t)

\* As long as no approval has replaced a _ChatRun that was still in _runs, at most
\* one task executes for the chat and it is the one in _runs, where cancel_chat()
\* finds it.
SingleFlight ==
    ~overlapped => \A t \in Tasks : LiveTask(t) => entry = t

\* As long as no approval has replaced a _ChatRun that was still in _runs, the chat
\* has at most one unfinished run and only the task in _runs works on it.
OneActiveRun ==
    ~overlapped => \A r, s \in Runs :
                      (status[r] \in Active /\ status[s] \in Active) => r = s

\* A run that waits can be decided: its approval request is pending, or the approval
\* has been given and the task that resumes it is about to start.  The exceptions are a
\* chat that was deleted, and runs that share the chat after an overlap: approving one
\* while _runs holds the other uses the request up and resumes nothing.
WaitingIsActionable ==
    (up /\ chat # "deleted" /\ ~overlapped) =>
        \A r \in Runs : status[r] = "waiting_approval" =>
            \/ r \in pending
            \/ \E t \in Tasks : exec[t] = "scheduled" /\ runOf[t] = r

\* A run that waits is shown to the operator as waiting, whoever wrote the status of
\* the chat last (approval_pause.py, chat_runs.py 322-332 and 406-416).
WaitingIsShown ==
    ~overlapped =>
        \A r \in Runs : status[r] = "waiting_approval" =>
            chat \in {"waiting_approval", "deleted"}

\* Until such an overlap the chat has one task, on its one unfinished run, and shows it.
OneAtATime == SingleFlight /\ OneActiveRun /\ WaitingIsShown

\* A resume never waits for ever for the task it replaces.
ResumeProceeds ==
    \A t \in Tasks : exec[t] = "reserved" ~> exec[t] # "reserved"

\* A running run does not stay running for ever, crashes included.
RunningSettles ==
    \A r \in Runs : status[r] = "running" ~> status[r] # "running"

-----------------------------------------------------------------------------
\* The properties below are what the repository says; the code does otherwise.

\* An approved run runs again: when the task that resumes it starts streaming, and
\* nobody has cancelled it, the run is running (chat_runs.py:160, transitions.py:11).
ApprovedRunResumes ==
    [][\A t \in Tasks :
          (/\ exec[t] = "scheduled" /\ exec'[t] = "streaming"
           /\ runOf[t] # NoRun /\ t \notin cancelRequested)
          => status'[runOf[t]] = "running"]_vars

\* Any unfinished run can be cancelled (p0-investigation-run-governance.md:102), one
\* that waits for approval too: when its owner cancels it and the endpoint answers OK,
\* it ends.  In the code it goes on waiting when its task has left _runs.
CancelTakesEffect ==
    \A r \in Runs : r \in cancelOk ~> status[r] \in Terminal

=============================================================================
