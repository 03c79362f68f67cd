--------------------------- MODULE ChatRunsProofs ---------------------------
(***************************************************************************)
(* Proofs about ChatRuns, for any number of runs, tasks and crashes.       *)
(***************************************************************************)
EXTENDS ChatRuns, SequenceTheorems, TLAPS

(***************************************************************************)
(* Lemmas about the transition table.                                      *)
(***************************************************************************)

\* A status stays a status when a run is moved.
LEMMA MovedType ==
    ASSUME NEW s \in Statuses, NEW u \in Statuses
    PROVE  Moved(s, u) \in Statuses
BY DEF Moved

\* What a task or an operator writes when it leaves a run never makes it running.
LEMMA MovedNotRunning ==
    ASSUME NEW s \in Statuses, NEW u \in Statuses \ {"running"}
    PROVE  Moved(s, u) = "running" => s = "running"
BY DEF Moved

(***************************************************************************)
(* Type correctness, one lemma per group of actions.                       *)
(***************************************************************************)

LEMMA InitType == Init => TypeOK
<1>. SUFFICES ASSUME Init PROVE TypeOK
  OBVIOUS
<1>1. ready \in Seq(Tasks)
  BY DEF Init
<1>2. crashes \in 0..MaxCrashes
  BY ConstantsAssumption DEF Init
<1>3. status \in [Runs -> Statuses] /\ exec \in [Tasks -> ExecStates]
  BY DEF Init, Statuses, ExecStates
<1>. QED BY <1>1, <1>2, <1>3 DEF Init, TypeOK, ChatStatuses

LEMMA FinallyType ==
    ASSUME TypeOK, NEW t \in Tasks, Finally(t)
    PROVE  /\ exec' \in [Tasks -> ExecStates]
           /\ entry' \in Tasks \cup {NoTask}
           /\ runOf' \in [Tasks -> Runs \cup {NoRun}]
           /\ cancelRequested' \subseteq Tasks
           /\ cancelPending' \subseteq Tasks
           /\ awaits' \in [Tasks -> Tasks \cup {NoTask}]
           /\ pending' \subseteq Runs /\ grants' \subseteq Runs
           /\ session' \in Runs \cup {NoRun}
           /\ up' \in BOOLEAN
           /\ crashes' \in 0..MaxCrashes /\ overlapped' \in BOOLEAN
           /\ cancelOk' \subseteq Runs
BY DEF TypeOK, Finally, ExecStates, history

LEMMA EndWithType ==
    ASSUME TypeOK, NEW t \in Tasks, NEW u \in Statuses,
           NEW s \in ChatStatuses, EndWith(t, u, s)
    PROVE  TypeOK'
<1>1. status' \in [Runs -> Statuses]
  <2>1. CASE runOf[t] \in Runs
    <3>1. status[runOf[t]] \in Statuses
      BY <2>1 DEF TypeOK
    <3>2. Moved(status[runOf[t]], u) \in Statuses
      BY <3>1, MovedType
    <3>3. Moved(Moved(status[runOf[t]], u), "failed") \in Statuses
      BY <3>2, MovedType DEF Statuses
    <3>. QED BY <2>1, <3>2, <3>3 DEF EndWith, TypeOK
  <2>2. CASE runOf[t] \notin Runs
    BY <2>2 DEF EndWith, TypeOK
  <2>. QED BY <2>1, <2>2
<1>2. chat' \in ChatStatuses /\ ready' \in Seq(Tasks)
  BY DEF EndWith, ChatAfter, TypeOK, ChatStatuses
<1>. QED BY <1>1, <1>2, FinallyType DEF EndWith, TypeOK

\* Taking the first step leaves a queue of tasks.
LEMMA FirstStepType ==
    ASSUME TypeOK, NEW t \in Tasks, FirstStep(t)
    PROVE  ready' \in Seq(Tasks)
BY HeadTailProperties DEF TypeOK, FirstStep, NextToStart

LEMMA TransitionType ==
    ASSUME TypeOK, NEW r \in Runs, NEW u \in Statuses
    PROVE  Transition(r, u) \in [Runs -> Statuses]
<1>1. status[r] \in Statuses
  BY DEF TypeOK
<1>2. Moved(status[r], u) \in Statuses
  BY <1>1, MovedType
<1>. QED BY <1>2 DEF Transition, TypeOK

LEMMA TaskStepType ==
    ASSUME TypeOK, NEW t \in Tasks, TaskStep(t)
    PROVE  TypeOK'
<1>1. ASSUME NEW r \in Runs, BeginRun(t, r) PROVE TypeOK'
  <2>1. ready' \in Seq(Tasks)
    BY <1>1, FirstStepType DEF BeginRun
  <2>2. CASE chat = "deleted"
    BY <1>1, <2>1, <2>2, FinallyType DEF BeginRun, TypeOK, Statuses
  <2>3. CASE chat # "deleted"
    BY <1>1, <2>1, <2>3 DEF BeginRun, TypeOK, Statuses, ChatStatuses, ExecStates, history
  <2>. QED BY <2>2, <2>3
<1>2. CASE ContinueRun(t)
  <2>1. ready' \in Seq(Tasks)
    BY <1>2, FirstStepType DEF ContinueRun
  <2>2. runOf[t] \in Runs /\ status[runOf[t]] \in Statuses
    BY <1>2 DEF ContinueRun, TypeOK
  <2>. DEFINE after == Resumed(status[runOf[t]])
  <2>3. after \in Statuses /\ Moved(after, "failed") \in Statuses
    BY <2>2, MovedType DEF Statuses, Resumed
  <2>4. status' \in [Runs -> Statuses]
    BY <1>2, <2>2, <2>3 DEF ContinueRun, TypeOK
  <2>5. CASE chat = "deleted"
    BY <1>2, <2>1, <2>4, <2>5, FinallyType DEF ContinueRun, TypeOK
  <2>6. CASE chat # "deleted"
    BY <1>2, <2>1, <2>4, <2>6 DEF ContinueRun, TypeOK, ChatStatuses, ExecStates, history
  <2>. QED BY <2>5, <2>6
<1>3. CASE PauseOnChunk(t)
  BY <1>3, EndWithType DEF PauseOnChunk, Statuses, ChatStatuses
<1>4. CASE StopOnCancelRequest(t)
  BY <1>4, EndWithType DEF StopOnCancelRequest, Statuses, ChatStatuses
<1>5. CASE StreamEnds(t)
  <2>1. CASE chat = "deleted"
    BY <1>5, <2>1, EndWithType DEF StreamEnds, Statuses, ChatStatuses
  <2>2. CASE chat # "deleted"
    BY <1>5, <2>2 DEF StreamEnds, TypeOK, ExecStates, stored, history
  <2>. QED BY <2>1, <2>2
<1>6. CASE StreamRaises(t)
  BY <1>6, EndWithType DEF StreamRaises, Statuses, ChatStatuses
<1>7. CASE Finalize(t)
  BY <1>7, EndWithType DEF Finalize, Statuses, ChatStatuses
<1>8. CASE HandleCancelled(t)
  BY <1>8, EndWithType DEF HandleCancelled, Statuses, ChatStatuses
<1>9. CASE CancelledBeforeFirstStep(t)
  <2>1. ready' \in Seq(Tasks)
    BY <1>9, FirstStepType DEF CancelledBeforeFirstStep
  <2>. QED BY <1>9, <2>1 DEF CancelledBeforeFirstStep, TypeOK, ExecStates, stored, history
<1>10. CASE ResumeAfterStale(t)
  <2>1. ready' \in Seq(Tasks)
    <3>1. ready \in Seq(Tasks)
      BY DEF TypeOK
    <3>2. Append(ready, t) \in Seq(Tasks)
      BY <3>1
    <3>. QED BY <1>10, <3>1, <3>2 DEF ResumeAfterStale
  <2>. QED BY <1>10, <2>1 DEF ResumeAfterStale, TypeOK, ExecStates, stored, history
<1>. QED BY <1>1, <1>2, <1>3, <1>4, <1>5, <1>6, <1>7, <1>8, <1>9, <1>10 DEF TaskStep

LEMMA CancelEntryType ==
    ASSUME TypeOK, CancelEntry
    PROVE  /\ status' \in [Runs -> Statuses]
           /\ cancelRequested' \subseteq Tasks
           /\ cancelPending' \subseteq Tasks
<1>1. entry \in Tasks /\ runOf[entry] \in Runs \cup {NoRun}
  BY DEF CancelEntry, TypeOK
<1>2. runOf[entry] # NoRun => Transition(runOf[entry], "cancelled") \in [Runs -> Statuses]
  BY <1>1, TransitionType DEF Statuses
<1>. QED BY <1>1, <1>2 DEF CancelEntry, TypeOK

LEMMA RequestType ==
    ASSUME TypeOK, Request
    PROVE  TypeOK'
<1>1. ASSUME NEW t \in Tasks, Start(t) PROVE TypeOK'
  <2>1. ready' \in Seq(Tasks)
    BY <1>1, AppendProperties DEF Start, TypeOK
  <2>. QED BY <1>1, <2>1 DEF Start, TypeOK, ExecStates, stored, history
<1>2. CASE CancelChat
  BY <1>2, CancelEntryType DEF CancelChat, CancelEntry, TypeOK, history
<1>3. ASSUME NEW r \in Runs, NEW byOwner \in BOOLEAN, CancelRun(r, byOwner) PROVE TypeOK'
  <2>1. CASE byOwner /\ entry # NoTask
    BY <1>3, <2>1, CancelEntryType DEF CancelRun, CancelEntry, TypeOK
  <2>2. CASE ~(byOwner /\ entry # NoTask)
    BY <1>3, <2>2 DEF CancelRun, TypeOK, stored, memory
  <2>. QED BY <2>1, <2>2
<1>4. ASSUME NEW r \in Runs, Reject(r) PROVE TypeOK'
  <2>1. Transition(r, "blocked") \in [Runs -> Statuses]
    BY TransitionType DEF Statuses
  <2>. QED BY <1>4, <2>1 DEF Reject, TypeOK, ChatAfter, ChatStatuses, memory, history
<1>5. ASSUME NEW r \in Runs, NEW t \in Tasks, Approve(r, t) PROVE TypeOK'
  <2>1. ready' \in Seq(Tasks)
    BY <1>5, AppendProperties DEF Approve, TypeOK
  <2>2. entry' \in Tasks \cup {NoTask} /\ exec' \in [Tasks -> ExecStates]
    BY <1>5 DEF Approve, TypeOK, ExecStates
  <2>3. runOf' \in [Tasks -> Runs \cup {NoRun}] /\ awaits' \in [Tasks -> Tasks \cup {NoTask}]
    BY <1>5 DEF Approve, TypeOK
  <2>4. cancelRequested' \subseteq Tasks /\ cancelPending' \subseteq Tasks
    BY <1>5 DEF Approve, TypeOK
  <2>. QED BY <1>5, <2>1, <2>2, <2>3, <2>4 DEF Approve, TypeOK
<1>6. ASSUME NEW r \in Runs, ApproveFails(r) PROVE TypeOK'
  BY <1>6 DEF ApproveFails, TypeOK, memory, history
<1>7. CASE DeleteChat
  BY <1>7 DEF DeleteChat, TypeOK, ChatStatuses, memory, history
<1>. QED BY <1>1, <1>2, <1>3, <1>4, <1>5, <1>6, <1>7 DEF Request

LEMMA OutsideType ==
    ASSUME TypeOK
    PROVE  /\ \A t \in Tasks : RegisterSession(t) => TypeOK'
           /\ \A r \in Runs : ToolCall(r) => TypeOK'
           /\ Crash => TypeOK'
           /\ Startup => TypeOK'
<1>1. ASSUME NEW t \in Tasks, RegisterSession(t) PROVE TypeOK'
  BY <1>1 DEF RegisterSession, TypeOK, memory, history
<1>2. ASSUME NEW r \in Runs, ToolCall(r) PROVE TypeOK'
  <2>1. Transition(r, "waiting_approval") \in [Runs -> Statuses]
    BY TransitionType DEF Statuses
  <2>. QED BY <1>2, <2>1 DEF ToolCall, TypeOK, ChatAfter, ChatStatuses, memory, history
<1>3. ASSUME Crash PROVE TypeOK'
  <2>1. crashes' \in 0..MaxCrashes
    BY <1>3, ConstantsAssumption DEF Crash, TypeOK
  <2>2. status' \in [Runs -> Statuses]
    BY <1>3 DEF Crash, TypeOK, Statuses
  <2>3. ready' \in Seq(Tasks)
    BY <1>3 DEF Crash
  <2>. QED BY <1>3, <2>1, <2>2, <2>3 DEF Crash, TypeOK, ExecStates
<1>4. ASSUME Startup PROVE TypeOK'
  <2>1. \A r \in Runs : Moved(status[r], "failed") \in Statuses
    BY MovedType DEF TypeOK, Statuses
  <2>. QED BY <1>4, <2>1 DEF Startup, TypeOK, memory, history
<1>. QED BY <1>1, <1>2, <1>3, <1>4

LEMMA NextType == TypeOK /\ [Next]_vars => TypeOK'
<1>. SUFFICES ASSUME TypeOK, [Next]_vars PROVE TypeOK'
  OBVIOUS
<1>1. CASE UNCHANGED vars
  BY <1>1 DEF TypeOK, vars, stored, memory, history
<1>2. CASE Next
  BY <1>2, TaskStepType, RequestType, OutsideType DEF Next
<1>. QED BY <1>1, <1>2

\* Every reachable state is well typed: in particular the chat and its runs only ever
\* hold statuses that models.py and the chat store define, and _runs a known object.
THEOREM TypeCorrect == Spec => []TypeOK
BY InitType, NextType, PTL DEF Spec

(***************************************************************************)
(* A running run has a task.                                               *)
(***************************************************************************)

\* Leaving a run, with or without the chat still there, never leaves it running.
LEMMA LeftNotRunning ==
    ASSUME NEW s \in Statuses,
           NEW u \in {"waiting_approval", "failed", "cancelled", "completed", "blocked"}
    PROVE  Moved(s, u) # "running" /\ Moved(Moved(s, u), "failed") # "running"
BY DEF Moved, CanTransition, AllowedTransitions, Terminal, Statuses

\* A task that ends takes no run with it: its own run is not running any more, and the
\* task of any other run is untouched.
LEMMA EndWithKeepsExecuted ==
    ASSUME TypeOK, RunningIsExecuted, NEW t \in Tasks,
           NEW u \in {"waiting_approval", "failed", "cancelled", "completed"},
           NEW s, EndWith(t, u, s)
    PROVE  RunningIsExecuted'
<1>. SUFFICES ASSUME up', NEW r \in Runs, status'[r] = "running"
              PROVE  \E v \in Tasks : Executing(v)' /\ runOf'[v] = r
  BY DEF RunningIsExecuted
<1>1. r # runOf[t]
  <2>. SUFFICES ASSUME r = runOf[t] PROVE FALSE
    OBVIOUS
  <2>1. status[r] \in Statuses
    BY DEF TypeOK
  <2>. QED BY <2>1, LeftNotRunning DEF EndWith, TypeOK
<1>2. status[r] = "running" /\ up
  BY <1>1 DEF EndWith, Finally, TypeOK
<1>3. PICK v \in Tasks : Executing(v) /\ runOf[v] = r
  BY <1>2 DEF RunningIsExecuted
<1>. QED BY <1>1, <1>3 DEF EndWith, Finally, Executing, TypeOK

\* A step that makes no run running and disturbs no executing task.
LEMMA NoneStartsNoneLeaves ==
    ASSUME RunningIsExecuted, up' => up,
           \A r \in Runs : status'[r] = "running" => status[r] = "running",
           \A t \in Tasks : Executing(t) => Executing(t)' /\ runOf'[t] = runOf[t]
    PROVE  RunningIsExecuted'
<1>. SUFFICES ASSUME up', NEW r \in Runs, status'[r] = "running"
              PROVE  \E v \in Tasks : Executing(v)' /\ runOf'[v] = r
  BY DEF RunningIsExecuted
<1>1. PICK v \in Tasks : Executing(v) /\ runOf[v] = r
  BY DEF RunningIsExecuted
<1>. QED BY <1>1

\* transition() to anything but running makes no run running.
LEMMA TransitionStartsNone ==
    ASSUME TypeOK, NEW q \in Runs, NEW u \in Statuses \ {"running"},
           status' = Transition(q, u)
    PROVE  \A r \in Runs : status'[r] = "running" => status[r] = "running"
<1>1. \A r \in Runs : status[r] \in Statuses
  BY DEF TypeOK
<1>. QED BY <1>1, MovedNotRunning DEF Transition, TypeOK

LEMMA TaskStepKeepsExecuted ==
    ASSUME TypeOK, RunningIsExecuted, NEW t \in Tasks, TaskStep(t)
    PROVE  RunningIsExecuted'
<1>1. ASSUME NEW q \in Runs, BeginRun(t, q) PROVE RunningIsExecuted'
  <2>1. CASE chat = "deleted"
    BY <1>1, <2>1, NoneStartsNoneLeaves
       DEF BeginRun, FirstStep, NextToStart, Finally, Executing, TypeOK
  <2>2. CASE chat # "deleted"
    <3>. SUFFICES ASSUME up', NEW r \in Runs, status'[r] = "running"
                  PROVE  \E v \in Tasks : Executing(v)' /\ runOf'[v] = r
      BY DEF RunningIsExecuted
    <3>1. CASE r = q
      BY <1>1, <2>2, <3>1 DEF BeginRun, Executing, TypeOK
    <3>2. CASE r # q
      <4>1. status[r] = "running" /\ up
        BY <1>1, <2>2, <3>2 DEF BeginRun, TypeOK
      <4>2. PICK v \in Tasks : Executing(v) /\ runOf[v] = r
        BY <4>1 DEF RunningIsExecuted
      <4>3. v # t
        BY <1>1, <4>2 DEF BeginRun, FirstStep, NextToStart, Executing
      <4>. QED BY <1>1, <2>2, <4>2, <4>3 DEF BeginRun, Executing, TypeOK
    <3>. QED BY <3>1, <3>2
  <2>. QED BY <2>1, <2>2
<1>2. CASE ContinueRun(t)
  <2>0. runOf[t] \in Runs /\ status[runOf[t]] \in Statuses /\ ~Executing(t)
    BY <1>2 DEF ContinueRun, FirstStep, NextToStart, Executing, TypeOK
  <2>1. CASE chat = "deleted"
    <3>1. status'[runOf[t]] # "running"
      <4>. DEFINE after == Resumed(status[runOf[t]])
      <4>1. after \in Statuses
        BY <2>0 DEF Resumed, Statuses
      <4>2. Moved(after, "failed") # "running"
        BY <4>1, LeftNotRunning
      <4>3. status' = [status EXCEPT ![runOf[t]] = Moved(after, "failed")]
        BY <1>2, <2>1 DEF ContinueRun
      <4>. HIDE DEF after
      <4>. QED BY <2>0, <4>2, <4>3 DEF TypeOK
    <3>. QED BY <1>2, <2>0, <2>1, <3>1, NoneStartsNoneLeaves
             DEF ContinueRun, Finally, Executing, TypeOK
  <2>2. CASE chat # "deleted"
    <3>. SUFFICES ASSUME up', NEW r \in Runs, status'[r] = "running"
                  PROVE  \E v \in Tasks : Executing(v)' /\ runOf'[v] = r
      BY DEF RunningIsExecuted
    <3>1. CASE r = runOf[t]
      BY <1>2, <2>2, <3>1 DEF ContinueRun, Executing, TypeOK
    <3>2. CASE r # runOf[t]
      <4>1. status[r] = "running" /\ up
        BY <1>2, <2>2, <3>2 DEF ContinueRun, TypeOK
      <4>2. PICK v \in Tasks : Executing(v) /\ runOf[v] = r
        BY <4>1 DEF RunningIsExecuted
      <4>. QED BY <1>2, <2>0, <2>2, <4>2 DEF ContinueRun, Executing, TypeOK
    <3>. QED BY <3>1, <3>2
  <2>. QED BY <2>1, <2>2
<1>3. CASE PauseOnChunk(t)
  BY <1>3, EndWithKeepsExecuted DEF PauseOnChunk
<1>4. CASE StopOnCancelRequest(t)
  BY <1>4, EndWithKeepsExecuted DEF StopOnCancelRequest
<1>5. CASE StreamEnds(t)
  <2>1. CASE chat = "deleted"
    BY <1>5, <2>1, EndWithKeepsExecuted DEF StreamEnds
  <2>2. CASE chat # "deleted"
    BY <1>5, <2>2, NoneStartsNoneLeaves DEF StreamEnds, Executing, TypeOK, stored
  <2>. QED BY <2>1, <2>2
<1>6. CASE StreamRaises(t)
  BY <1>6, EndWithKeepsExecuted DEF StreamRaises
<1>7. CASE Finalize(t)
  BY <1>7, EndWithKeepsExecuted DEF Finalize
<1>8. CASE HandleCancelled(t)
  BY <1>8, EndWithKeepsExecuted DEF HandleCancelled
<1>9. CASE CancelledBeforeFirstStep(t)
  BY <1>9, NoneStartsNoneLeaves
     DEF CancelledBeforeFirstStep, FirstStep, NextToStart, Executing, TypeOK, stored
<1>10. CASE ResumeAfterStale(t)
  BY <1>10, NoneStartsNoneLeaves DEF ResumeAfterStale, Executing, TypeOK, stored
<1>. QED BY <1>1, <1>2, <1>3, <1>4, <1>5, <1>6, <1>7, <1>8, <1>9, <1>10 DEF TaskStep

LEMMA CancelEntryKeepsExecuted ==
    ASSUME TypeOK, RunningIsExecuted, CancelEntry, up' = up
    PROVE  RunningIsExecuted'
<1>1. \A r \in Runs : status'[r] = "running" => status[r] = "running"
  <2>1. CASE runOf[entry] = NoRun
    BY <2>1 DEF CancelEntry
  <2>2. CASE runOf[entry] # NoRun
    BY <2>2, TransitionStartsNone DEF CancelEntry, TypeOK, Statuses
  <2>. QED BY <2>1, <2>2
<1>. QED BY <1>1, NoneStartsNoneLeaves DEF CancelEntry, Executing

LEMMA RequestKeepsExecuted ==
    ASSUME TypeOK, RunningIsExecuted, Request
    PROVE  RunningIsExecuted'
<1>1. ASSUME NEW t \in Tasks, Start(t) PROVE RunningIsExecuted'
  BY <1>1, NoneStartsNoneLeaves DEF Start, Fresh, Executing, TypeOK, stored
<1>2. CASE CancelChat
  BY <1>2, CancelEntryKeepsExecuted DEF CancelChat
<1>3. ASSUME NEW r \in Runs, NEW byOwner \in BOOLEAN, CancelRun(r, byOwner)
      PROVE  RunningIsExecuted'
  BY <1>3, CancelEntryKeepsExecuted, NoneStartsNoneLeaves
     DEF CancelRun, Executing, stored, memory
<1>4. ASSUME NEW r \in Runs, Reject(r) PROVE RunningIsExecuted'
  <2>1. \A q \in Runs : status'[q] = "running" => status[q] = "running"
    BY <1>4, TransitionStartsNone DEF Reject, Statuses
  <2>. QED BY <1>4, <2>1, NoneStartsNoneLeaves DEF Reject, Executing, memory
<1>5. ASSUME NEW r \in Runs, NEW t \in Tasks, Approve(r, t) PROVE RunningIsExecuted'
  BY <1>5, NoneStartsNoneLeaves DEF Approve, Fresh, Executing, TypeOK
<1>6. ASSUME NEW r \in Runs, ApproveFails(r) PROVE RunningIsExecuted'
  BY <1>6, NoneStartsNoneLeaves DEF ApproveFails, Executing, memory
<1>7. CASE DeleteChat
  BY <1>7, NoneStartsNoneLeaves DEF DeleteChat, Executing, memory
<1>. QED BY <1>1, <1>2, <1>3, <1>4, <1>5, <1>6, <1>7 DEF Request

LEMMA OutsideKeepsExecuted ==
    ASSUME TypeOK, RunningIsExecuted
    PROVE  /\ \A t \in Tasks : RegisterSession(t) => RunningIsExecuted'
           /\ \A r \in Runs : ToolCall(r) => RunningIsExecuted'
           /\ Crash => RunningIsExecuted'
           /\ Startup => RunningIsExecuted'
<1>1. ASSUME NEW t \in Tasks, RegisterSession(t) PROVE RunningIsExecuted'
  BY <1>1, NoneStartsNoneLeaves DEF RegisterSession, Executing, memory
<1>2. ASSUME NEW r \in Runs, ToolCall(r) PROVE RunningIsExecuted'
  <2>1. \A q \in Runs : status'[q] = "running" => status[q] = "running"
    BY <1>2, TransitionStartsNone DEF ToolCall, Statuses
  <2>. QED BY <1>2, <2>1, NoneStartsNoneLeaves DEF ToolCall, Executing, memory
<1>3. ASSUME Crash PROVE RunningIsExecuted'
  BY <1>3 DEF Crash, RunningIsExecuted
<1>4. ASSUME Startup PROVE RunningIsExecuted'
  BY <1>4, LeftNotRunning DEF Startup, RunningIsExecuted, TypeOK
<1>. QED BY <1>1, <1>2, <1>3, <1>4

\* A run stored as running while the service is up is executed by a task of this
\* process: whatever the users, the hook and the engine do, and however often the
\* service crashes.
THEOREM RunningExecuted == Spec => []RunningIsExecuted
<1>1. Init => RunningIsExecuted
  BY DEF Init, RunningIsExecuted
<1>2. TypeOK /\ RunningIsExecuted /\ [Next]_vars => RunningIsExecuted'
  <2>. SUFFICES ASSUME TypeOK, RunningIsExecuted, [Next]_vars PROVE RunningIsExecuted'
    OBVIOUS
  <2>1. CASE UNCHANGED vars
    BY <2>1 DEF RunningIsExecuted, Executing, vars, stored, memory
  <2>2. CASE Next
    BY <2>2, TaskStepKeepsExecuted, RequestKeepsExecuted, OutsideKeepsExecuted DEF Next
  <2>. QED BY <2>1, <2>2
<1>. QED BY <1>1, <1>2, TypeCorrect, PTL DEF Spec

(***************************************************************************)
(* The spinner of the chat.                                                *)
(***************************************************************************)

\* A step that does not start to show the chat as running, nor ends a task.
LEMMA SpinnerUndisturbed ==
    ASSUME SpinnerHasTask, crashes' = crashes, chat' = "running" => chat = "running",
           \A t \in Tasks : Executing(t) => Executing(t)'
    PROVE  SpinnerHasTask'
<1>. SUFFICES ASSUME crashes' = 0, chat' = "running" PROVE \E v \in Tasks : Executing(v)'
  BY DEF SpinnerHasTask
<1>1. PICK v \in Tasks : Executing(v)
  BY DEF SpinnerHasTask
<1>. QED BY <1>1

\* A task that leaves shows the chat as anything but running.
LEMMA EndWithSpinner ==
    ASSUME NEW t \in Tasks, NEW u, NEW s \in {"waiting_approval", "idle", "failed"},
           EndWith(t, u, s)
    PROVE  SpinnerHasTask'
BY DEF EndWith, ChatAfter, SpinnerHasTask

LEMMA SpinnerInductive ==
    ASSUME TypeOK, SpinnerHasTask, Next
    PROVE  SpinnerHasTask'
<1>1. ASSUME NEW t \in Tasks, TaskStep(t) PROVE SpinnerHasTask'
  <2>1. ASSUME NEW r \in Runs, BeginRun(t, r) PROVE SpinnerHasTask'
    BY <2>1 DEF BeginRun, SpinnerHasTask, Executing, TypeOK
  <2>2. CASE ContinueRun(t)
    BY <2>2 DEF ContinueRun, SpinnerHasTask, Executing, TypeOK
  <2>3. CASE PauseOnChunk(t) \/ StopOnCancelRequest(t) \/ StreamRaises(t)
             \/ Finalize(t) \/ HandleCancelled(t)
    BY <2>3, EndWithSpinner
       DEF PauseOnChunk, StopOnCancelRequest, StreamRaises, Finalize, HandleCancelled
  <2>4. CASE StreamEnds(t)
    <3>1. CASE chat = "deleted"
      BY <2>4, <3>1, EndWithSpinner DEF StreamEnds
    <3>2. CASE chat # "deleted"
      BY <2>4, <3>2, SpinnerUndisturbed DEF StreamEnds, Executing, TypeOK, stored, history
    <3>. QED BY <3>1, <3>2
  <2>5. CASE CancelledBeforeFirstStep(t)
    BY <2>5, SpinnerUndisturbed DEF CancelledBeforeFirstStep, FirstStep, NextToStart,
       Executing, TypeOK, stored, history
  <2>6. CASE ResumeAfterStale(t)
    BY <2>6, SpinnerUndisturbed DEF ResumeAfterStale, Executing, TypeOK, stored, history
  <2>. QED BY <1>1, <2>1, <2>2, <2>3, <2>4, <2>5, <2>6 DEF TaskStep
<1>2. CASE Request
  <2>1. ASSUME NEW t \in Tasks, Start(t) PROVE SpinnerHasTask'
    BY <2>1, SpinnerUndisturbed DEF Start, Fresh, Executing, TypeOK, stored, history
  <2>2. CASE CancelChat
    BY <2>2, SpinnerUndisturbed DEF CancelChat, CancelEntry, Executing, history
  <2>3. ASSUME NEW r \in Runs, NEW b \in BOOLEAN, CancelRun(r, b) PROVE SpinnerHasTask'
    BY <2>3, SpinnerUndisturbed DEF CancelRun, CancelEntry, Executing, stored, memory
  <2>4. ASSUME NEW r \in Runs, Reject(r) PROVE SpinnerHasTask'
    BY <2>4, SpinnerUndisturbed DEF Reject, ChatAfter, Executing, memory, history
  <2>5. ASSUME NEW r \in Runs, NEW t \in Tasks, Approve(r, t) PROVE SpinnerHasTask'
    BY <2>5, SpinnerUndisturbed DEF Approve, Fresh, Executing, TypeOK
  <2>6. ASSUME NEW r \in Runs, ApproveFails(r) PROVE SpinnerHasTask'
    BY <2>6, SpinnerUndisturbed DEF ApproveFails, Executing, memory, history
  <2>7. CASE DeleteChat
    BY <2>7, SpinnerUndisturbed DEF DeleteChat, Executing, memory, history
  <2>. QED BY <1>2, <2>1, <2>2, <2>3, <2>4, <2>5, <2>6, <2>7 DEF Request
<1>3. ASSUME NEW t \in Tasks, RegisterSession(t) PROVE SpinnerHasTask'
  BY <1>3, SpinnerUndisturbed DEF RegisterSession, Executing, memory, history
<1>4. ASSUME NEW r \in Runs, ToolCall(r) PROVE SpinnerHasTask'
  BY <1>4, SpinnerUndisturbed DEF ToolCall, ChatAfter, Executing, memory, history
<1>5. CASE Crash
  BY <1>5, ConstantsAssumption DEF Crash, SpinnerHasTask, TypeOK
<1>6. CASE Startup
  BY <1>6, SpinnerUndisturbed DEF Startup, Executing, memory, history
<1>. QED BY <1>1, <1>2, <1>3, <1>4, <1>5, <1>6 DEF Next

\* Until the service crashes, a chat shown as running has a task that will reset it.
THEOREM SpinnerIsReset == Spec => []SpinnerHasTask
<1>1. Init => SpinnerHasTask
  BY DEF Init, SpinnerHasTask
<1>2. TypeOK /\ SpinnerHasTask /\ [Next]_vars => SpinnerHasTask'
  <2>1. UNCHANGED vars => (SpinnerHasTask => SpinnerHasTask')
    BY DEF SpinnerHasTask, Executing, vars, stored, memory, history
  <2>. QED BY <2>1, SpinnerInductive
<1>. QED BY <1>1, <1>2, TypeCorrect, PTL DEF Spec

(***************************************************************************)
(* One flight at a time, as long as no approval has overlapped with a task *)
(* still in _runs.  The three properties are not inductive: a task that    *)
(* leaves empties _runs, and start() trusts an empty _runs.  What carries  *)
(* the induction is that a live task owns the one unfinished run.          *)
(***************************************************************************)

\* resume_after_approval() replaces nobody, so it never has to wait.
NoneReserved == ~overlapped => \A t \in Tasks : exec[t] # "reserved"

\* The one unfinished run is the run of the task that is alive.
LiveTaskOwns ==
    ~overlapped => \A t \in Tasks, r \in Runs :
                      (LiveTask(t) /\ status[r] \in Active) => runOf[t] = r

Flight == SingleFlight /\ OneActiveRun /\ WaitingIsShown /\ NoneReserved /\ LiveTaskOwns

\* No transition makes a run unfinished that is not.
LEMMA MovedActive ==
    ASSUME NEW s \in Statuses, NEW u \in Statuses
    PROVE  Moved(s, u) \in Active => s \in Active
BY DEF Moved, CanTransition, AllowedTransitions, Active, Statuses, Terminal

\* A run that is left is waiting only if it was meant to wait, or cannot stop waiting.
LEMMA MovedWaiting ==
    ASSUME NEW s \in Statuses, NEW u \in {"cancelled", "failed", "completed"},
           u = "completed" => s # "waiting_approval"
    PROVE  /\ Moved(s, u) # "waiting_approval"
           /\ Moved(Moved(s, u), "failed") # "waiting_approval"
BY DEF Moved, CanTransition, AllowedTransitions, Terminal, Statuses

\* transition() makes no run unfinished that is not.
LEMMA TransitionActive ==
    ASSUME TypeOK, NEW q \in Runs, NEW u \in Statuses, status' = Transition(q, u)
    PROVE  \A r \in Runs : status'[r] \in Active => status[r] \in Active
<1>1. \A r \in Runs : status[r] \in Statuses
  BY DEF TypeOK
<1>. QED BY <1>1, MovedActive DEF Transition, TypeOK

\* A step that leaves _runs alone, brings no task to life and no run to waiting without
\* showing it.
LEMMA FlightUndisturbed ==
    ASSUME Flight, overlapped' = overlapped, entry' = entry, exec' = exec, runOf' = runOf,
           \A r \in Runs : status'[r] \in Active => status[r] \in Active,
           \/ chat' \in {"waiting_approval", "deleted"}
           \/ /\ chat' = chat
              /\ \A r \in Runs : status'[r] = "waiting_approval" => status[r] = "waiting_approval"
    PROVE  Flight'
<1>1. SingleFlight' /\ NoneReserved'
  BY DEF Flight, SingleFlight, NoneReserved, LiveTask
<1>2. OneActiveRun' /\ LiveTaskOwns'
  BY DEF Flight, OneActiveRun, LiveTaskOwns, LiveTask
<1>3. WaitingIsShown'
  BY DEF Flight, WaitingIsShown
<1>. QED BY <1>1, <1>2, <1>3 DEF Flight

\* A task that ends was the only one, and its run the only one that can be left waiting.
LEMMA EndWithFlight ==
    ASSUME TypeOK, Flight, NEW t \in Tasks, Executing(t),
           NEW u \in {"waiting_approval", "failed", "cancelled", "completed"},
           NEW s \in ChatStatuses, EndWith(t, u, s),
           u = "completed" => status[runOf[t]] # "waiting_approval",
           u = "waiting_approval" => s = "waiting_approval"
    PROVE  Flight'
<1>. SUFFICES ASSUME ~overlapped PROVE Flight'
  BY DEF Flight, SingleFlight, OneActiveRun, WaitingIsShown, NoneReserved, LiveTaskOwns,
         EndWith, Finally, history
<1>1. \A v \in Tasks : v # t => ~LiveTask(v)
  BY DEF Flight, SingleFlight, LiveTask, Executing
<1>2. \A v \in Tasks : ~LiveTask(v)'
  BY <1>1 DEF EndWith, Finally, LiveTask, TypeOK
<1>3. SingleFlight' /\ LiveTaskOwns'
  BY <1>2 DEF SingleFlight, LiveTaskOwns
<1>4. NoneReserved'
  BY DEF Flight, NoneReserved, EndWith, Finally, TypeOK
<1>5. \A r \in Runs : status[r] \in Statuses
  BY DEF TypeOK
<1>6. \A r \in Runs : status'[r] \in Active => status[r] \in Active
  <2>. TAKE r \in Runs
  <2>1. CASE r = runOf[t]
    <3>1. Moved(status[r], u) \in Statuses
      BY <1>5, MovedType DEF Statuses
    <3>. QED BY <1>5, <2>1, <3>1, MovedActive DEF EndWith, TypeOK, Statuses
  <2>2. CASE r # runOf[t]
    BY <2>2 DEF EndWith, TypeOK
  <2>. QED BY <2>1, <2>2
<1>7. OneActiveRun'
  BY <1>6 DEF Flight, OneActiveRun
<1>8. WaitingIsShown'
  <2>. SUFFICES ASSUME NEW r \in Runs, status'[r] = "waiting_approval"
                PROVE  chat' \in {"waiting_approval", "deleted"}
    BY DEF WaitingIsShown
  <2>1. CASE s = "waiting_approval"
    BY <2>1 DEF EndWith, ChatAfter
  <2>2. CASE s # "waiting_approval"
    <3>1. runOf[t] = r
      BY <1>6 DEF Flight, LiveTaskOwns, LiveTask, Executing, Active
    <3>2. u \in {"cancelled", "failed", "completed"}
      BY <2>2
    <3>. QED BY <1>5, <3>1, <3>2, MovedWaiting DEF EndWith, TypeOK
  <2>. QED BY <2>1, <2>2
<1>. QED BY <1>3, <1>4, <1>7, <1>8 DEF Flight

\* A task moves on, or ends without having run: the rest stays as it is.
LEMMA FlightWithoutTask ==
    ASSUME TypeOK, Flight, NEW t \in Tasks, overlapped' = overlapped, entry' = entry,
           runOf' = runOf, status' = status, chat' = chat,
           NEW e \in ExecStates \ {"reserved"}, exec' = [exec EXCEPT ![t] = e],
           e \in {"scheduled", "streaming", "tokens"} => LiveTask(t)
    PROVE  Flight'
<1>1. \A v \in Tasks : LiveTask(v)' => LiveTask(v)
  BY DEF LiveTask, TypeOK
<1>2. SingleFlight' /\ LiveTaskOwns'
  BY <1>1 DEF Flight, SingleFlight, LiveTaskOwns
<1>3. NoneReserved'
  BY DEF Flight, NoneReserved, TypeOK
<1>. QED BY <1>2, <1>3 DEF Flight, OneActiveRun, WaitingIsShown

\* The first step of the task in _runs: its run becomes the one unfinished run, and
\* no other run can be waiting while the chat is shown as running.
LEMMA FirstStepFlight ==
    ASSUME TypeOK, Flight, NEW t \in Tasks,
           ContinueRun(t) \/ \E r \in Runs : BeginRun(t, r)
    PROVE  Flight'
<1>0. overlapped' = overlapped /\ exec[t] = "scheduled"
  BY DEF ContinueRun, BeginRun, Finally, FirstStep, NextToStart, history
<1>. SUFFICES ASSUME ~overlapped PROVE Flight'
  BY <1>0 DEF Flight, SingleFlight, OneActiveRun, WaitingIsShown, NoneReserved, LiveTaskOwns
<1>1. entry = t /\ \A v \in Tasks : v # t => ~LiveTask(v)
  BY <1>0 DEF Flight, SingleFlight, LiveTask
<1>2. \A r \in Runs : status[r] \in Active => runOf[t] = r
  BY <1>0 DEF Flight, LiveTaskOwns, LiveTask
<1>3. /\ \A v \in Tasks \ {t} : exec'[v] = exec[v]
      /\ exec'[t] \in {"free", "raised", "streaming"}
      /\ exec'[t] = "streaming" => entry' = entry
  BY DEF ContinueRun, BeginRun, Finally, TypeOK
<1>4. SingleFlight' /\ NoneReserved'
  BY <1>0, <1>1, <1>3 DEF Flight, SingleFlight, NoneReserved, LiveTask
<1>5. \A r \in Runs : status'[r] \in Active
                        => runOf'[t] = r \/ (exec'[t] # "streaming" /\ runOf[t] = r)
  <2>1. CASE ContinueRun(t)
    <3>1. \A r \in Runs : status'[r] # status[r] => r = runOf[t]
      BY <2>1 DEF ContinueRun, TypeOK
    <3>. QED BY <1>2, <2>1, <3>1 DEF ContinueRun, Finally, TypeOK
  <2>2. ASSUME NEW r \in Runs, BeginRun(t, r)
        PROVE \A q \in Runs : status'[q] \in Active
                 => runOf'[t] = q \/ (exec'[t] # "streaming" /\ runOf[t] = q)
    BY <1>2, <2>2, ConstantsAssumption DEF BeginRun, Finally, TypeOK, Active
  <2>. QED BY <2>1, <2>2
<1>6. OneActiveRun'
  BY <1>3, <1>5, ConstantsAssumption DEF OneActiveRun, ContinueRun, BeginRun, Finally, TypeOK
<1>7. LiveTaskOwns'
  BY <1>1, <1>3, <1>5 DEF LiveTaskOwns, LiveTask
<1>8. WaitingIsShown'
  <2>1. CASE ContinueRun(t)
    BY <1>2, <2>1 DEF ContinueRun, Resumed, WaitingIsShown, TypeOK, Active
  <2>2. ASSUME NEW r \in Runs, BeginRun(t, r) PROVE WaitingIsShown'
    BY <1>2, <2>2, ConstantsAssumption DEF BeginRun, WaitingIsShown, TypeOK, Active
  <2>. QED BY <2>1, <2>2
<1>. QED BY <1>4, <1>6, <1>7, <1>8 DEF Flight

LEMMA TaskStepFlight ==
    ASSUME TypeOK, Flight, NEW t \in Tasks, TaskStep(t)
    PROVE  Flight'
<1>1. CASE ContinueRun(t) \/ \E r \in Runs : BeginRun(t, r)
  BY <1>1, FirstStepFlight
<1>2. CASE PauseOnChunk(t)
  BY <1>2, EndWithFlight DEF PauseOnChunk, Executing, ChatStatuses
<1>3. CASE StopOnCancelRequest(t)
  BY <1>3, EndWithFlight DEF StopOnCancelRequest, Executing, ChatStatuses
<1>4. CASE StreamEnds(t)
  <2>1. CASE chat = "deleted"
    BY <1>4, <2>1, EndWithFlight DEF StreamEnds, Executing, ChatStatuses
  <2>2. CASE chat # "deleted"
    BY <1>4, <2>2, FlightWithoutTask DEF StreamEnds, LiveTask, ExecStates, stored, history
  <2>. QED BY <2>1, <2>2
<1>5. CASE StreamRaises(t)
  BY <1>5, EndWithFlight DEF StreamRaises, Executing, ChatStatuses
<1>6. CASE Finalize(t)
  BY <1>6, EndWithFlight DEF Finalize, Executing, ChatStatuses
<1>7. CASE HandleCancelled(t)
  BY <1>7, EndWithFlight DEF HandleCancelled, Executing, ChatStatuses
<1>8. CASE CancelledBeforeFirstStep(t)
  BY <1>8, FlightWithoutTask DEF CancelledBeforeFirstStep, ExecStates, stored, history
<1>9. CASE ResumeAfterStale(t)
  <2>1. overlapped
    BY <1>9 DEF ResumeAfterStale, Flight, NoneReserved
  <2>. QED BY <1>9, <2>1 DEF ResumeAfterStale, history, Flight, SingleFlight, OneActiveRun,
           WaitingIsShown, NoneReserved, LiveTaskOwns
<1>. QED BY <1>1, <1>2, <1>3, <1>4, <1>5, <1>6, <1>7, <1>8, <1>9 DEF TaskStep

LEMMA RequestFlight ==
    ASSUME TypeOK, Flight, Request
    PROVE  Flight'
<1>1. ASSUME NEW t \in Tasks, Start(t) PROVE Flight'
  <2>1. CASE overlapped
    BY <1>1, <2>1 DEF Start, history, Flight, SingleFlight, OneActiveRun, WaitingIsShown,
       NoneReserved, LiveTaskOwns
  <2>2. CASE ~overlapped
    <3>1. \A v \in Tasks : ~LiveTask(v)
      BY <1>1, <2>2, ConstantsAssumption DEF Start, Flight, SingleFlight
    <3>2. SingleFlight' /\ NoneReserved'
      BY <1>1, <2>2, <3>1 DEF Start, Flight, SingleFlight, NoneReserved, LiveTask, TypeOK
    <3>3. OneActiveRun' /\ LiveTaskOwns' /\ WaitingIsShown'
      BY <1>1, <2>2 DEF Start, NoUnfinishedRun, Flight, OneActiveRun, LiveTaskOwns, WaitingIsShown,
         stored, history, Active
    <3>. QED BY <3>2, <3>3 DEF Flight
  <2>. QED BY <2>1, <2>2
<1>2. ASSUME CancelEntry, overlapped' = overlapped PROVE Flight'
  <2>1. \A r \in Runs : status'[r] \in Active => status[r] \in Active
    <3>1. CASE runOf[entry] = NoRun
      BY <1>2, <3>1 DEF CancelEntry
    <3>2. CASE runOf[entry] # NoRun
      BY <1>2, <3>2, TransitionActive DEF CancelEntry, TypeOK, Statuses
    <3>. QED BY <3>1, <3>2
  <2>2. \A r \in Runs : status'[r] = "waiting_approval" => status[r] = "waiting_approval"
    BY <1>2 DEF CancelEntry, Transition, Moved, TypeOK
  <2>. QED BY <1>2, <2>1, <2>2, FlightUndisturbed DEF CancelEntry
<1>3. CASE CancelChat
  BY <1>2, <1>3 DEF CancelChat, history
<1>4. ASSUME NEW r \in Runs, NEW b \in BOOLEAN, CancelRun(r, b) PROVE Flight'
  BY <1>2, <1>4, FlightUndisturbed DEF CancelRun, stored, memory
<1>5. ASSUME NEW r \in Runs, Reject(r) PROVE Flight'
  <2>1. /\ \A q \in Runs : status'[q] \in Active => status[q] \in Active
        /\ status'[r] = "blocked"
        /\ \A q \in Runs : q # r => status'[q] = status[q]
    <3>1. \A q \in Runs : status'[q] \in Active => status[q] \in Active
      BY <1>5, TransitionActive DEF Reject, Statuses
    <3>. QED BY <1>5, <3>1 DEF Reject, Transition, Moved, CanTransition, AllowedTransitions,
             Terminal, TypeOK
  <2>2. SingleFlight' /\ NoneReserved' /\ OneActiveRun' /\ LiveTaskOwns'
    BY <1>5, <2>1 DEF Reject, Flight, SingleFlight, NoneReserved, OneActiveRun, LiveTaskOwns,
       LiveTask, memory, history
  <2>3. WaitingIsShown'
    BY <1>5, <2>1 DEF Reject, Flight, WaitingIsShown, OneActiveRun, Active, history
  <2>. QED BY <2>2, <2>3 DEF Flight
<1>6. ASSUME NEW r \in Runs, NEW t \in Tasks, Approve(r, t) PROVE Flight'
  <2>1. CASE overlapped'
    BY <2>1 DEF Flight, SingleFlight, OneActiveRun, WaitingIsShown, NoneReserved, LiveTaskOwns
  <2>2. CASE ~overlapped'
    <3>1. ~overlapped /\ entry = NoTask
      BY <1>6, <2>2 DEF Approve, TypeOK
    <3>2. \A v \in Tasks : ~LiveTask(v)
      BY <3>1, ConstantsAssumption DEF Flight, SingleFlight
    <3>3. exec' = [exec EXCEPT ![t] = "scheduled"] /\ entry' = t /\ runOf' = [runOf EXCEPT ![t] = r]
      BY <1>6, <3>1 DEF Approve
    <3>4. SingleFlight' /\ NoneReserved'
      BY <3>1, <3>2, <3>3 DEF Flight, SingleFlight, NoneReserved, LiveTask, TypeOK
    <3>5. OneActiveRun' /\ WaitingIsShown'
      BY <1>6, <3>1 DEF Approve, Flight, OneActiveRun, WaitingIsShown
    <3>6. LiveTaskOwns'
      BY <1>6, <3>1, <3>2, <3>3 DEF Approve, Flight, OneActiveRun, LiveTaskOwns, LiveTask,
         Active, TypeOK
    <3>. QED BY <3>4, <3>5, <3>6 DEF Flight
  <2>. QED BY <2>1, <2>2
<1>7. ASSUME NEW r \in Runs, ApproveFails(r) PROVE Flight'
  BY <1>7, FlightUndisturbed DEF ApproveFails, memory, history
<1>8. CASE DeleteChat
  BY <1>8, FlightUndisturbed DEF DeleteChat, memory, history
<1>. QED BY <1>1, <1>3, <1>4, <1>5, <1>6, <1>7, <1>8 DEF Request

LEMMA OutsideFlight ==
    ASSUME TypeOK, Flight
    PROVE  /\ \A t \in Tasks : RegisterSession(t) => Flight'
           /\ \A r \in Runs : ToolCall(r) => Flight'
           /\ Crash => Flight'
           /\ Startup => Flight'
<1>1. ASSUME NEW t \in Tasks, RegisterSession(t) PROVE Flight'
  BY <1>1, FlightUndisturbed DEF RegisterSession, memory, history
<1>2. ASSUME NEW r \in Runs, ToolCall(r) PROVE Flight'
  <2>1. \A q \in Runs : status'[q] \in Active => status[q] \in Active
    BY <1>2, TransitionActive DEF ToolCall, Statuses
  <2>2. CASE r \in grants
    BY <1>2, <2>1, <2>2, FlightUndisturbed DEF ToolCall, memory, history
  <2>3. CASE r \notin grants
    BY <1>2, <2>1, <2>3, FlightUndisturbed DEF ToolCall, ChatAfter, memory, history
  <2>. QED BY <2>2, <2>3
<1>3. ASSUME Crash PROVE Flight'
  <2>1. SingleFlight' /\ NoneReserved' /\ LiveTaskOwns'
    BY <1>3 DEF Crash, SingleFlight, NoneReserved, LiveTaskOwns, LiveTask
  <2>2. CASE status' = status
    BY <1>3, <2>1, <2>2 DEF Crash, Flight, OneActiveRun, WaitingIsShown
  <2>3. CASE status' # status
    <3>1. PICK t \in Tasks, r \in Runs :
             /\ NextToStart(t) /\ runOf[t] = NoRun
             /\ status' = [status EXCEPT ![r] = "created"]
      BY <1>3, <2>3 DEF Crash
    <3>2. ~overlapped => \A q \in Runs : status[q] \notin Active
      BY <3>1, ConstantsAssumption DEF NextToStart, Flight, LiveTaskOwns, LiveTask
    <3>. QED BY <1>3, <2>1, <3>1, <3>2 DEF Crash, Flight, OneActiveRun, WaitingIsShown,
             Active, TypeOK
  <2>. QED BY <2>2, <2>3
<1>4. ASSUME Startup PROVE Flight'
  <2>1. \A r \in Runs : status[r] \in Statuses
    BY DEF TypeOK
  <2>2. \A r \in Runs : status'[r] \in Active => status[r] \in Active
    BY <1>4, <2>1, MovedActive DEF Startup, Statuses
  <2>3. \A r \in Runs : status'[r] = "waiting_approval" => status[r] = "waiting_approval"
    BY <1>4 DEF Startup, Moved
  <2>. QED BY <1>4, <2>2, <2>3, FlightUndisturbed DEF Startup, memory, history
<1>. QED BY <1>1, <1>2, <1>3, <1>4

LEMMA FlightInvariant == Spec => []Flight
<1>1. Init => Flight
  BY DEF Init, Flight, SingleFlight, OneActiveRun, WaitingIsShown, NoneReserved,
         LiveTaskOwns, LiveTask, Active
<1>2. TypeOK /\ Flight /\ [Next]_vars => Flight'
  <2>. SUFFICES ASSUME TypeOK, Flight, [Next]_vars PROVE Flight'
    OBVIOUS
  <2>1. CASE UNCHANGED vars
    BY <2>1, FlightUndisturbed DEF vars, stored, memory, history
  <2>2. CASE Next
    BY <2>2, TaskStepFlight, RequestFlight, OutsideFlight DEF Next
  <2>. QED BY <2>1, <2>2
<1>. QED BY <1>1, <1>2, TypeCorrect, PTL DEF Spec

\* Until an approval overlaps with a task in _runs, the chat has one task at a time, it
\* is the one cancel_chat() finds, it owns the one unfinished run, and a run that waits
\* is shown to the operator.
THEOREM OneFlight == Spec => []OneAtATime
<1>1. Flight => OneAtATime
  BY DEF Flight, OneAtATime
<1>. QED BY <1>1, FlightInvariant, PTL

(***************************************************************************)
(* What waits can be decided.  An approval can go nowhere only if _runs    *)
(* holds a task of another run, or if the task that resumes the run is     *)
(* cancelled before its first step; neither leaves a waiting run behind.   *)
(***************************************************************************)

\* The one unfinished run is the run of the _ChatRun in _runs, whatever its task does.
EntryOwns ==
    (~overlapped /\ entry # NoTask) =>
        \A r \in Runs : status[r] \in Active => runOf[entry] = r

\* A task is cancelled only by cancel_chat(), which has finished its run already.
CancelledIsFinished ==
    ~overlapped =>
        \A t \in cancelPending :
            LiveTask(t) /\ (runOf[t] \in Runs => status[runOf[t]] \in Terminal)

\* A _ChatRun names no run that does not exist.
RunOfExists == \A t \in Tasks : runOf[t] \in Runs => status[runOf[t]] # "none"

Decidable == EntryOwns /\ CancelledIsFinished /\ RunOfExists /\ WaitingIsActionable

\* transition() keeps finished runs finished and existing runs existing, and cancelling a
\* run that exists finishes it.
LEMMA MovedExisting ==
    ASSUME NEW s \in Statuses, NEW u \in Statuses \ {"none"}
    PROVE  /\ s \in Terminal => Moved(s, u) \in Terminal
           /\ s # "none" => Moved(s, u) # "none"
           /\ s # "none" => Moved(s, "cancelled") \in Terminal
BY DEF Moved, CanTransition, AllowedTransitions, Terminal, Statuses

\* A step outside _runs that takes no approval request from a run that still waits.
LEMMA DecidableUndisturbed ==
    ASSUME Decidable, overlapped' = overlapped, entry' = entry, exec' = exec,
           runOf' = runOf, cancelPending' = cancelPending, up' => up,
           chat' # "deleted" => chat # "deleted",
           \A r \in Runs : /\ status'[r] \in Active => status[r] \in Active
                           /\ status[r] \in Terminal => status'[r] \in Terminal
                           /\ status[r] # "none" => status'[r] # "none"
                           /\ status'[r] = "waiting_approval"
                                => \/ r \in pending'
                                   \/ status[r] = "waiting_approval" /\ r \notin pending
    PROVE  Decidable'
<1>1. EntryOwns' /\ RunOfExists'
  BY DEF Decidable, EntryOwns, RunOfExists
<1>2. CancelledIsFinished'
  BY DEF Decidable, CancelledIsFinished, LiveTask
<1>3. WaitingIsActionable'
  BY DEF Decidable, WaitingIsActionable
<1>. QED BY <1>1, <1>2, <1>3 DEF Decidable

\* With an overlap behind it the invariant says only that the runs of tasks exist.
LEMMA DecidableAfterOverlap ==
    ASSUME overlapped', RunOfExists' PROVE Decidable'
BY DEF Decidable, EntryOwns, CancelledIsFinished, WaitingIsActionable

\* A task that ends leaves its run waiting only with the request it waits for.
LEMMA EndWithDecidable ==
    ASSUME TypeOK, Flight, Decidable, NEW t \in Tasks, Executing(t),
           NEW u \in {"waiting_approval", "failed", "cancelled", "completed"},
           NEW s, EndWith(t, u, s),
           u = "waiting_approval" => status[runOf[t]] = "waiting_approval"
    PROVE  Decidable'
<1>1. \A r \in Runs : status[r] \in Statuses
  BY DEF TypeOK
<1>2. RunOfExists'
  <2>. SUFFICES ASSUME NEW v \in Tasks, runOf'[v] \in Runs PROVE status'[runOf'[v]] # "none"
    BY DEF RunOfExists
  <2>1. runOf'[v] = runOf[v]
    BY ConstantsAssumption DEF EndWith, Finally, TypeOK
  <2>2. status[runOf[v]] \in Statuses /\ status[runOf[v]] # "none"
    BY <1>1, <2>1 DEF Decidable, RunOfExists
  <2>3. Moved(status[runOf[v]], u) \in Statuses
    BY <2>2, MovedType DEF Statuses
  <2>. QED BY <2>1, <2>2, <2>3, MovedExisting DEF EndWith, TypeOK, Statuses
<1>3. CASE overlapped
  BY <1>2, <1>3, DecidableAfterOverlap DEF EndWith, Finally, history
<1>4. CASE ~overlapped
  <2>1. entry = t /\ \A v \in Tasks : LiveTask(v) => v = t
    BY <1>4 DEF Flight, SingleFlight, LiveTask, Executing
  <2>2. EntryOwns'
    BY DEF EntryOwns, EndWith, Finally
  <2>3. CancelledIsFinished'
    BY <1>4, <2>1 DEF Decidable, CancelledIsFinished, EndWith, Finally, TypeOK
  <2>4. WaitingIsActionable'
    <3>. SUFFICES ASSUME up', chat' # "deleted", NEW r \in Runs,
                         status'[r] = "waiting_approval"
                  PROVE  r \in pending'
      BY DEF WaitingIsActionable
    <3>1. up /\ chat # "deleted" /\ pending' = pending
      BY DEF EndWith, Finally, ChatAfter
    <3>2. status[r] = "waiting_approval"
      <4>1. CASE r = runOf[t]
        BY <1>1, <3>1, <4>1 DEF EndWith, Moved, TypeOK
      <4>2. CASE r # runOf[t]
        BY <4>2 DEF EndWith, TypeOK
      <4>. QED BY <4>1, <4>2
    <3>. QED BY <1>4, <2>1, <3>1, <3>2 DEF Decidable, WaitingIsActionable, LiveTask, Executing
  <2>. QED BY <1>2, <2>2, <2>3, <2>4 DEF Decidable
<1>. QED BY <1>3, <1>4

\* The task that starts resumes the run that waits, if one does.
LEMMA FirstStepDecidable ==
    ASSUME TypeOK, Flight, Decidable, NEW t \in Tasks,
           ContinueRun(t) \/ \E r \in Runs : BeginRun(t, r)
    PROVE  Decidable'
<1>0. overlapped' = overlapped /\ exec[t] = "scheduled"
  BY DEF ContinueRun, BeginRun, Finally, FirstStep, NextToStart, history
<1>1. \A r \in Runs : status[r] \in Statuses
  BY DEF TypeOK
<1>2. RunOfExists'
  <2>. SUFFICES ASSUME NEW v \in Tasks, runOf'[v] \in Runs PROVE status'[runOf'[v]] # "none"
    BY DEF RunOfExists
  <2>1. CASE ContinueRun(t)
    <3>1. runOf'[v] = runOf[v] /\ status[runOf[v]] # "none"
      BY <2>1, ConstantsAssumption DEF ContinueRun, Finally, Decidable, RunOfExists, TypeOK
    <3>. QED BY <2>1, <3>1 DEF ContinueRun, Resumed, Moved, TypeOK
  <2>2. ASSUME NEW r \in Runs, BeginRun(t, r) PROVE status'[runOf'[v]] # "none"
    BY <2>2, ConstantsAssumption DEF BeginRun, Finally, Decidable, RunOfExists, TypeOK
  <2>. QED BY <2>1, <2>2
<1>3. CASE overlapped
  BY <1>0, <1>2, <1>3, DecidableAfterOverlap
<1>4. CASE ~overlapped
  <2>1. entry = t /\ \A v \in Tasks : LiveTask(v) => v = t
    BY <1>0, <1>4 DEF Flight, SingleFlight, LiveTask
  <2>2. \A r \in Runs : status[r] \in Active => runOf[t] = r
    BY <1>0, <1>4 DEF Flight, LiveTaskOwns, LiveTask
  <2>3. cancelPending = {} /\ cancelPending' = {}
    BY <1>4, <2>1 DEF Decidable, CancelledIsFinished, TypeOK, ContinueRun, BeginRun, Finally
  <2>4. EntryOwns'
    <3>1. CASE ContinueRun(t)
      <4>1. \A r \in Runs : r # runOf[t] => status'[r] = status[r]
        BY <3>1 DEF ContinueRun, TypeOK
      <4>. QED BY <2>1, <2>2, <3>1, <4>1 DEF ContinueRun, Finally, EntryOwns
    <3>2. ASSUME NEW r \in Runs, BeginRun(t, r) PROVE EntryOwns'
      BY <2>1, <2>2, <3>2, ConstantsAssumption DEF BeginRun, Finally, EntryOwns, TypeOK
    <3>. QED BY <3>1, <3>2
  <2>5. \A r \in Runs : status'[r] # "waiting_approval" \/ chat' = "deleted"
    <3>1. CASE ContinueRun(t)
      BY <2>2, <3>1 DEF ContinueRun, Resumed, TypeOK, Active
    <3>2. ASSUME NEW r \in Runs, BeginRun(t, r)
          PROVE \A q \in Runs : status'[q] # "waiting_approval" \/ chat' = "deleted"
      BY <2>2, <3>2, ConstantsAssumption DEF BeginRun, TypeOK, Active
    <3>. QED BY <3>1, <3>2
  <2>. QED BY <1>2, <2>3, <2>4, <2>5 DEF Decidable, CancelledIsFinished, WaitingIsActionable
<1>. QED BY <1>3, <1>4

LEMMA TaskStepDecidable ==
    ASSUME TypeOK, Flight, Decidable, NEW t \in Tasks, TaskStep(t)
    PROVE  Decidable'
<1>1. CASE ContinueRun(t) \/ \E r \in Runs : BeginRun(t, r)
  BY <1>1, FirstStepDecidable
<1>2. CASE PauseOnChunk(t)
  BY <1>2, EndWithDecidable DEF PauseOnChunk, Executing
<1>3. CASE StopOnCancelRequest(t)
  BY <1>3, EndWithDecidable DEF StopOnCancelRequest, Executing
<1>4. CASE StreamEnds(t)
  <2>1. CASE chat = "deleted"
    BY <1>4, <2>1, EndWithDecidable DEF StreamEnds, Executing
  <2>2. CASE chat # "deleted"
    <3>1. exec' = [exec EXCEPT ![t] = "tokens"] /\ exec[t] = "streaming"
      BY <1>4, <2>2 DEF StreamEnds
    <3>2. UNCHANGED <<stored, entry, runOf, cancelPending, up, overlapped>>
      BY <1>4, <2>2 DEF StreamEnds, history
    <3>3. EntryOwns' /\ RunOfExists'
      BY <3>2 DEF Decidable, EntryOwns, RunOfExists, stored
    <3>4. CancelledIsFinished' /\ WaitingIsActionable'
      BY <3>1, <3>2 DEF Decidable, CancelledIsFinished, WaitingIsActionable, LiveTask,
         stored, TypeOK
    <3>. QED BY <3>3, <3>4 DEF Decidable
  <2>. QED BY <2>1, <2>2
<1>5. CASE StreamRaises(t)
  BY <1>5, EndWithDecidable DEF StreamRaises, Executing
<1>6. CASE Finalize(t)
  BY <1>6, EndWithDecidable DEF Finalize, Executing
<1>7. CASE HandleCancelled(t)
  BY <1>7, EndWithDecidable DEF HandleCancelled, Executing
<1>8. CASE CancelledBeforeFirstStep(t)
  <2>1. UNCHANGED <<status, chat, pending, entry, runOf, up, overlapped>>
    BY <1>8 DEF CancelledBeforeFirstStep, stored, history
  <2>2. EntryOwns' /\ RunOfExists'
    BY <2>1 DEF Decidable, EntryOwns, RunOfExists
  <2>3. CancelledIsFinished'
    BY <1>8, <2>1 DEF CancelledBeforeFirstStep, Decidable, CancelledIsFinished, LiveTask, TypeOK
  <2>4. WaitingIsActionable'
    BY <1>8, <2>1 DEF CancelledBeforeFirstStep, Decidable, CancelledIsFinished,
       WaitingIsActionable, TypeOK, Terminal
  <2>. QED BY <2>2, <2>3, <2>4 DEF Decidable
<1>9. CASE ResumeAfterStale(t)
  <2>1. overlapped'
    BY <1>9 DEF ResumeAfterStale, Flight, NoneReserved, history
  <2>2. RunOfExists'
    BY <1>9 DEF ResumeAfterStale, Decidable, RunOfExists, stored
  <2>. QED BY <2>1, <2>2, DecidableAfterOverlap
<1>. QED BY <1>1, <1>2, <1>3, <1>4, <1>5, <1>6, <1>7, <1>8, <1>9 DEF TaskStep

\* cancel_chat() finishes the run of the task it cancels.
LEMMA CancelEntryDecidable ==
    ASSUME TypeOK, Flight, Decidable, CancelEntry, overlapped' = overlapped, up' = up
    PROVE  Decidable'
<1>1. /\ entry \in Tasks
      /\ \A r \in Runs : status[r] \in Statuses
  BY DEF CancelEntry, TypeOK
<1>2. \A r \in Runs : /\ status'[r] \in Active => status[r] \in Active
                      /\ status[r] \in Terminal => status'[r] \in Terminal
                      /\ status[r] # "none" => status'[r] # "none"
                      /\ status'[r] = "waiting_approval" => status[r] = "waiting_approval"
  <2>1. CASE runOf[entry] = NoRun
    BY <2>1 DEF CancelEntry
  <2>2. CASE runOf[entry] # NoRun
    <3>1. status' = Transition(runOf[entry], "cancelled") /\ runOf[entry] \in Runs
      BY <1>1, <2>2 DEF CancelEntry, TypeOK
    <3>2. \A r \in Runs : status'[r] \in Active => status[r] \in Active
      BY <3>1, TransitionActive DEF Statuses
    <3>. QED BY <1>1, <3>1, <3>2, MovedExisting DEF Transition, Moved, TypeOK, Statuses, Terminal
  <2>. QED BY <2>1, <2>2
<1>3. runOf[entry] \in Runs => status'[runOf[entry]] \in Terminal
  BY <1>1, MovedExisting, ConstantsAssumption
     DEF CancelEntry, Transition, Decidable, RunOfExists, TypeOK, Statuses
<1>4. EntryOwns' /\ RunOfExists'
  BY <1>2 DEF Decidable, EntryOwns, RunOfExists, CancelEntry
<1>5. CancelledIsFinished'
  BY <1>1, <1>2, <1>3 DEF Decidable, CancelledIsFinished, CancelEntry, LiveTask, TypeOK
<1>6. WaitingIsActionable'
  BY <1>2 DEF Decidable, WaitingIsActionable, CancelEntry
<1>. QED BY <1>4, <1>5, <1>6 DEF Decidable

LEMMA RequestDecidable ==
    ASSUME TypeOK, Flight, Decidable, Request
    PROVE  Decidable'
<1>1. ASSUME NEW t \in Tasks, Start(t) PROVE Decidable'
  <2>1. RunOfExists'
    BY <1>1, ConstantsAssumption DEF Start, Decidable, RunOfExists, stored, TypeOK
  <2>2. CASE overlapped
    BY <1>1, <2>1, <2>2, DecidableAfterOverlap DEF Start, history
  <2>3. CASE ~overlapped
    <3>1. \A r \in Runs : status'[r] \notin Active
      BY <1>1 DEF Start, NoUnfinishedRun, stored
    <3>2. cancelPending' = {}
      BY <1>1, <2>3, ConstantsAssumption
         DEF Start, Decidable, CancelledIsFinished, Flight, SingleFlight, TypeOK
    <3>. QED BY <2>1, <3>1, <3>2 DEF Decidable, EntryOwns, CancelledIsFinished,
             WaitingIsActionable, Active
  <2>. QED BY <2>2, <2>3
<1>2. CASE CancelChat
  BY <1>2, CancelEntryDecidable DEF CancelChat, history
<1>3. ASSUME NEW r \in Runs, NEW b \in BOOLEAN, CancelRun(r, b) PROVE Decidable'
  <2>1. CASE b /\ entry # NoTask
    BY <1>3, <2>1, CancelEntryDecidable DEF CancelRun
  <2>2. CASE ~(b /\ entry # NoTask)
    BY <1>3, <2>2, DecidableUndisturbed DEF CancelRun, stored, memory
  <2>. QED BY <2>1, <2>2
<1>4. ASSUME NEW r \in Runs, Reject(r) PROVE Decidable'
  <2>1. /\ \A q \in Runs : status'[q] \in Active => status[q] \in Active
        /\ status[r] = "waiting_approval" /\ status'[r] = "blocked"
        /\ \A q \in Runs : q # r => status'[q] = status[q]
    <3>1. \A q \in Runs : status'[q] \in Active => status[q] \in Active
      BY <1>4, TransitionActive DEF Reject, Statuses
    <3>. QED BY <1>4, <3>1 DEF Reject, Transition, Moved, CanTransition, AllowedTransitions,
             Terminal, TypeOK
  <2>. QED BY <1>4, <2>1, DecidableUndisturbed
           DEF Reject, ChatAfter, memory, history, Terminal
<1>5. ASSUME NEW r \in Runs, NEW t \in Tasks, Approve(r, t) PROVE Decidable'
  <2>1. RunOfExists'
    BY <1>5 DEF Approve, Decidable, RunOfExists, TypeOK
  <2>2. CASE overlapped'
    BY <2>1, <2>2, DecidableAfterOverlap
  <2>3. CASE ~overlapped'
    <3>1. ~overlapped /\ entry = NoTask
      BY <1>5, <2>3 DEF Approve, TypeOK
    <3>2. /\ entry' = t /\ runOf'[t] = r /\ exec'[t] = "scheduled"
          /\ status' = status /\ status[r] = "waiting_approval"
      BY <1>5, <3>1 DEF Approve, TypeOK
    <3>3. \A q \in Runs : status[q] \in Active => q = r
      BY <3>1, <3>2 DEF Flight, OneActiveRun, Active
    <3>4. cancelPending = {}
      BY <3>1, ConstantsAssumption DEF Decidable, CancelledIsFinished, Flight, SingleFlight,
         TypeOK
    <3>5. cancelPending' = {}
      BY <1>5, <3>1, <3>4 DEF Approve
    <3>. QED BY <2>1, <3>2, <3>3, <3>5 DEF Decidable, EntryOwns, CancelledIsFinished,
             WaitingIsActionable, Active
  <2>. QED BY <2>2, <2>3
<1>6. ASSUME NEW r \in Runs, ApproveFails(r) PROVE Decidable'
  <2>1. RunOfExists'
    BY <1>6 DEF ApproveFails, Decidable, RunOfExists, memory
  <2>2. CASE overlapped
    BY <1>6, <2>1, <2>2, DecidableAfterOverlap DEF ApproveFails, history
  <2>3. CASE ~overlapped
    <3>1. chat = "deleted"
      BY <1>6, <2>3 DEF ApproveFails, Decidable, EntryOwns, Active
    <3>2. EntryOwns' /\ CancelledIsFinished'
      BY <1>6 DEF ApproveFails, Decidable, EntryOwns, CancelledIsFinished, LiveTask, memory,
         history
    <3>. QED BY <1>6, <2>1, <3>1, <3>2 DEF ApproveFails, Decidable, WaitingIsActionable
  <2>. QED BY <2>2, <2>3
<1>7. CASE DeleteChat
  BY <1>7, DecidableUndisturbed DEF DeleteChat, memory, history
<1>. QED BY <1>1, <1>2, <1>3, <1>4, <1>5, <1>6, <1>7 DEF Request

LEMMA OutsideDecidable ==
    ASSUME TypeOK, Flight, Decidable
    PROVE  /\ \A t \in Tasks : RegisterSession(t) => Decidable'
           /\ \A r \in Runs : ToolCall(r) => Decidable'
           /\ Crash => Decidable'
           /\ Startup => Decidable'
<1>0. \A r \in Runs : status[r] \in Statuses
  BY DEF TypeOK
<1>1. ASSUME NEW t \in Tasks, RegisterSession(t) PROVE Decidable'
  BY <1>1, DecidableUndisturbed DEF RegisterSession, memory, history
<1>2. ASSUME NEW r \in Runs, ToolCall(r) PROVE Decidable'
  <2>1. CASE r \in grants
    BY <1>2, <2>1, DecidableUndisturbed DEF ToolCall, memory, history
  <2>2. CASE r \notin grants
    <3>1. \A q \in Runs : status'[q] \in Active => status[q] \in Active
      BY <1>2, <2>2, TransitionActive DEF ToolCall, Statuses
    <3>2. \A q \in Runs : /\ status[q] \in Terminal => status'[q] \in Terminal
                          /\ status[q] # "none" => status'[q] # "none"
      BY <1>0, <1>2, <2>2, MovedExisting DEF ToolCall, Transition, TypeOK, Statuses
    <3>3. \A q \in Runs : q # r => status'[q] = status[q]
      BY <1>2, <2>2 DEF ToolCall, Transition, TypeOK
    <3>. QED BY <1>2, <2>2, <3>1, <3>2, <3>3, DecidableUndisturbed
             DEF ToolCall, ChatAfter, memory, history
  <2>. QED BY <2>1, <2>2
<1>3. ASSUME Crash PROVE Decidable'
  BY <1>3, ConstantsAssumption DEF Crash, Decidable, EntryOwns, CancelledIsFinished,
     RunOfExists, WaitingIsActionable
<1>4. ASSUME Startup PROVE Decidable'
  <2>1. \A q \in Runs : /\ status'[q] \in Active => status[q] \in Active
                        /\ status[q] \in Terminal => status'[q] \in Terminal
                        /\ status[q] # "none" => status'[q] # "none"
    BY <1>0, <1>4, MovedActive, MovedExisting DEF Startup, Statuses
  <2>2. \A q \in Runs : status'[q] # "waiting_approval"
    BY <1>0, <1>4, MovedWaiting DEF Startup
  <2>3. EntryOwns' /\ CancelledIsFinished' /\ RunOfExists'
    BY <1>4, <2>1 DEF Startup, Decidable, EntryOwns, CancelledIsFinished, RunOfExists,
       LiveTask, memory, history
  <2>. QED BY <2>2, <2>3 DEF Decidable, WaitingIsActionable
<1>. QED BY <1>1, <1>2, <1>3, <1>4

\* Until an approval overlaps with a task in _runs, no run of a chat is left waiting with
\* nobody to ask: its request is pending or the task that resumes it is scheduled.
THEOREM WaitingCanBeDecided == Spec => []WaitingIsActionable
<1>1. Init => Flight /\ Decidable
  BY ConstantsAssumption DEF Init, Flight, SingleFlight, OneActiveRun, WaitingIsShown,
     NoneReserved, LiveTaskOwns, LiveTask, Active, Decidable, EntryOwns,
     CancelledIsFinished, RunOfExists, WaitingIsActionable
<1>2. TypeOK /\ Flight /\ Decidable /\ [Next]_vars => Decidable'
  <2>. SUFFICES ASSUME TypeOK, Flight, Decidable, [Next]_vars PROVE Decidable'
    OBVIOUS
  <2>1. CASE UNCHANGED vars
    BY <2>1, DecidableUndisturbed DEF vars, stored, memory, history
  <2>2. CASE Next
    BY <2>2, TaskStepDecidable, RequestDecidable, OutsideDecidable DEF Next
  <2>. QED BY <2>1, <2>2
<1>3. Decidable => WaitingIsActionable
  BY DEF Decidable
<1>. QED BY <1>1, <1>2, <1>3, TypeCorrect, FlightInvariant, PTL DEF Spec

(***************************************************************************)
(* Refinement: every step moves every run as the run state machine allows. *)
(***************************************************************************)

\* What transition() does to one run is a legal move, or none.
LEMMA MovedLegal ==
    ASSUME NEW s \in Statuses, NEW u \in Statuses
    PROVE  Lifecycle!LegalMove(s, Moved(s, u))
BY SMTT(30) DEF Moved, Lifecycle!LegalMove, Lifecycle!CanTransition, CanTransition,
       AllowedTransitions, Lifecycle!AllowedTransitions, Terminal, Lifecycle!Terminal

\* Two transitions in one step: a task that leaves its run and then fails on the deleted
\* chat.  A run that is left waiting was waiting already.
LEMMA MovedTwiceLegal ==
    ASSUME NEW s \in Statuses,
           NEW u \in {"waiting_approval", "failed", "cancelled", "completed"},
           u = "waiting_approval" => s = "waiting_approval"
    PROVE  Lifecycle!LegalMove(s, Moved(Moved(s, u), "failed"))
BY DEF Moved, Lifecycle!LegalMove, Lifecycle!CanTransition, CanTransition, Statuses,
       AllowedTransitions, Lifecycle!AllowedTransitions, Terminal, Lifecycle!Terminal

\* A step that moves at most one run, and that one legally.
LEMMA OneMoveLegal ==
    ASSUME TypeOK, TypeOK', NEW q,
           \A r \in Runs : r # q => status'[r] = status[r],
           q \in Runs => Lifecycle!LegalMove(status[q], status'[q])
    PROVE  Lifecycle!Next
BY DEF Lifecycle!Next, Lifecycle!LegalMove, TypeOK, Statuses, Lifecycle!Statuses

LEMMA UnmovedLegal ==
    ASSUME TypeOK, TypeOK', status' = status
    PROVE  Lifecycle!Next
BY DEF Lifecycle!Next, Lifecycle!LegalMove, TypeOK, Statuses, Lifecycle!Statuses

LEMMA TransitionLegal ==
    ASSUME TypeOK, TypeOK', NEW q \in Runs, NEW u \in Statuses, status' = Transition(q, u)
    PROVE  Lifecycle!Next
<1>1. status[q] \in Statuses /\ status'[q] = Moved(status[q], u)
  BY DEF TypeOK, Transition
<1>2. Lifecycle!LegalMove(status[q], status'[q])
  BY <1>1, MovedLegal
<1>. QED BY <1>2, OneMoveLegal DEF Transition, TypeOK

LEMMA EndWithLegal ==
    ASSUME TypeOK, TypeOK', NEW t \in Tasks,
           NEW u \in {"waiting_approval", "failed", "cancelled", "completed"},
           NEW s, EndWith(t, u, s),
           u = "waiting_approval" => status[runOf[t]] = "waiting_approval"
    PROVE  Lifecycle!Next
<1>1. \A r \in Runs : r # runOf[t] => status'[r] = status[r]
  BY DEF EndWith, TypeOK
<1>2. ASSUME runOf[t] \in Runs
      PROVE  Lifecycle!LegalMove(status[runOf[t]], status'[runOf[t]])
  <2>1. status[runOf[t]] \in Statuses
    BY <1>2 DEF TypeOK
  <2>2. CASE chat = "deleted"
    BY <1>2, <2>1, <2>2, MovedTwiceLegal DEF EndWith, TypeOK
  <2>3. CASE chat # "deleted"
    BY <1>2, <2>1, <2>3, MovedLegal DEF EndWith, TypeOK, Statuses
  <2>. QED BY <2>2, <2>3
<1>. QED BY <1>1, <1>2, OneMoveLegal

LEMMA TaskStepLegal ==
    ASSUME TypeOK, TypeOK', NEW t \in Tasks, TaskStep(t)
    PROVE  Lifecycle!Next
<1>1. ASSUME NEW r \in Runs, BeginRun(t, r) PROVE Lifecycle!Next
  <2>1. \A q \in Runs : q # r => status'[q] = status[q]
    BY <1>1 DEF BeginRun, TypeOK
  <2>2. Lifecycle!LegalMove(status[r], status'[r])
    BY <1>1 DEF BeginRun, Lifecycle!LegalMove, Lifecycle!Begins, TypeOK
  <2>. QED BY <2>1, <2>2, OneMoveLegal
<1>2. CASE ContinueRun(t)
  <2>1. runOf[t] \in Runs /\ status[runOf[t]] \in Statuses
    BY <1>2 DEF ContinueRun, TypeOK
  <2>2. \A q \in Runs : q # runOf[t] => status'[q] = status[q]
    BY <1>2 DEF ContinueRun, TypeOK
  <2>3. Lifecycle!LegalMove(status[runOf[t]], status'[runOf[t]])
    <3>. DEFINE after == Resumed(status[runOf[t]])
    <3>1. status'[runOf[t]] = after \/ status'[runOf[t]] = Moved(after, "failed")
      BY <1>2, <2>1 DEF ContinueRun, TypeOK
    <3>. QED BY <2>1, <3>1 DEF Resumed, Moved, CanTransition, AllowedTransitions, Terminal,
             Lifecycle!LegalMove, Lifecycle!CanTransition, Lifecycle!AllowedTransitions,
             Lifecycle!Terminal, Statuses
  <2>. QED BY <2>2, <2>3, OneMoveLegal
<1>3. CASE PauseOnChunk(t)
  BY <1>3, EndWithLegal DEF PauseOnChunk
<1>4. CASE StopOnCancelRequest(t)
  BY <1>4, EndWithLegal DEF StopOnCancelRequest
<1>5. CASE StreamEnds(t)
  <2>1. CASE chat = "deleted"
    BY <1>5, <2>1, EndWithLegal DEF StreamEnds
  <2>2. CASE chat # "deleted"
    BY <1>5, <2>2, UnmovedLegal DEF StreamEnds, stored
  <2>. QED BY <2>1, <2>2
<1>6. CASE StreamRaises(t)
  BY <1>6, EndWithLegal DEF StreamRaises
<1>7. CASE Finalize(t)
  BY <1>7, EndWithLegal DEF Finalize
<1>8. CASE HandleCancelled(t)
  BY <1>8, EndWithLegal DEF HandleCancelled
<1>9. CASE CancelledBeforeFirstStep(t) \/ ResumeAfterStale(t)
  BY <1>9, UnmovedLegal DEF CancelledBeforeFirstStep, ResumeAfterStale, stored
<1>. QED BY <1>1, <1>2, <1>3, <1>4, <1>5, <1>6, <1>7, <1>8, <1>9 DEF TaskStep

LEMMA RequestLegal ==
    ASSUME TypeOK, TypeOK', Request
    PROVE  Lifecycle!Next
<1>1. ASSUME CancelEntry PROVE Lifecycle!Next
  <2>1. CASE runOf[entry] = NoRun
    BY <1>1, <2>1, UnmovedLegal DEF CancelEntry
  <2>2. CASE runOf[entry] # NoRun
    BY <1>1, <2>2, TransitionLegal DEF CancelEntry, TypeOK, Statuses
  <2>. QED BY <2>1, <2>2
<1>2. ASSUME NEW r \in Runs, Reject(r) PROVE Lifecycle!Next
  BY <1>2, TransitionLegal DEF Reject, Statuses
<1>3. ASSUME NEW r \in Runs, NEW b \in BOOLEAN, CancelRun(r, b) PROVE Lifecycle!Next
  BY <1>1, <1>3, UnmovedLegal DEF CancelRun, stored
<1>4. CASE CancelChat
  BY <1>1, <1>4 DEF CancelChat
<1>5. CASE DeleteChat \/ \E t \in Tasks : Start(t)
  BY <1>5, UnmovedLegal DEF Start, DeleteChat, stored
<1>6. CASE \E r \in Runs : ApproveFails(r) \/ \E t \in Tasks : Approve(r, t)
  BY <1>6, UnmovedLegal DEF Approve, ApproveFails
<1>. QED BY <1>2, <1>3, <1>4, <1>5, <1>6 DEF Request

LEMMA OutsideLegal ==
    ASSUME TypeOK, TypeOK'
    PROVE  /\ \A t \in Tasks : RegisterSession(t) => Lifecycle!Next
           /\ \A r \in Runs : ToolCall(r) => Lifecycle!Next
           /\ Crash => Lifecycle!Next
           /\ Startup => Lifecycle!Next
<1>1. ASSUME NEW t \in Tasks, RegisterSession(t) PROVE Lifecycle!Next
  BY <1>1, UnmovedLegal DEF RegisterSession
<1>2. ASSUME NEW r \in Runs, ToolCall(r) PROVE Lifecycle!Next
  BY <1>2, UnmovedLegal, TransitionLegal DEF ToolCall, Statuses
<1>3. ASSUME Crash PROVE Lifecycle!Next
  <2>1. CASE status' = status
    BY <2>1, UnmovedLegal
  <2>2. CASE status' # status
    <3>1. PICK r \in Runs : status[r] = "none" /\ status' = [status EXCEPT ![r] = "created"]
      BY <1>3, <2>2 DEF Crash
    <3>2. Lifecycle!LegalMove(status[r], status'[r])
      BY <3>1 DEF Lifecycle!LegalMove, Lifecycle!Begins, TypeOK
    <3>. QED BY <3>1, <3>2, OneMoveLegal DEF TypeOK
  <2>. QED BY <2>1, <2>2
<1>4. ASSUME Startup PROVE Lifecycle!Next
  <2>1. \A r \in Runs : Lifecycle!LegalMove(status[r], status'[r])
    BY <1>4, MovedLegal DEF Startup, TypeOK, Statuses
  <2>. QED BY <2>1 DEF Lifecycle!Next, TypeOK, Statuses, Lifecycle!Statuses
<1>. QED BY <1>1, <1>2, <1>3, <1>4

\* The chat component implements the run state machine.
THEOREM ChatRunsImplementLifecycle == Spec => ImplementsLifecycle
<1>1. Init => Lifecycle!Init
  BY DEF Init, Lifecycle!Init
<1>2. TypeOK /\ TypeOK' /\ [Next]_vars => [Lifecycle!Next]_status
  <2>1. UNCHANGED vars => UNCHANGED status
    BY DEF vars, stored
  <2>. QED BY <2>1, TaskStepLegal, RequestLegal, OutsideLegal DEF Next
<1>. QED BY <1>1, <1>2, TypeCorrect, PTL DEF Spec, ImplementsLifecycle, Lifecycle!Spec

\* No chat run is ever revived or re-labelled once it is finished, and none is reported as
\* completed while an operator is asked about it.
THEOREM ChatRunsEndOnce ==
    Spec => Lifecycle!TerminalIsFinal /\ Lifecycle!PausedNeverCompletes
<1>1. TypeOK /\ [Lifecycle!Next]_status
        => /\ [\A r \in Runs : status[r] \in Lifecycle!Terminal => status'[r] = status[r]]_status
           /\ [\A r \in Runs : status[r] = "waiting_approval" => status'[r] # "completed"]_status
  BY DEF Lifecycle!Next, Lifecycle!LegalMove, Lifecycle!Begins, Lifecycle!CanTransition,
         Lifecycle!AllowedTransitions, Lifecycle!Terminal
<1>. QED BY <1>1, TypeCorrect, ChatRunsImplementLifecycle, PTL
         DEF ImplementsLifecycle, Lifecycle!Spec, Lifecycle!TerminalIsFinal,
             Lifecycle!PausedNeverCompletes
=============================================================================
