--------------------------- MODULE ToolGovernance ---------------------------
(***************************************************************************)
(* The governance of tool calls within one run: the PreToolUse hook with   *)
(* its gate (investigation/governance/), the approval requests and         *)
(* one-time grants (investigation/approvals.py), and the operator's        *)
(* decisions, which the service carries out (chat_runs.py).                *)
(*                                                                         *)
(* Hook and service are different processes on one storage; an action of   *)
(* the hook ends with a storage call that the others can see or disturb.   *)
(* The agent of a conversation calls one tool at a time; a blocked agent   *)
(* goes on with other calls, since the hook only answers that the call is  *)
(* blocked.  A resume after an approval continues the conversation stored  *)
(* for the chat or, in a chat's first turn, which has stored none yet,     *)
(* opens a new one for the same run, and the agent of the first one need   *)
(* not have ended: several agents, and so several hooks, may work at once. *)
(* Transitions of the run are atomic here; RunDocs looks into them.        *)
(***************************************************************************)
EXTENDS RunStatus, FiniteSets, Naturals

CONSTANTS Agents,      \* conversations with an agent
          Tools,       \* tool names
          Policy,      \* Policy[t]: what the policy engine decides for tool t
          MaxRequests, \* bound on the approval requests of the run
          Window,      \* how many requests get_pending_for_run() looks at: 21
          HooksMayDie,
          NoTool

Decisions == {"allow", "deny", "require_approval"}

ASSUME ConstantsAssumption ==
    /\ IsFiniteSet(Agents)
    /\ Policy \in [Tools -> Decisions]
    /\ MaxRequests \in Nat
    /\ Window \in Nat \ {0}
    /\ HooksMayDie \in BOOLEAN
    /\ NoTool \notin Tools

VARIABLES
    status,   \* of the run
    tool,     \* tool[i]: the tool that request i is for, or NoTool if there is none
    answer,   \* answer[i]: "pending", "approved" or "rejected"
    grants,   \* tools with an unused grant
    resuming, \* an approval has created the task that will set the run running
    agents,   \* the conversations the run has been given so far
    stream,   \* the one whose events the task of the run follows
    pc,       \* pc[a]: the next storage call of the hook of agent a
    call,     \* call[a]: the tool it is asked about
    \* observation only
    ran,      \* tools that have been executed
    uses,     \* uses[t]: executions of t allowed by a grant
    raced     \* a request was decided when a hook was about to pause the run for it

hook == <<pc, call, ran, uses>>
vars == <<status, tool, answer, grants, resuming, agents, stream, hook, raced>>

\* Requests by their uuid, whose order says nothing about their age.
Ids == 1..MaxRequests

Requested == {i \in Ids : tool[i] # NoTool}
Pending   == {i \in Requested : answer[i] = "pending"}
Approved(t) == {i \in Requested : tool[i] = t /\ answer[i] = "approved"}

TypeOK ==
    /\ status \in Statuses
    /\ tool \in [Ids -> Tools \cup {NoTool}]
    /\ answer \in [Ids -> {"pending", "approved", "rejected"}]
    /\ grants \subseteq Tools
    /\ resuming \in BOOLEAN
    /\ agents \subseteq Agents
    /\ stream \in agents
    /\ pc \in [Agents -> {"idle", "consume", "pending", "create", "mark"}]
    /\ call \in [Agents -> Tools \cup {NoTool}]
    /\ ran \subseteq Tools
    /\ uses \in [Tools -> Nat]
    /\ raced \in BOOLEAN

\* The agent has just been started for the run.
Init ==
    /\ status = "running"
    /\ tool = [i \in Ids |-> NoTool]
    /\ answer = [i \in Ids |-> "pending"]
    /\ grants = {}
    /\ resuming = FALSE
    /\ stream \in Agents
    /\ agents = {stream}
    /\ pc = [a \in Agents |-> "idle"]
    /\ call = [a \in Agents |-> NoTool]
    /\ ran = {}
    /\ uses = [t \in Tools |-> 0]
    /\ raced = FALSE

\* The requests get_pending_for_run() reads: all have the same score (the length of
\* created_at), so zrevrange orders them by uuid.
InWindow == {i \in Requested : Cardinality({j \in Requested : j > i}) < Window}

\* The request get_pending_for_run() returns, in a set, which is empty for None.
Found == {i \in Pending \cap InWindow : \A j \in Pending \cap InWindow : j <= i}
-----------------------------------------------------------------------------
(***************************************************************************)
(* The hook: evaluate_hook_event() and ToolGovernanceGate.                 *)
(***************************************************************************)

\* The hook answers; the agent executes the tool, or is told that it is blocked.
Answer(a, executes) ==
    /\ pc' = [pc EXCEPT ![a] = "idle"]
    /\ call' = [call EXCEPT ![a] = NoTool]
    /\ ran' = IF executes THEN ran \cup {call[a]} ELSE ran

\* The hook goes on to storage call p, about tool t.
Asks(a, t, p) ==
    /\ pc' = [pc EXCEPT ![a] = p]
    /\ call' = [call EXCEPT ![a] = t]
    /\ UNCHANGED ran

\* Agent a calls tool t; the hook looks for a grant and, without one, asks the policy
\* engine, which reads no stored state but the registry.  The agent whose stream has
\* completed the run has finished; any other need not have, whatever became of the run.
CallTool(a, t) ==
    /\ a \in agents
    /\ pc[a] = "idle"
    /\ ~ (status = "completed" /\ a = stream)
    /\ \/ t \in grants /\ Asks(a, t, "consume")
       \/ t \notin grants /\ Policy[t] = "require_approval" /\ Asks(a, t, "pending")
       \/ /\ t \notin grants
          /\ Policy[t] = "allow"
          /\ ran' = ran \cup {t}
          /\ UNCHANGED <<pc, call>>
       \/ t \notin grants /\ Policy[t] = "deny" /\ UNCHANGED <<pc, call, ran>>
    /\ UNCHANGED <<status, tool, answer, grants, resuming, agents, stream, uses, raced>>

\* A fault: the grant is not deleted.
ConsumeGrantMutant(a) ==
    /\ pc[a] = "consume"
    /\ uses' = [uses EXCEPT ![call[a]] = @ + 1]
    /\ uses[call[a]] < 2 * MaxRequests
    /\ Answer(a, TRUE)
    /\ UNCHANGED <<status, tool, answer, grants, resuming, agents, stream, raced>>

\* consume_tool_grant(): the delete, whoever has deleted it meanwhile; the call is allowed.
ConsumeGrant(a) ==
    /\ pc[a] = "consume"
    /\ grants' = grants \ {call[a]}
    /\ uses' = [uses EXCEPT ![call[a]] = @ + 1]
    /\ Answer(a, TRUE)
    /\ UNCHANGED <<status, tool, answer, resuming, agents, stream, raced>>

\* What evaluate_context() does next: use the pending request, or make one.
AfterPending(a) == IF \E i \in Found : tool[i] = call[a] THEN "mark" ELSE "create"

\* Faults: a request is made each time, or the run is paused before it is.
ReadPendingMutant(a) ==
    /\ pc[a] = "pending"
    /\ pc' = [pc EXCEPT ![a] = "create"]
    /\ UNCHANGED <<status, tool, answer, grants, resuming, agents, stream, call, ran, uses, raced>>
ReadPendingMutantOrder(a) ==
    /\ pc[a] = "pending"
    /\ pc' = [pc EXCEPT ![a] = AfterPending(a)]
    /\ status' = Moved(status, "waiting_approval")
    /\ UNCHANGED <<tool, answer, grants, resuming, agents, stream, call, ran, uses, raced>>

\* evaluate_context() looks whether a request for the same tool is pending.
ReadPending(a) ==
    /\ pc[a] = "pending"
    /\ pc' = [pc EXCEPT ![a] = AfterPending(a)]
    /\ UNCHANGED <<status, tool, answer, grants, resuming, agents, stream, call, ran, uses, raced>>

\* ApprovalRequestStore.create(), with a fresh uuid.
CreateRequest(a) ==
    /\ pc[a] = "create"
    /\ \E i \in Ids \ Requested : tool' = [tool EXCEPT ![i] = call[a]]
    /\ pc' = [pc EXCEPT ![a] = "mark"]
    /\ UNCHANGED <<status, answer, grants, resuming, agents, stream, call, ran, uses, raced>>

\* mark_run_waiting_approval(), which leaves alone a run that it may not pause.
MarkWaiting(a) ==
    /\ pc[a] = "mark"
    /\ status' = Moved(status, "waiting_approval")
    /\ Answer(a, FALSE)
    /\ UNCHANGED <<tool, answer, grants, resuming, agents, stream, uses, raced>>

\* The hook process dies or times out; the agent takes the call as blocked.
HookDies(a) ==
    /\ HooksMayDie
    /\ pc[a] # "idle"
    /\ Answer(a, FALSE)
    /\ UNCHANGED <<status, tool, answer, grants, resuming, agents, stream, uses, raced>>
-----------------------------------------------------------------------------
(***************************************************************************)
(* The operator and the service, between two suspension points each.       *)
(***************************************************************************)

\* The decision of request i crosses a hook that is about to pause the run, and leaves
\* no other request for its tool.
Crosses(i) ==
    raced' = \/ raced
             \/ /\ \E a \in agents : pc[a] = "mark" /\ call[a] = tool[i]
                /\ \A j \in Pending \ {i} : tool[j] # tool[i]

\* resume_after_approval(approved): resolve(), issue_tool_grant(), create_task().
Approve ==
    /\ status = "waiting_approval"
    /\ \E i \in Found :
         /\ answer' = [answer EXCEPT ![i] = "approved"]
         /\ grants' = grants \cup {tool[i]}
         /\ Crosses(i)
    /\ resuming' = TRUE
    /\ UNCHANGED <<status, tool, agents, stream, hook>>

\* resume_after_approval(rejected): resolve(), transition(BLOCKED).
Reject ==
    /\ status = "waiting_approval"
    /\ \E i \in Found : /\ answer' = [answer EXCEPT ![i] = "rejected"]
                       /\ Crosses(i)
    /\ status' = "blocked"
    /\ UNCHANGED <<tool, grants, resuming, agents, stream, hook>>

\* The task an approval has created: _execute() with a run_id.  The engine continues the
\* conversation of the chat or, when none is stored or the stored one is gone, opens one.
Resume ==
    /\ resuming
    /\ resuming' = FALSE
    /\ status' = IF status = "waiting_approval" THEN "running" ELSE status
    /\ stream' \in {stream} \cup (Agents \ agents)
    /\ agents' = agents \cup {stream'}
    /\ UNCHANGED <<tool, answer, grants, hook, raced>>

\* The stream of the engine ends after its agent has finished: no tool call of it is open.
Complete ==
    /\ status = "running"
    /\ pc[stream] = "idle"
    /\ status' = "completed"
    /\ UNCHANGED <<tool, answer, grants, resuming, agents, stream, hook, raced>>

\* The run is cancelled, or its stream fails; the agents may go on.
Abort(to) ==
    /\ status = "running"
    /\ status' = to
    /\ UNCHANGED <<tool, answer, grants, resuming, agents, stream, hook, raced>>

Hook(a) ==
    \/ \E t \in Tools : CallTool(a, t)
    \/ ConsumeGrant(a)
    \/ ReadPending(a)
    \/ CreateRequest(a)
    \/ MarkWaiting(a)
    \/ HookDies(a)

Next ==
    \/ \E a \in Agents : Hook(a)
    \/ Approve
    \/ Reject
    \/ Resume
    \/ Complete
    \/ \E to \in {"cancelled", "failed"} : Abort(to)

Spec == Init /\ [][Next]_vars
-----------------------------------------------------------------------------
(***************************************************************************)
(* What holds.                                                             *)
(***************************************************************************)

\* An approval allows each conversation of the run one execution of the tool it names,
\* whatever calls, crashes of hooks and further approvals come between: one execution as
\* long as the run has one conversation (approvals.py: "一次性工具执行许可"), and no more
\* than one for each of them when several hooks read the grant before one deletes it.
GrantUsedOnce ==
    \A t \in Tools :
        uses[t] + Cardinality(grants \cap {t})
            <= Cardinality(agents) * Cardinality(Approved(t))

\* A tool the policy denies is never executed: no chain of requests and approvals, which
\* the gate consults before the policy, gives it a grant (gate.py: evaluate_context()).
DeniedNeverRuns == \A t \in ran : Policy[t] # "deny"

\* The tools that run are those the policy allows and those an operator has approved, as
\* often as approved for each conversation of the run.
RunsAsDecided == GrantUsedOnce /\ DeniedNeverRuns

\* A run that waits can be decided: a request is pending, or the approval has created the
\* task that resumes it.  A hook that dies between request and pause leaves no pause
\* without a request; only a decision that crosses the pause does (gate.py 128-130,
\* approval_pause.py, design/p0-investigation-run-governance.md: "已持久 ApprovalRequest").
WaitingHasRequest ==
    status = "waiting_approval" => raced \/ resuming \/ Pending # {}

OneTool == \A i, j \in Requested : tool[i] = tool[j]

\* While one tool has asked for approval, and no more often than get_pending_for_run()
\* looks at, its repeated calls share a request: there is never more than one for each
\* conversation of the run, so that one decision settles a run of one conversation, and
\* hooks of several conversations that find nothing pending at once make one each.
RequestsShared ==
    OneTool /\ Cardinality(Requested) <= Window => Cardinality(Pending) <= Cardinality(agents)
=============================================================================
