----------------------------- MODULE EngineTurn -----------------------------
(***************************************************************************)
(* OpenHandsEngine.stream() (layers/engine/openhands_engine.py): one turn  *)
(* of the agent, from the request for a conversation to the final reply.   *)
(* A stream is three tasks: run_agent(), which posts the message and polls *)
(* the status of the conversation until the agent is done; the task that   *)
(* receives the events by WebSocket or, if that fails, by polling; and the *)
(* consumer, which may go away at any time.  They share poll_stop.         *)
(*                                                                         *)
(* An action is what happens between two awaits of one task.  The agent    *)
(* server is external: it queues the messages of a conversation, works on  *)
(* them one after the other, and shows an execution status and a leaf      *)
(* event.  Whether posting a message resets the status or moves the leaf   *)
(* is left open, since the code does not know it either.                   *)
(***************************************************************************)
EXTENDS FiniteSets, Naturals, Sequences

CONSTANTS Streams,    \* calls of stream(), each the turn it asks for
          Convs,      \* identifiers the agent server gives to conversations
          Watched,    \* streams whose event task is followed: it changes nothing
                      \* for the other streams
          NoStream, NoConv,
          MaxEvents,  \* bound on the events of a conversation
          PageSize    \* events that the poller's request returns (80)

ASSUME ConstantsAssumption ==
    /\ Watched \subseteq Streams
    /\ NoStream \notin Streams
    /\ NoConv \notin Convs
    /\ MaxEvents \in Nat \ {0}
    /\ PageSize \in Nat \ {0}

VARIABLES
    \* the agent server
    log,        \* events of each conversation: the turn they belong to
    status,     \* execution_status
    leaf,       \* position of leaf_event_id, 0 for none
    backlog,    \* turns asked for and not finished
    answer,     \* the turn whose reply is agent_final_response
    \* shared by all streams
    cancelEvents, \* _cancel_events: whose poll_stop is registered
    session,      \* the run (the stream) of the governance session
    \* of each stream
    pc,         \* where run_agent() is suspended
    conv,       \* the conversation it works with
    named,      \* streams whose conversation_id is set
    baseline,   \* baseline_leaf_event_id, 0 for None
    observed,   \* observed_running
    stop,       \* poll_stop
    events,     \* where the event task is
    next,       \* events the WebSocket has passed
    seen,       \* seen_event_ids
    pushes,     \* how often each event went past the check of seen_event_ids
    result,     \* how the stream ended
    \* observation only
    polled,     \* streams that have fallen back to polling
    crossed,    \* streams whose turn met another one in its conversation
    misled      \* streams that were stopped before the agent was done, or whose
                \* message moved the leaf and left an old final status

server  == <<log, status, leaf, backlog, answer>>
tables  == <<cancelEvents, session>>
turn    == <<pc, conv, named, baseline, observed, result>>
reading == <<events, next, seen, pushes>>
history == <<polled, crossed, misled>>
vars    == <<server, tables, turn, stop, reading, history>>

Positions == 1..MaxEvents

\* The awaits of run_agent().
Awaits == {"probe", "post", "create", "ready", "waiting", "final"}

Terminal == {"finished", "error"}  \* "error" stands for "stuck" too

TypeOK ==
    /\ log \in [Convs -> Seq(Streams)]
    /\ \A c \in Convs : Len(log[c]) <= MaxEvents
    /\ status \in [Convs -> {"idle", "running"} \cup Terminal]
    /\ leaf \in [Convs -> 0..MaxEvents]
    /\ backlog \in [Convs -> Seq(Streams)]
    /\ answer \in [Convs -> Streams \cup {NoStream}]
    /\ cancelEvents \in [Convs -> Streams \cup {NoStream}]
    /\ session \in [Convs -> Streams \cup {NoStream}]
    /\ pc \in [Streams -> {"new", "ended"} \cup Awaits]
    /\ conv \in [Streams -> Convs \cup {NoConv}]
    /\ named \subseteq Streams
    /\ baseline \in [Streams -> 0..MaxEvents]
    /\ observed \in [Streams -> BOOLEAN]
    /\ stop \in [Streams -> BOOLEAN]
    /\ events \in [Streams -> {"off", "connecting", "socket", "polling", "over"}]
    /\ next \in [Streams -> 0..MaxEvents]
    /\ seen \in [Streams -> SUBSET Positions]
    /\ pushes \in [Streams -> [Positions -> Nat]]
    /\ result \in [Streams -> {"none", "error", "empty"} \cup Streams]
    /\ polled \subseteq Streams
    /\ crossed \subseteq Streams
    /\ misled \subseteq Streams

Init ==
    /\ log = [c \in Convs |-> <<>>]
    /\ status = [c \in Convs |-> "idle"]
    /\ leaf = [c \in Convs |-> 0]
    /\ backlog = [c \in Convs |-> <<>>]
    /\ answer = [c \in Convs |-> NoStream]
    /\ cancelEvents = [c \in Convs |-> NoStream]
    /\ session = [c \in Convs |-> NoStream]
    /\ pc = [s \in Streams |-> "new"]
    /\ conv = [s \in Streams |-> NoConv]
    /\ named = {}
    /\ baseline = [s \in Streams |-> 0]
    /\ observed = [s \in Streams |-> FALSE]
    /\ stop = [s \in Streams |-> FALSE]
    /\ events = [s \in Streams |-> "off"]
    /\ next = [s \in Streams |-> 0]
    /\ seen = [s \in Streams |-> {}]
    /\ pushes = [s \in Streams |-> [i \in Positions |-> 0]]
    /\ result = [s \in Streams |-> "none"]
    /\ polled = {}
    /\ crossed = {}
    /\ misled = {}
-----------------------------------------------------------------------------
(***************************************************************************)
(* The end of run_agent(): its finally.                                    *)
(***************************************************************************)

\* A fault: the event is removed only after an answer, not after an error.
UnregisterMutant(s) ==
    cancelEvents' = IF s \in named /\ pc[s] = "final"
                    THEN [cancelEvents EXCEPT ![conv[s]] = NoStream] ELSE cancelEvents

\* _unregister_cancel() removes whatever the conversation has.
Unregister(s) ==
    cancelEvents' = IF s \in named
                    THEN [cancelEvents EXCEPT ![conv[s]] = NoStream] ELSE cancelEvents

\* poll_stop is set and the event task cancelled; the locals are gone.
End(s, outcome) ==
    /\ pc' = [pc EXCEPT ![s] = "ended"]
    /\ result' = [result EXCEPT ![s] = outcome]
    /\ stop' = [stop EXCEPT ![s] = TRUE]
    /\ events' = [events EXCEPT ![s] = "over"]
    /\ Unregister(s)
    /\ baseline' = [baseline EXCEPT ![s] = 0]
    /\ observed' = [observed EXCEPT ![s] = FALSE]
    /\ next' = [next EXCEPT ![s] = 0]
    /\ seen' = [seen EXCEPT ![s] = {}]
    /\ pushes' = [pushes EXCEPT ![s] = [i \in Positions |-> 0]]
    /\ polled' = polled \ {s}
    /\ misled' = IF outcome = "error" THEN misled \ {s} ELSE misled
    /\ UNCHANGED <<server, session, conv, named, crossed>>

\* A request raises, or the consumer leaves: then stream() cancels
\* run_agent() and waits for it.
Breaks(s) == pc[s] \in Awaits /\ End(s, "error")
-----------------------------------------------------------------------------
(***************************************************************************)
(* From the start to a conversation that works: _ensure_conversation().    *)
(***************************************************************************)

\* The settings are loaded (nothing here depends on when).
Start(s, stored) ==
    /\ pc[s] = "new"
    /\ pc' = [pc EXCEPT ![s] = IF stored = NoConv THEN "create" ELSE "probe"]
    /\ conv' = [conv EXCEPT ![s] = stored]
    /\ UNCHANGED <<server, tables, named, baseline, observed, result, stop,
                   reading, history>>

\* The stored conversation answers, and its messages are those of the chat.
ProbeFinds(s) ==
    /\ pc[s] = "probe"
    /\ pc' = [pc EXCEPT ![s] = "post"]
    /\ baseline' = [baseline EXCEPT ![s] = leaf[conv[s]]]
    /\ UNCHANGED <<server, tables, conv, named, observed, result, stop,
                   reading, history>>

\* It does not, or they are others: a new conversation.
ProbeMisses(s) ==
    /\ pc[s] = "probe"
    /\ pc' = [pc EXCEPT ![s] = "create"]
    /\ conv' = [conv EXCEPT ![s] = NoConv]
    /\ UNCHANGED <<server, tables, named, baseline, observed, result, stop,
                   reading, history>>

RangeOf(q) == {q[i] : i \in DOMAIN q}

\* Streams that have a turn, or an end to see, in conversation c.
WorkingIn(c) ==
    RangeOf(backlog[c]) \cup
    {s \in Streams : conv[s] = c /\ pc[s] \in {"ready", "waiting", "final"}}

\* The server takes the message of s and will work on it.
Accept(s, c) ==
    /\ Len(log[c]) < MaxEvents
    /\ log' = [log EXCEPT ![c] = Append(@, s)]
    /\ backlog' = [backlog EXCEPT ![c] = Append(@, s)]
    /\ crossed' = IF WorkingIn(c) = {} THEN crossed
                  ELSE crossed \cup WorkingIn(c) \cup {s}

\* _send_message() to the conversation that was probed.
Send(s) ==
    /\ pc[s] = "post"
    /\ Accept(s, conv[s])
    /\ \E to \in {status[conv[s]], "idle"}, moves \in BOOLEAN :
        /\ status[conv[s]] = "running" => to = "running"
        /\ status' = [status EXCEPT ![conv[s]] = to]
        /\ leaf' = IF moves THEN [leaf EXCEPT ![conv[s]] = Len(log[conv[s]]) + 1]
                   ELSE leaf
        /\ misled' = IF to \in Terminal
                       /\ (baseline[s] = 0 \/ leaf'[conv[s]] # baseline[s])
                    THEN misled \cup {s} ELSE misled
    /\ pc' = [pc EXCEPT ![s] = "ready"]
    /\ UNCHANGED <<answer, tables, conv, named, baseline, observed, result,
                   stop, reading, polled>>

\* _start_conversation(), or _bootstrap_conversation_with_history().
Create(s) ==
    /\ pc[s] = "create"
    /\ \E c \in Convs :
        /\ log[c] = <<>>
        /\ Accept(s, c)
        /\ conv' = [conv EXCEPT ![s] = c]
        /\ \E moves \in BOOLEAN :
            leaf' = IF moves THEN [leaf EXCEPT ![c] = 1] ELSE leaf
    /\ pc' = [pc EXCEPT ![s] = "ready"]
    /\ UNCHANGED <<status, answer, tables, named, baseline, observed, result,
                   stop, reading, polled, misled>>

\* A fault: the governance session of a stored conversation stays as it was.
ReadyMutant(s) ==
    /\ pc[s] = "ready"
    /\ session' = IF session[conv[s]] = NoStream
                  THEN [session EXCEPT ![conv[s]] = s] ELSE session
    /\ named' = named \cup {s}
    /\ cancelEvents' = [cancelEvents EXCEPT ![conv[s]] = s]
    /\ events' = [events EXCEPT ![s] = IF s \in Watched THEN "connecting" ELSE @]
    /\ pc' = [pc EXCEPT ![s] = "waiting"]
    /\ UNCHANGED <<server, conv, baseline, observed, result, stop, next, seen,
                   pushes, history>>

\* The answer to the message: the session is registered, then the event,
\* and the event task is started.
Ready(s) ==
    /\ pc[s] = "ready"
    /\ session' = [session EXCEPT ![conv[s]] = s]
    /\ named' = named \cup {s}
    /\ cancelEvents' = [cancelEvents EXCEPT ![conv[s]] = s]
    /\ events' = [events EXCEPT ![s] = IF s \in Watched THEN "connecting" ELSE @]
    /\ pc' = [pc EXCEPT ![s] = "waiting"]
    /\ UNCHANGED <<server, conv, baseline, observed, result, stop, next, seen,
                   pushes, history>>
-----------------------------------------------------------------------------
(***************************************************************************)
(* The event task: _subscribe_events_websocket(), _poll_agent_activities() *)
(* and _push_event().                                                      *)
(***************************************************************************)

\* A fault: the identifiers of pushed events are not remembered.
PushMutant(s, batch) ==
    /\ seen' = seen
    /\ pushes' = [pushes EXCEPT ![s] =
                      [i \in Positions |-> IF i \in batch \ seen[s] THEN @[i] + 1 ELSE @[i]]]

Push(s, batch) ==
    /\ seen' = [seen EXCEPT ![s] = @ \cup batch]
    /\ pushes' = [pushes EXCEPT ![s] =
                      [i \in Positions |-> IF i \in batch \ seen[s] THEN @[i] + 1 ELSE @[i]]]

\* The WebSocket delivers what happens after it was opened.
SocketOpens(s) ==
    /\ events[s] = "connecting"
    /\ events' = [events EXCEPT ![s] = IF stop[s] THEN "over" ELSE "socket"]
    /\ next' = [next EXCEPT ![s] = Len(log[conv[s]])]
    /\ UNCHANGED <<server, tables, turn, stop, seen, pushes, history>>

SocketDelivers(s) ==
    /\ events[s] = "socket"
    /\ next[s] < Len(log[conv[s]])
    /\ next' = [next EXCEPT ![s] = @ + 1]
    /\ Push(s, {next[s] + 1})
    /\ events' = [events EXCEPT ![s] = IF stop[s] THEN "over" ELSE @]
    /\ UNCHANGED <<server, tables, turn, stop, history>>

\* The event task has ended: nothing is pushed any more.
Silent(s) ==
    /\ events' = [events EXCEPT ![s] = "over"]
    /\ next' = [next EXCEPT ![s] = 0]
    /\ seen' = [seen EXCEPT ![s] = {}]
    /\ pushes' = [pushes EXCEPT ![s] = [i \in Positions |-> 0]]
    /\ polled' = polled \ {s}
    /\ UNCHANGED <<server, tables, turn, stop, crossed, misled>>

\* recv() times out and poll_stop is set, or the server closes.
SocketEnds(s) == events[s] = "socket" /\ Silent(s)

SocketFails(s) ==
    /\ events[s] \in {"connecting", "socket"}
    /\ events' = [events EXCEPT ![s] = "polling"]
    /\ next' = [next EXCEPT ![s] = 0]
    /\ polled' = polled \cup {s}
    /\ UNCHANGED <<server, tables, turn, stop, seen, pushes, crossed,
                   misled>>

\* A page of all events of the conversation, the oldest first.
Poll(s) ==
    /\ events[s] = "polling"
    /\ Push(s, {i \in DOMAIN log[conv[s]] : i <= PageSize})
    /\ events' = [events EXCEPT ![s] = IF stop[s] THEN "over" ELSE @]
    /\ UNCHANGED <<server, tables, turn, stop, next, history>>

PollStops(s) == events[s] = "polling" /\ stop[s] /\ Silent(s)
-----------------------------------------------------------------------------
(***************************************************************************)
(* _wait_for_agent_done() and what follows.                                *)
(***************************************************************************)

\* A fault: a final status is believed without a sign of the turn.
TurnDoneMutant(s, now) == TRUE

\* turn_done, given what this response says of running.
TurnDone(s, now) ==
    \/ now
    \/ leaf[conv[s]] # 0 /\ baseline[s] # 0 /\ leaf[conv[s]] # baseline[s]
    \/ baseline[s] = 0

\* A response that lets the waiting go on.
SeesRunning(s) ==
    /\ pc[s] = "waiting"
    /\ status[conv[s]] = "running"
    /\ observed' = [observed EXCEPT ![s] = TRUE]
    /\ UNCHANGED <<server, tables, pc, conv, named, baseline, result, stop,
                   reading, history>>

SeesDone(s) ==
    /\ pc[s] = "waiting"
    /\ status[conv[s]] = "finished"
    /\ TurnDone(s, observed[s])
    /\ pc' = [pc EXCEPT ![s] = "final"]
    /\ stop' = [stop EXCEPT ![s] = TRUE]
    /\ UNCHANGED <<server, tables, conv, named, baseline, observed, result,
                   reading, history>>

\* poll_stop was set: the function returns without a status.
SeesStop(s) ==
    /\ pc[s] = "waiting"
    /\ stop[s]
    /\ pc' = [pc EXCEPT ![s] = "final"]
    /\ UNCHANGED <<server, tables, conv, named, baseline, observed, result,
                   stop, reading, history>>

SeesError(s) ==
    /\ pc[s] = "waiting"
    /\ status[conv[s]] = "error"
    /\ TurnDone(s, observed[s])
    /\ End(s, "error")

\* A fault: an agent that has been seen running has no deadline.
TimesOutMutant(s) ==
    /\ pc[s] = "waiting"
    /\ ~observed[s]
    /\ End(s, "error")

\* The deadline has passed at a response that does not end the turn.
TimesOut(s) ==
    /\ pc[s] = "waiting"
    /\ ~(status[conv[s]] \in Terminal /\ TurnDone(s, observed[s]))
    /\ End(s, "error")

\* agent_final_response is fetched and streamed.
Reply(s) ==
    /\ pc[s] = "final"
    /\ End(s, IF answer[conv[s]] = NoStream THEN "empty" ELSE answer[conv[s]])

\* POST /api/agent/cancel, cancel_chat(): cancel_conversation().
Cancel(c) ==
    /\ cancelEvents[c] # NoStream
    /\ stop' = [stop EXCEPT ![cancelEvents[c]] = TRUE]
    /\ misled' = IF pc[cancelEvents[c]] = "waiting"
                 THEN misled \cup {cancelEvents[c]} ELSE misled
    /\ UNCHANGED <<server, tables, turn, reading, polled, crossed>>
-----------------------------------------------------------------------------
(***************************************************************************)
(* The agent server.                                                       *)
(***************************************************************************)

AgentStarts(c) ==
    /\ backlog[c] # <<>>
    /\ status[c] # "running"
    /\ status' = [status EXCEPT ![c] = "running"]
    /\ UNCHANGED <<log, leaf, backlog, answer, tables, turn, stop, reading, history>>

\* One more event of the turn at work, or its last one.
Happens(c) ==
    /\ status[c] = "running"
    /\ Len(log[c]) < MaxEvents
    /\ log' = [log EXCEPT ![c] = Append(@, Head(backlog[c]))]
    /\ leaf' = [leaf EXCEPT ![c] = Len(log[c]) + 1]
    /\ UNCHANGED <<tables, turn, stop, reading, history>>

\* A tool call: the hook looks the run up in the governance session.
AgentActs(c) ==
    /\ Happens(c)
    /\ UNCHANGED <<status, backlog, answer>>

AgentFinishes(c) ==
    /\ Happens(c)
    /\ status' = [status EXCEPT ![c] = "finished"]
    /\ answer' = [answer EXCEPT ![c] = Head(backlog[c])]
    /\ backlog' = [backlog EXCEPT ![c] = Tail(@)]

AgentFails(c) ==
    /\ Happens(c)
    /\ status' = [status EXCEPT ![c] = "error"]
    /\ backlog' = [backlog EXCEPT ![c] = Tail(@)]
    /\ UNCHANGED answer
-----------------------------------------------------------------------------
Used == {c \in Convs : log[c] # <<>>}

Answered(s) ==
    ProbeFinds(s) \/ ProbeMisses(s) \/ Send(s) \/ Create(s) \/ Ready(s)
        \/ SeesRunning(s) \/ SeesDone(s) \/ SeesStop(s) \/ SeesError(s) \/ Reply(s)

StreamStep(s) ==
    \/ \E stored \in Used \cup {NoConv} : Start(s, stored)
    \/ Answered(s) \/ TimesOut(s) \/ Breaks(s)
    \/ SocketOpens(s) \/ SocketDelivers(s) \/ SocketEnds(s) \/ SocketFails(s)
    \/ Poll(s) \/ PollStops(s)

ServerStep(c) == AgentStarts(c) \/ AgentActs(c) \/ AgentFinishes(c) \/ AgentFails(c)

Next ==
    \/ \E s \in Streams : StreamStep(s)
    \/ \E c \in Convs : Cancel(c) \/ ServerStep(c)

Spec == Init /\ [][Next]_vars

\* The server answers a request or the request fails; while the status is
\* polled, the deadline bounds the stream.
Fairness ==
    \A s \in Streams :
        /\ WF_vars(Answered(s) \/ (pc[s] # "waiting" /\ Breaks(s)))
        /\ WF_vars(TimesOut(s))

FairSpec == Spec /\ Fairness
-----------------------------------------------------------------------------
(***************************************************************************)
(* Properties.                                                             *)
(***************************************************************************)

\* A stream that was not stopped ends with the reply of its own turn, not
\* with that of an earlier one and not with none, unless its turn met another
\* one in the conversation, or its message moved the leaf event while the old
\* final status was still shown (_wait_for_agent_done() takes that for the
\* end of the turn).
ReplyIsOwn ==
    \A s \in Streams \ (crossed \cup misled) :
        result[s] \in {"none", "error", s}

\* Always: where _cancel_events has an event for a conversation, it is that of
\* a stream at work in it, never of one that has ended or works elsewhere.
\* Only for a stream whose turn meets no other: the event is its own from the
\* answer to its message until its end.  Of streams that meet, the later one
\* takes the key over and the first to end removes it, so that the other can
\* no longer be cancelled; that case (`crossed`) is left out here.
CancelFindsStream ==
    /\ \A c \in Convs : cancelEvents[c] # NoStream =>
          /\ conv[cancelEvents[c]] = c
          /\ pc[cancelEvents[c]] \in {"waiting", "final"}
    /\ \A s \in Streams \ crossed :
          pc[s] \in {"waiting", "final"} => cancelEvents[conv[s]] = s

\* _push_event() lets an event past once in a stream, whether the WebSocket,
\* the poller or both have fetched it, and what it lets past (and records for
\* the run) is of the stream's turn, unless the stream has polled, or its turn
\* met another one.
EventsBelong ==
    \A s \in Streams : \A i \in Positions :
        /\ pushes[s][i] <= 1
        /\ pushes[s][i] = 1 /\ s \notin polled \cup crossed => log[conv[s]][i] = s

\* Always: the governance session of a conversation names the run of a stream
\* whose turn was taken there, never of one that works elsewhere.  Only for a
\* turn that meets no other and whose stream has registered it: while the agent
\* works on the turn, the session is its own.  Before the registration, which
\* follows the answer to the message, the hook finds no run or that of an
\* earlier turn; of turns that meet, it finds the run of the later one.
CallsAttributed ==
    \A c \in Convs :
        /\ session[c] # NoStream => session[c] \in named /\ conv[session[c]] = c
        /\ backlog[c] # <<>> /\ Head(backlog[c]) \in named \ crossed
              => session[c] = Head(backlog[c])

\* What all streams share never leads to the wrong conversation, whatever
\* streams start, end or overlap, nor a cancellation to a stream that has
\* ended; and from its registration on, a stream whose turn meets no other is
\* the one that a cancellation reaches and that the hook finds.
TablesNameStreams == CancelFindsStream /\ CallsAttributed

\* Every stream ends: a response, an error, a stop or the deadline ends it.
StreamEnds == \A s \in Streams : pc[s] # "new" ~> pc[s] = "ended"
=============================================================================
