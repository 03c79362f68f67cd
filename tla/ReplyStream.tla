---------------------------- MODULE ReplyStream ----------------------------
(***************************************************************************)
(* The way of a reply: from the tokens of the agent (external) through     *)
(* _push_event() and ReplyStreamState (stream_reply.py), _execute() and    *)
(* the bounded queue of its subscriber (chat_runs.py), and the SSE         *)
(* response (streaming.py), to the browser (sendMessage() and openChat()   *)
(* of web/app.js), which falls back to polling the stored chat when it     *)
(* loses the response.                                                     *)
(*                                                                         *)
(* One chat in one browser, which sends its messages one after the other.  *)
(* A text is a sequence of numbers, in the order they are written; in the  *)
(* JSON form of a reply the Marker ("message":") comes first and Escape    *)
(* (a backslash) may precede a number.                                     *)
(***************************************************************************)
EXTENDS Integers, Sequences, SequencesExt

CONSTANTS MaxSends,     \* messages the user sends
          Watched,      \* those whose replies are followed word by word; the agent
                        \* answers the others at once
          MaxPieces,    \* numbers the agent writes in a turn
          MaxSteps,     \* ActionEvents in a turn, the one that finishes not counted
          QueueSize,    \* maxsize of the subscriber's queue (512)
          MaxMessages,  \* _MAX_MESSAGES of a chat (200)
          MaxTries      \* polls before the browser gives up (15 or 90)

ASSUME ConstantsAssumption ==
    /\ {MaxSends, MaxPieces, QueueSize, MaxTries} \subseteq Nat \ {0}
    /\ Watched \subseteq 1..MaxSends
    /\ MaxSteps \in Nat
    /\ MaxMessages \in Nat \ {0, 1}

VARIABLES
    chat,     \* the stored chat: how many messages, the last one, agent_run_status
    run,      \* the latest _ChatRun: whose message, where _execute() is, its parts
    agent,    \* the agent server: the completion it is writing, the final response
    reader,   \* the event task of the stream, and its ReplyStreamState
    sub,      \* the subscriber's queue
    view,     \* the browser
    history   \* observation only

vars == <<chat, run, agent, reader, sub, view, history>>

Escape == 0
Marker == -1
User(k) == [role |-> "user", of |-> k]
Assistant(k) == [role |-> "assistant", of |-> k]

Delta(text) == [is |-> "delta", text |-> text]
Note == [is |-> "note", text |-> <<>>]         \* a chunk without text
Sentinel == [is |-> "sentinel", text |-> <<>>]

Fresh == [at |-> "idle", text |-> <<>>, final |-> <<>>, written |-> 0, steps |-> 0]
NoState == [buffer |-> <<>>, emitted |-> <<>>, any |-> FALSE]
NoEvents == [socket |-> "closed", unseen |-> FALSE, state |-> NoState]
NoView == [at |-> "ready", send |-> 0, baseline |-> 0, tries |-> 0, last |-> "assistant",
           status |-> "idle", shown |-> <<>>, outcome |-> "none", message |-> Assistant(0),
           stopping |-> FALSE]
NoHistory == [refused |-> FALSE, unposted |-> FALSE, missed |-> FALSE, early |-> FALSE]
NoQueue == [open |-> FALSE, queue |-> <<>>, dropped |-> {}]

Statuses == {"idle", "running", "failed"}
Messages == [role : {"user", "assistant"}, of : 0..MaxSends]
Chunks == [is : {"delta", "note", "sentinel"}, text : Seq(Int)]
Subscribers == [open : BOOLEAN, queue : Seq(Chunks), dropped : SUBSET {"delta", "sentinel"}]
StreamStates == [buffer : Seq(Int), emitted : Seq(Int), any : BOOLEAN]

Chats == [count : 0..MaxMessages, latest : Messages, status : Statuses]
RunStates ==
    [of : 0..MaxSends, at : {"none", "created", "streaming", "replying", "storing"},
     parts : Seq(Int), rest : Seq(Int),
     result : {"none", "completed", "failed", "cancelled"}]
Agents ==
    [at : {"idle", "working", "done"}, text : Seq(Int), final : Seq(Int),
     written : 0..MaxPieces, steps : 0..MaxSteps]
Readers ==
    [socket : {"closed", "open", "over", "polling"}, unseen : BOOLEAN, state : StreamStates]
Views ==
    [at : {"ready", "asking", "streaming", "polling", "opening", "resuming"},
     send : 0..MaxSends, baseline : 0..MaxMessages, tries : 0..MaxTries,
     last : {"user", "assistant"}, status : Statuses, shown : Seq(Int),
     outcome : {"none", "streamed", "recovered", "opened", "blind", "failed",
                "stopped"},
     message : Messages, stopping : BOOLEAN]

TypeOK ==
    /\ chat \in Chats
    /\ run \in RunStates
    /\ agent \in Agents
    /\ reader \in Readers
    /\ sub \in Subscribers
    /\ view \in Views
    /\ history \in [refused : BOOLEAN, unposted : BOOLEAN, missed : BOOLEAN, early : BOOLEAN]

Init ==
    /\ chat = [count |-> 0, latest |-> Assistant(0), status |-> "idle"]
    /\ run = [of |-> 0, at |-> "none", parts |-> <<>>, rest |-> <<>>, result |-> "none"]
    /\ agent = Fresh
    /\ reader = NoEvents
    /\ sub = NoQueue
    /\ view = NoView
    /\ history = NoHistory

Executing == run.at # "none"
-----------------------------------------------------------------------------
(***************************************************************************)
(* Chunks and the subscriber: _broadcast(), _broadcast_sentinel().         *)
(***************************************************************************)

\* put_nowait(): a chunk, the sentinel too, is dropped when the queue is full.
Put(s, chunk) ==
    IF ~s.open THEN s
    ELSE IF Len(s.queue) < QueueSize THEN [s EXCEPT !.queue = Append(@, chunk)]
    ELSE [s EXCEPT !.dropped = @ \cup ({chunk.is} \ {"note"})]

\* What _execute() does with a chunk of the stream: the text is kept, then sent.
Handled(chunk) ==
    /\ run' = [run EXCEPT !.parts = @ \o chunk.text]
    /\ sub' = Put(sub, chunk)

\* A fault: a run that fails sends no sentinel.
FinallyMutant(status, result, last) ==
    /\ run' = [run EXCEPT !.at = "none", !.rest = <<>>, !.result = result,
                          !.parts = IF sub.open THEN @ ELSE <<>>]
    /\ chat' = [chat EXCEPT !.status = status]
    /\ sub' = IF result = "failed" THEN last ELSE Put(last, Sentinel)
    /\ agent' = Fresh
    /\ reader' = NoEvents

\* The end of _execute(): the status of the chat, what it has sent last, and its finally.
Finally(status, result, last) ==
    /\ run' = [run EXCEPT !.at = "none", !.rest = <<>>, !.result = result,
                          !.parts = IF sub.open THEN @ ELSE <<>>]
    /\ chat' = [chat EXCEPT !.status = status]
    /\ sub' = Put(last, Sentinel)
    /\ agent' = Fresh
    /\ reader' = NoEvents

\* append_message() and _trim_messages().
Stored(c, message) ==
    [c EXCEPT !.count = IF c.count < MaxMessages THEN c.count + 1 ELSE c.count,
              !.latest = message]
-----------------------------------------------------------------------------
(***************************************************************************)
(* ReplyStreamState: the text a user may see of what the LLM writes.       *)
(***************************************************************************)

\* The text without its escapes.
Plain[raw \in Seq(Int)] ==
    IF raw = <<>> THEN <<>>
    ELSE IF Last(raw) = Escape THEN Plain[Front(raw)]
    ELSE Append(Plain[Front(raw)], Last(raw))

\* _read_json_string_value(): an escape is dropped for the character after it,
\* and kept if the character has not come yet.
Unescaped(raw) == IF raw = <<>> THEN <<>> ELSE Append(Plain[Front(raw)], Last(raw))

\* What follows the marker.
Argument(raw) ==
    LET at == CHOOSE i \in DOMAIN raw : raw[i] = Marker
    IN  SubSeq(raw, at + 1, Len(raw))

\* extract_visible_reply(): after the marker the string, without it the text itself.
Visible(raw) == IF Contains(raw, Marker) THEN Unescaped(Argument(raw)) ELSE raw

\* consume_stream_content(): what goes beyond the length of what was emitted.
Consumed(s, content) ==
    LET buffer == s.buffer \o content
        visible == Visible(buffer)
    IN  IF Len(visible) <= Len(s.emitted)
        THEN [state |-> [s EXCEPT !.buffer = buffer], text |-> <<>>]
        ELSE [state |-> [buffer |-> buffer, emitted |-> visible, any |-> TRUE],
              text |-> SubSeq(visible, Len(s.emitted) + 1, Len(visible))]

\* A fault: an ActionEvent does not end the text of the completion.
ResetTurnMutant(s) == s

\* reset_turn(), for an ActionEvent of the agent.
ResetTurn(s) == [s EXCEPT !.buffer = <<>>, !.emitted = <<>>]

\* _emit_final_reply(): what is still to be sent of the final response.
FinalReply(final, s) ==
    IF ~s.any THEN final
    ELSE IF IsPrefix(s.emitted, final) THEN SubSeq(final, Len(s.emitted) + 1, Len(final))
    ELSE IF Len(final) > Len(s.emitted) THEN final
    ELSE <<>>
-----------------------------------------------------------------------------
(***************************************************************************)
(* The agent and the event task of the engine.                             *)
(***************************************************************************)

Working == run.at = "streaming" /\ agent.at = "working"

\* The chunks of a StreamingDeltaEvent: a word, an escape, or both at once;
\* a completion may begin with the marker.
Contents ==
    LET w == agent.written + 1
    IN  IF agent.text = <<>> THEN {<<Marker>>, <<w>>}
        ELSE IF Last(agent.text) # Escape /\ Contains(agent.text, Marker)
        THEN {<<w>>, <<Escape>>, <<Escape, w>>}
        ELSE {<<w>>}

Words(content) == IF Last(content) > 0 THEN 1 ELSE 0

\* Only the WebSocket brings what the LLM is writing; what it writes while the
\* WebSocket is not open is not seen.
Writes(content) ==
    /\ Working
    /\ run.of \in Watched
    /\ agent.written < MaxPieces
    /\ agent' = [agent EXCEPT !.text = @ \o content, !.written = @ + Words(content)]
    /\ IF reader.socket = "open"
       THEN LET consumed == Consumed(reader.state, content)
            IN  /\ reader' = [reader EXCEPT !.state = consumed.state]
                /\ IF consumed.text = <<>> THEN UNCHANGED <<run, sub>>
                   ELSE Handled(Delta(consumed.text))
       ELSE UNCHANGED <<reader, run, sub>>
    /\ UNCHANGED <<chat, view, history>>

\* An ActionEvent: pushed if the WebSocket is open, or left for the poller.
ActionEvent ==
    IF reader.socket = "open"
    THEN /\ reader' = [reader EXCEPT !.state = ResetTurn(@)]
         /\ Handled(Note)
    ELSE /\ reader' = [reader EXCEPT !.unseen = TRUE]
         /\ UNCHANGED <<run, sub>>

\* The completion was a tool call, with or without a text before it.
Acts ==
    /\ Working
    /\ run.of \in Watched
    /\ agent.steps < MaxSteps
    /\ agent' = [agent EXCEPT !.text = <<>>, !.steps = @ + 1]
    /\ ActionEvent
    /\ UNCHANGED <<chat, view, history>>

\* The turn ends with the text of the completion as the final response: as a
\* message, or as the argument of the action that finishes.
FinishesWithText ==
    /\ Working
    /\ agent.text # <<>> => Last(agent.text) # Escape
    /\ agent' = [agent EXCEPT !.at = "done", !.final = Visible(agent.text)]
    /\ \/ UNCHANGED <<reader, run, sub>>
       \/ ActionEvent
    /\ UNCHANGED <<chat, view, history>>

\* The action that finishes has a text of its own, which was not streamed.
FinishesWithAction(n) ==
    /\ Working
    /\ agent.written + n <= MaxPieces
    /\ agent' = [agent EXCEPT !.at = "done", !.final = [i \in 1..n |-> agent.written + i]]
    /\ ActionEvent
    /\ UNCHANGED <<chat, view, history>>

\* The WebSocket of a stream: it opens, fails, or is closed.
Socket(from, to) ==
    /\ run.at = "streaming"
    /\ reader.socket = from
    /\ reader' = [reader EXCEPT !.socket = to]

SocketOpens == Socket("closed", "open") /\ UNCHANGED <<chat, run, agent, sub, view, history>>

\* A ConnectionClosed while it reads, clean or not, ends the event task without a
\* word.  Events that are under way when the turn is seen to be over are lost, too:
\* a WebSocket that lags is one that has ended.
SocketEnds == Socket("open", "over") /\ UNCHANGED <<chat, run, agent, sub, view, history>>

\* Any other exception is announced, and the poller takes over.
SocketFails ==
    /\ \E from \in {"closed", "open"} : Socket(from, "polling")
    /\ Handled(Note)
    /\ UNCHANGED <<chat, agent, view, history>>

\* _poll_agent_activities() pushes the ActionEvents that were not seen.
PollsEvents ==
    /\ run.at = "streaming"
    /\ reader.socket = "polling"
    /\ reader.unseen
    /\ reader' = [reader EXCEPT !.unseen = FALSE, !.state = ResetTurn(@)]
    /\ Handled(Note)
    /\ UNCHANGED <<chat, agent, view, history>>
-----------------------------------------------------------------------------
(***************************************************************************)
(* _execute(): one run.                                                    *)
(***************************************************************************)

\* Its first step, and the stream until the message is posted.
Begins ==
    /\ run.at = "created"
    /\ run' = [run EXCEPT !.at = "streaming"]
    /\ chat' = [chat EXCEPT !.status = "running"]
    /\ agent' = [Fresh EXCEPT !.at = "working"]
    /\ sub' = Put(sub, Note)
    /\ UNCHANGED <<reader, view, history>>

\* The turn is seen to be over and the final response is fetched.
TurnDone ==
    /\ run.at = "streaming"
    /\ agent.at = "done"
    /\ run' = [run EXCEPT !.at = "replying", !.rest = FinalReply(agent.final, reader.state)]
    /\ UNCHANGED <<chat, agent, reader, sub, view, history>>

\* _stream_text_deltas(): piece by piece.
Emits ==
    /\ run.at = "replying"
    /\ run.rest # <<>>
    /\ run' = [run EXCEPT !.parts = Append(@, Head(run.rest)), !.rest = Tail(@)]
    /\ sub' = Put(sub, Delta(<<Head(run.rest)>>))
    /\ UNCHANGED <<chat, agent, reader, view, history>>

\* The stream has ended: the confidence is sent and the reply stored, then the
\* token usage is fetched.
Stores ==
    /\ run.at = "replying"
    /\ run.rest = <<>>
    /\ run' = [run EXCEPT !.at = "storing"]
    /\ sub' = Put(sub, Note)
    /\ chat' = IF run.parts # <<>> THEN Stored(chat, Assistant(run.of)) ELSE chat
    /\ UNCHANGED <<agent, reader, view, history>>

Completes ==
    /\ run.at = "storing"
    /\ Finally("idle", "completed", sub)
    /\ UNCHANGED <<view, history>>

\* The stream raises: an error of the agent or of a request, or the deadline.
\* What was sent is not stored.
Raises ==
    /\ run.at = "streaming"
    /\ Finally("failed", "failed", Put(sub, Note))
    /\ UNCHANGED <<view, history>>

\* The request of the stop button reaches cancel_chat(), which cancels whatever
\* run the chat has by then (a task that has not begun: see ChatRuns).
Cancelled ==
    /\ view.stopping
    /\ run.at # "created"
    /\ view' = [view EXCEPT !.stopping = FALSE]
    /\ IF Executing THEN Finally("idle", "cancelled", sub)
       ELSE UNCHANGED <<chat, run, agent, reader, sub>>
    /\ UNCHANGED history
-----------------------------------------------------------------------------
(***************************************************************************)
(* The browser.                                                            *)
(***************************************************************************)

Busy == view.at \in {"streaming", "polling", "resuming"}

\* subscribe() adds a queue, takes the next chunk for the SSE response, which
\* ends with the sentinel, and removes the queue when the request is gone.
Subscribes == sub' = [NoQueue EXCEPT !.open = TRUE]
NextChunk == Head(sub.queue)
Passes == sub' = [sub EXCEPT !.queue = Tail(@), !.open = NextChunk # Sentinel]
Leaves == sub' = NoQueue

\* sendMessage() asks for the number of messages first, and takes 0 for it when
\* that request fails.
Asks ==
    /\ view.at = "ready"
    /\ view.send < MaxSends
    /\ \E baseline \in {chat.count, 0} :
          view' = [NoView EXCEPT !.at = "asking", !.send = view.send + 1,
                                 !.baseline = baseline, !.stopping = view.stopping]
    /\ history' = NoHistory
    /\ UNCHANGED <<chat, run, agent, reader, sub>>

\* POST /api/chat stores the message; start() may then refuse the run, which
\* breaks the response that has begun.
Posts ==
    /\ view.at = "asking"
    /\ chat' = Stored(chat, User(view.send))
    /\ IF Executing
       THEN /\ view' = [view EXCEPT !.at = "polling"]
            /\ history' = [history EXCEPT !.refused = TRUE]
            /\ UNCHANGED <<run, sub>>
       ELSE /\ view' = [view EXCEPT !.at = "streaming"]
            /\ run' = [of |-> view.send, at |-> "created", parts |-> <<>>, rest |-> <<>>,
                       result |-> "none"]
            /\ Subscribes
            /\ UNCHANGED history
    /\ UNCHANGED <<agent, reader>>

\* The request does not get as far as append_message(): the network fails, or the
\* stream before it, and the page polls all the same; or an HTTP error is answered,
\* and it does not.
PostFails ==
    /\ view.at = "asking"
    /\ \/ /\ view' = [view EXCEPT !.at = "polling"]
          /\ history' = [history EXCEPT !.unposted = TRUE]
       \/ /\ view' = [view EXCEPT !.at = "ready", !.outcome = "failed"]
          /\ UNCHANGED history
    /\ UNCHANGED <<chat, run, agent, reader, sub>>

\* The next event of the response, or its end.
Reads ==
    /\ view.at = "streaming"
    /\ sub.queue # <<>>
    /\ Passes
    /\ view' = IF NextChunk = Sentinel
               THEN [view EXCEPT !.at = "ready", !.outcome = "streamed"]
               ELSE [view EXCEPT !.shown = @ \o NextChunk.text]
    /\ UNCHANGED <<chat, run, agent, reader, history>>

\* The connection breaks.
Disconnects ==
    /\ view.at = "streaming"
    /\ Leaves
    /\ view' = [view EXCEPT !.at = "polling", !.shown = <<>>]
    /\ UNCHANGED <<chat, run, agent, reader, history>>

\* The stop button: a response is aborted, a poll goes on.
Stops ==
    /\ Busy
    /\ view' = IF view.at = "streaming"
               THEN [view EXCEPT !.stopping = TRUE, !.at = "ready", !.outcome = "stopped",
                                     !.shown = <<>>]
               ELSE [view EXCEPT !.stopping = TRUE]
    /\ Leaves
    /\ UNCHANGED <<chat, run, agent, reader, history>>

\* The page is loaded again: openChat() fetches the messages (when it cannot, no
\* chat is shown until it is loaded once more).
Reloads ==
    /\ view.at \in {"streaming", "polling"}
    /\ Leaves
    /\ view' = [view EXCEPT !.at = "opening", !.baseline = chat.count, !.tries = 0,
                            !.shown = <<>>, !.last = chat.latest.role, !.status = chat.status]
    /\ history' = [history EXCEPT !.early = run.at = "created", !.missed = FALSE]
    /\ UNCHANGED <<chat, run, agent, reader>>

\* chatNeedsResume(), with the messages and the status fetched before and, when it
\* has the answer about it, the run of now, which exists from its first step on.
NeedsResume(seesRun) ==
    /\ view.last = "user"
    /\ \/ seesRun /\ run.at \in {"streaming", "replying", "storing"}
       \/ view.status = "running"

Opens ==
    /\ view.at = "opening"
    /\ view' = IF NeedsResume(TRUE) THEN [view EXCEPT !.at = "resuming"]
               ELSE [view EXCEPT !.at = "ready", !.outcome = "opened"]
    /\ UNCHANGED <<chat, run, agent, reader, sub, history>>

\* The request for the status of the run fails: without an answer the page does not
\* resume, and with an error it goes by what it fetched before.
OpensBlind ==
    /\ view.at = "opening"
    /\ \/ view' = [view EXCEPT !.at = "ready", !.outcome = "blind"]
       \/ NeedsResume(FALSE) /\ view' = [view EXCEPT !.at = "resuming"]
    /\ UNCHANGED <<chat, run, agent, reader, sub, history>>

\* A fault: the role of the latest message is not looked at.
FoundMutant == chat.count > view.baseline

\* The latest message is taken for the reply: pollChatForReply().
Found == chat.count > view.baseline /\ chat.latest.role = "assistant"

\* The status "failed" returns the latest message too, which sendMessage()
\* shows as a reply, and resumePendingAssistant() does not.
Polls ==
    /\ view.at \in {"polling", "resuming"}
    /\ view.tries < MaxTries
    /\ \/ /\ chat.status = "failed" /\ view.at = "resuming"
          /\ view' = [view EXCEPT !.at = "ready", !.outcome = "failed"]
       \/ /\ IF chat.status = "failed" THEN view.at = "polling" ELSE Found
          /\ view' = [view EXCEPT !.at = "ready", !.outcome = "recovered",
                                  !.message = chat.latest, !.status = chat.status]
       \/ /\ chat.status # "failed" /\ ~Found
          /\ view' = [view EXCEPT !.tries = @ + 1]
    /\ history' = [history EXCEPT !.missed =
          @ \/ (view'.tries > view.tries /\ chat.latest = Assistant(view.send))]
    /\ UNCHANGED <<chat, run, agent, reader, sub>>

\* A poll that fails: with an error in answer it goes on, without an answer it ends.
PollFails ==
    /\ view.at \in {"polling", "resuming"}
    /\ view.tries < MaxTries
    /\ \/ view' = [view EXCEPT !.tries = @ + 1]
       \/ view' = [view EXCEPT !.at = "ready", !.outcome = "failed"]
    /\ UNCHANGED <<chat, run, agent, reader, sub, history>>

GivesUp ==
    /\ view.at \in {"polling", "resuming"}
    /\ view.tries = MaxTries
    /\ view' = [view EXCEPT !.at = "ready", !.outcome = "failed"]
    /\ UNCHANGED <<chat, run, agent, reader, sub, history>>
-----------------------------------------------------------------------------
AgentStep ==
    \/ \E content \in Contents : Writes(content)
    \/ Acts
    \/ FinishesWithText
    \/ \E n \in 1..MaxPieces : FinishesWithAction(n)

EngineStep == SocketOpens \/ SocketEnds \/ SocketFails \/ PollsEvents \/ TurnDone

RunStep == Begins \/ Emits \/ Stores \/ Completes \/ Raises \/ Cancelled

BrowserStep ==
    \/ Asks \/ Posts \/ PostFails \/ Reads \/ Disconnects \/ Stops
    \/ Reloads \/ Opens \/ OpensBlind \/ Polls \/ PollFails \/ GivesUp

Next == AgentStep \/ EngineStep \/ RunStep \/ BrowserStep

Spec == Init /\ [][Next]_vars

\* A stream ends at the latest at its deadline (agent_timeout_seconds), a task
\* that can go on is scheduled, and so is the script of the page, whose requests
\* are answered or fail.  Nothing is asked of the agent, the WebSocket or the user.
Fairness ==
    /\ WF_vars(Begins)
    /\ WF_vars(TurnDone \/ Raises)
    /\ WF_vars(Emits \/ Stores \/ Completes)
    /\ WF_vars(\/ Posts \/ PostFails \/ Reads \/ Opens \/ OpensBlind
               \/ Polls \/ PollFails \/ GivesUp)

FairSpec == Spec /\ Fairness
-----------------------------------------------------------------------------
(***************************************************************************)
(* Properties.                                                             *)
(***************************************************************************)

\* The reply that is stored ends with the answer of the agent, whenever the
\* WebSocket opened or ended, and whether the agent ends with a message or an
\* action; but for two cases the code loses.  A delta that ends within an
\* escape leaves a backslash in the text; and when an ActionEvent has not come
\* through by the end of the turn (the WebSocket opened late, has ended or just
\* lags, and the poller was not in time), the text before it is taken for the
\* beginning of an answer that is not longer.
StoredHasAnswer ==
    run.at = "storing" =>
        \/ IsSuffix(agent.final, run.parts)
        \/ Contains(run.parts, Escape)
        \/ /\ reader.unseen
           /\ Len(agent.final) <= Len(reader.state.emitted)

\* What the browser ends with is the reply to its message.  A response read to
\* its end showed every part of the run, and a completed run has stored them,
\* unless the queue was full.  A chat found by polling shows the reply to this
\* message, whatever requests for the count or the status have failed; but after
\* a refused start it may show that of the run in its way, after a message that
\* was never stored (unposted) whatever is the latest in the chat, the reply to
\* an earlier message for one, and after a failure the user's own message.  A
\* poll that is answered and does not see a stored reply has met the limit of
\* messages; and a chat opened again, with the status of its run, without waiting
\* has nothing to wait for, unless its run was about to begin.
BrowserShowsReply ==
    /\ view.outcome = "streamed" /\ "delta" \notin sub.dropped =>
          /\ run.of = view.send
          /\ view.shown = run.parts
          /\ run.result = "completed" /\ run.parts # <<>> =>
                chat.latest = Assistant(view.send)
    /\ view.outcome = "recovered" =>
          \/ view.message = Assistant(view.send)
          \/ history.refused
          \/ history.unposted
          \/ view.status = "failed" /\ view.message = User(view.send)
    /\ history.missed => view.baseline = MaxMessages
    /\ view.outcome = "opened" /\ chat.latest = Assistant(view.send) =>
          view.last = "assistant" \/ history.early

\* The browser does not stay busy, unless the queue had no room for the
\* sentinel: then the response goes on with heartbeats only, until the user
\* stops it.
ViewSettles == Busy ~> ~Busy \/ "sentinel" \in sub.dropped
=============================================================================
