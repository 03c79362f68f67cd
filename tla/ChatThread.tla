----------------------------- MODULE ChatThread -----------------------------
(***************************************************************************)
(* The messages of one chat (layers/storage/chat_history.py) and the       *)
(* conversations of the agent server that answer them.  A turn sends a     *)
(* message to the conversation the chat names if the server still has it   *)
(* and its messages agree with the stored ones, and otherwise rebuilds a   *)
(* conversation whose first message contains the stored ones               *)
(* (openhands_engine.py: _ensure_conversation()).  After a turn the tokens *)
(* that the conversation has used are recorded (service.py:                *)
(* record_chat_token_usage()).                                             *)
(*                                                                         *)
(* ChatRuns shows that a chat has one turn at a time; here its steps       *)
(* interleave with further messages, which are stored and rejected, with   *)
(* an agent that outlives its turn, and with an agent server that loses    *)
(* conversations.                                                          *)
(***************************************************************************)
EXTENDS Integers, SequencesExt

CONSTANTS Texts,        \* texts of messages and replies
          Go,           \* text of the message that resumes an approved turn
          Convs,        \* conversation identifiers
          NoConv,
          MaxMessages,  \* _MAX_MESSAGES: 200 in the code
          MaxSends,     \* bound on messages and resumes
          MaxUse        \* tokens a reply takes, at most

ASSUME ConstantsAssumption ==
    /\ Go \notin Texts
    /\ NoConv \notin Convs
    /\ MaxMessages \in Nat \ {0}
    /\ MaxSends \in Nat
    /\ MaxUse \in Nat \ {0}

VARIABLES
    \* in storage
    msgs,       \* the messages of the chat, oldest first
    chatConv,   \* agent_conversation_id of the chat
    usage,      \* total_tokens of the chat, -1 before the first record
    recorded,   \* sum of the increments in the token usage records
    \* the turn, in the memory of the service
    phase,
    prompt,     \* the message of the turn
    asked,      \* the thread from which the history of the turn was taken
    conv,       \* the conversation of the turn
    \* the agent server
    log,        \* messages of each conversation
    context,    \* stored messages inside its first message, when it was rebuilt
    alive,      \* conversations the server has
    used,       \* tokens each conversation has used
    \* observation only
    sends,      \* messages and resumes so far
    spent,      \* tokens used by all conversations
    switched,   \* the turns have had more than one conversation
    named       \* a client has named a conversation that is not the chat's

thread  == <<msgs, chatConv>>
tokens  == <<usage, recorded, switched>>
turn    == <<phase, prompt, asked, conv>>
server  == <<log, context, alive, used, spent>>
vars    == <<thread, tokens, turn, server, sends, named>>

Messages == [role : {"user", "assistant"}, text : Texts \cup {Go}]
Phases ==
    {"idle",
     "ensure",   \* in _ensure_conversation()
     "wait",     \* message posted, _wait_for_agent_done()
     "tokens",   \* reply stored, fetch_conversation_token_usage()
     "paused"}   \* the run waits for approval

TypeOK ==
    /\ msgs \in Seq(Messages) /\ Len(msgs) <= MaxMessages
    /\ chatConv \in Convs \cup {NoConv}
    /\ usage \in Nat \cup {-1}
    /\ recorded \in Nat
    /\ phase \in Phases
    /\ prompt \in Texts \cup {Go}
    /\ asked \in Seq(Messages)
    /\ conv \in Convs \cup {NoConv}
    /\ log \in [Convs -> Seq(Messages)]
    /\ context \in [Convs -> Seq(Messages)]
    /\ alive \subseteq Convs
    /\ used \in [Convs -> Nat]
    /\ sends \in 0..MaxSends
    /\ spent \in Nat
    /\ switched \in BOOLEAN
    /\ named \in BOOLEAN

Init ==
    /\ msgs = <<>> /\ chatConv = NoConv
    /\ usage = -1 /\ recorded = 0 /\ switched = FALSE
    /\ phase = "idle" /\ prompt = Go /\ asked = <<>> /\ conv = NoConv
    /\ log = [c \in Convs |-> <<>>]
    /\ context = [c \in Convs |-> <<>>]
    /\ alive = {}
    /\ used = [c \in Convs |-> 0]
    /\ sends = 0 /\ spent = 0 /\ named = FALSE
-----------------------------------------------------------------------------
User(text)  == [role |-> "user", text |-> text]
Reply(text) == [role |-> "assistant", text |-> text]

\* A fault: the newest messages are trimmed.
StoredMutant(m) == IF Len(msgs) < MaxMessages THEN Append(msgs, m) ELSE msgs

\* append_message() and _trim_messages(): the newest MaxMessages are kept.
Stored(m) ==
    LET all == Append(msgs, m)
    IN  IF Len(all) > MaxMessages THEN Tail(all) ELSE all

\* _history_from_thread(): without the message of the turn, if that is the last one.
History ==
    IF asked # <<>> /\ Last(asked) = User(prompt) THEN Front(asked) ELSE asked

\* A fault: whatever messages there are agree.
SyncedMutant(c, n) ==
    \/ History = <<>>
    \/ /\ context[c] = <<>>
       /\ \A i \in 1..n : i <= Len(History) => log[c][i] = History[i]

\* history_is_synced() for the first n messages of the conversation.  The first message
\* of a rebuilt one contains other messages and equals none that is stored.
Synced(c, n) ==
    \/ History = <<>>
    \/ context[c] = <<>> /\ IsPrefix(History, SubSeq(log[c], 1, n))

\* What the agent has been given in a conversation.
Given(c) == context[c] \o log[c]

\* Some turn has had a conversation.
HasBegun == \E c \in Convs : log[c] # <<>>
-----------------------------------------------------------------------------
(***************************************************************************)
(* The turn.                                                               *)
(***************************************************************************)

\* run_chat_stream(): the message is stored, the turn started.  The client may name a
\* conversation of its own (request body), else the chat's is used.
Send(text, c) ==
    /\ phase = "idle" /\ sends < MaxSends
    /\ sends' = sends + 1
    /\ msgs' = Stored(User(text))
    /\ phase' = "ensure"
    /\ prompt' = text
    /\ asked' = msgs'
    /\ conv' = IF c # NoConv THEN c ELSE chatConv
    /\ named' = (named \/ conv' # chatConv)
    /\ UNCHANGED <<chatConv, tokens, server>>

\* The same while a turn is in progress: start() rejects it, the message stays.
SendRejected(text) ==
    /\ phase # "idle" /\ sends < MaxSends
    /\ sends' = sends + 1
    /\ msgs' = Stored(User(text))
    /\ UNCHANGED <<chatConv, tokens, turn, server, named>>

\* resume_after_approval(): a message that is not stored.
Resume ==
    /\ phase = "paused" /\ sends < MaxSends
    /\ sends' = sends + 1
    /\ phase' = "ensure"
    /\ prompt' = Go
    /\ asked' = msgs
    /\ conv' = chatConv
    /\ UNCHANGED <<thread, tokens, server, named>>

\* The conversation is there, and its messages, as far as the server lists them, begin
\* with the history: the message is sent to it.
Continue ==
    /\ phase = "ensure" /\ conv \in alive
    /\ \E n \in 0..Len(log[conv]) : Synced(conv, n)
    /\ log' = [log EXCEPT ![conv] = Append(@, User(prompt))]
    /\ phase' = "wait"
    /\ UNCHANGED <<thread, tokens, prompt, asked, conv, context, alive, used, spent, sends, named>>

\* There is a history, and no conversation, or one whose messages differ or are not
\* listed: a new one gets the history inside its first message.
Rebuild(c) ==
    /\ phase = "ensure" /\ History # <<>>
    /\ IF conv \in alive THEN \E n \in 0..Len(log[conv]) : ~Synced(conv, n) ELSE TRUE
    /\ log[c] = <<>>
    /\ log' = [log EXCEPT ![c] = <<User(prompt)>>]
    /\ context' = [context EXCEPT ![c] = History]
    /\ alive' = alive \cup {c}
    /\ switched' = HasBegun
    /\ conv' = c
    /\ phase' = "wait"
    /\ UNCHANGED <<thread, usage, recorded, prompt, asked, used, spent, sends, named>>

\* There is no history: a new conversation, under the name of one the server has lost.
StartNew(c) ==
    /\ phase = "ensure" /\ History = <<>> /\ conv \notin alive
    /\ IF conv = NoConv THEN log[c] = <<>> ELSE c = conv
    /\ log' = [log EXCEPT ![c] = <<User(prompt)>>]
    /\ context' = [context EXCEPT ![c] = <<>>]
    /\ alive' = alive \cup {c}
    /\ used' = [used EXCEPT ![c] = 0]
    /\ switched' = HasBegun
    /\ conv' = c
    /\ phase' = "wait"
    /\ UNCHANGED <<thread, usage, recorded, prompt, asked, spent, sends, named>>

\* The agent has answered: the reply is stored, with the conversation.  The stored text
\* is put together from the streamed parts and may differ; when it is empty nothing is
\* appended.
Finish(text) ==
    /\ phase = "wait" /\ conv \in alive
    /\ Last(log[conv]).role = "assistant"
    /\ \/ msgs' = Stored(Reply(text))
       \/ msgs' = msgs
    /\ chatConv' = conv
    /\ phase' = "tokens"
    /\ UNCHANGED <<tokens, prompt, asked, conv, server, sends, named>>

\* A fault: the conversation's total is recorded each time.
RecordUsageMutant ==
    /\ phase = "tokens" /\ conv \in alive
    /\ usage' = used[conv]
    /\ recorded' = recorded + used[conv]
    /\ phase' = "idle"
    /\ UNCHANGED <<thread, switched, prompt, asked, conv, server, sends, named>>

\* record_chat_token_usage(): the increment over what the chat shows, never negative; a
\* chat without usage records all of it.
RecordUsage ==
    /\ phase = "tokens" /\ conv \in alive
    /\ usage' = used[conv]
    /\ recorded' = recorded + LET before == IF usage = -1 THEN 0 ELSE usage
                              IN  IF used[conv] > before THEN used[conv] - before ELSE 0
    /\ phase' = "idle"
    /\ UNCHANGED <<thread, switched, prompt, asked, conv, server, sends, named>>

\* The usage is not to be had, the engine raises, or the turn is cancelled or rejected:
\* the chat keeps the conversation it names.
TurnFails ==
    /\ phase # "idle"
    /\ phase' = "idle"
    /\ UNCHANGED <<thread, tokens, prompt, asked, conv, server, sends, named>>

\* The hook has paused the run, and the task has left without a reply.
Pause ==
    /\ phase = "wait"
    /\ phase' = "paused"
    /\ UNCHANGED <<thread, tokens, prompt, asked, conv, server, sends, named>>
-----------------------------------------------------------------------------
(***************************************************************************)
(* The agent server.                                                       *)
(***************************************************************************)

\* An agent answers the last message, whether or not its turn still waits.
AgentReplies(c, text, use) ==
    /\ c \in alive /\ Last(log[c]).role = "user"
    /\ log' = [log EXCEPT ![c] = Append(@, Reply(text))]
    /\ used' = [used EXCEPT ![c] = @ + use]
    /\ spent' = spent + use
    /\ UNCHANGED <<thread, tokens, turn, context, alive, sends, named>>

LosesConversation(c) ==
    /\ c \in alive
    /\ alive' = alive \ {c}
    /\ UNCHANGED <<thread, tokens, turn, log, context, used, spent, sends, named>>

Next ==
    \/ \E text \in Texts : \E c \in {d \in Convs : log[d] # <<>>} \cup {NoConv} :
          Send(text, c)
    \/ \E text \in Texts : SendRejected(text)
    \/ Resume
    \/ Continue
    \/ \E c \in Convs : Rebuild(c) \/ StartNew(c)
    \/ \E text \in Texts : Finish(text)
    \/ RecordUsage
    \/ TurnFails
    \/ Pause
    \/ \E c \in Convs, text \in Texts, use \in 1..MaxUse : AgentReplies(c, text, use)
    \/ \E c \in Convs : LosesConversation(c)

Spec == Init /\ [][Next]_vars
-----------------------------------------------------------------------------
\* While the agent works on a turn, it has been given every stored message that came
\* before the one of the turn, in order: nothing the user sees in the chat is missing from
\* the context, through failed turns, rejected messages, lost conversations and approvals
\* (conversation_history.py, openhands_engine.py 496-571).
ContextIsComplete ==
    phase = "wait" /\ conv \in alive =>
        /\ IsPrefix(History, Given(conv))
        /\ \E i \in 1..Len(Given(conv)) : i > Len(History) /\ Given(conv)[i] = User(prompt)

\* A rebuilt conversation begins with the thread exactly as it was when the turn began:
\* the message of the turn is there once (chat_orchestrator.py 40-63,
\* openhands_engine.py 445-472).
RebuiltIsThread ==
    \A c \in Convs : (phase = "wait" /\ conv = c /\ Len(log[c]) = 1 /\ prompt # Go)
        => Given(c) = asked

\* The trim drops the oldest messages only: the thread that a turn reads ends with the
\* message of the turn, however often it has been trimmed (chat_history.py 325-339).
LatestIsKept ==
    phase = "ensure" /\ prompt # Go => asked # <<>> /\ Last(asked) = User(prompt)

\* What a turn reads of the thread ends with its message, and is what a conversation built
\* from it begins with.
ThreadIsKept == RebuiltIsThread /\ LatestIsKept

\* The recorded increments never exceed the tokens that were used, unless a client has led
\* the chat back to an earlier conversation; and as long as the chat has used one
\* conversation they are its total (service.py: record_chat_token_usage()).
UsageIsCounted ==
    /\ ~named => recorded <= spent
    /\ ~switched /\ usage # -1 => recorded = usage
=============================================================================
