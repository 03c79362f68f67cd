-------------------------- MODULE ChatThreadProofs --------------------------
(***************************************************************************)
(* What ChatThread guarantees for any texts, conversations, length of the  *)
(* thread and number of turns.                                             *)
(***************************************************************************)
EXTENDS ChatThread, TLAPS

\* What the server has begins with a message, and what has not begun has used nothing.
Begun ==
    /\ \A c \in alive : log[c] # <<>>
    /\ \A c \in Convs : log[c] = <<>> => used[c] = 0

Typed == TypeOK /\ Begun

LEMMA UserIsMessage == ASSUME NEW t \in Texts \cup {Go} PROVE User(t) \in Messages
  BY DEF User, Messages

LEMMA ReplyIsMessage == ASSUME NEW t \in Texts \cup {Go} PROVE Reply(t) \in Messages
  BY DEF Reply, Messages

\* The stored thread is short enough, and the new message is its last one.
LEMMA StoredKeepsLatest ==
    ASSUME TypeOK, NEW m \in Messages
    PROVE  /\ Stored(m) \in Seq(Messages)
           /\ Len(Stored(m)) \in 1..MaxMessages
           /\ Stored(m)[Len(Stored(m))] = m
  <1> DEFINE all == Append(msgs, m)
  <1>1. /\ all \in Seq(Messages) /\ Len(all) = Len(msgs) + 1 /\ all[Len(all)] = m
        /\ Len(msgs) \in Nat /\ Len(msgs) <= MaxMessages
    BY DEF TypeOK
  <1>2. MaxMessages \in Nat \ {0}
    BY ConstantsAssumption
  <1>3. CASE Len(all) > MaxMessages
    <2>1. Stored(m) = Tail(all)
      BY <1>3 DEF Stored
    <2>2. Len(all) >= 2
      BY <1>1, <1>2, <1>3
    <2>3. /\ Tail(all) \in Seq(Messages) /\ Len(Tail(all)) = Len(all) - 1
          /\ Tail(all)[Len(all) - 1] = all[Len(all)]
      BY <1>1, <2>2
    <2> QED
      BY <1>1, <1>2, <1>3, <2>1, <2>2, <2>3
  <1>4. CASE Len(all) <= MaxMessages
    BY <1>1, <1>2, <1>4 DEF Stored
  <1> QED
    BY <1>1, <1>2, <1>3, <1>4

LEMMA InitTyped == Init => Typed
  <1> SUFFICES ASSUME Init PROVE Typed
    OBVIOUS
  <1>1. <<>> \in Seq(Messages) /\ Len(<<>>) = 0
    OBVIOUS
  <1>2. log \in [Convs -> Seq(Messages)] /\ context \in [Convs -> Seq(Messages)]
    BY <1>1 DEF Init
  <1>3. used \in [Convs -> Nat] /\ sends \in 0..MaxSends
    BY ConstantsAssumption DEF Init
  <1>4. msgs \in Seq(Messages) /\ Len(msgs) <= MaxMessages /\ asked \in Seq(Messages)
    BY <1>1, ConstantsAssumption DEF Init
  <1>5. Begun
    BY DEF Init, Begun
  <1> QED
    BY <1>2, <1>3, <1>4, <1>5 DEF Init, Typed, TypeOK, Phases

LEMMA HistoryType == TypeOK => History \in Seq(Messages)
  BY DEF History, TypeOK, Front

LEMMA NextTyped == Typed /\ [Next]_vars => Typed'
  <1> SUFFICES ASSUME Typed, [Next]_vars PROVE Typed'
    OBVIOUS
  <1> USE DEF Typed
  <1>1. ASSUME NEW text \in Texts, NEW c \in Convs \cup {NoConv}, Send(text, c) PROVE Typed'
    <2>1. msgs' \in Seq(Messages) /\ Len(msgs') <= MaxMessages
      BY <1>1, UserIsMessage, StoredKeepsLatest, ConstantsAssumption DEF Send
    <2>2. sends' \in 0..MaxSends /\ conv' \in Convs \cup {NoConv}
      BY <1>1, ConstantsAssumption DEF Send, TypeOK
    <2>3. named' \in BOOLEAN
      BY <1>1 DEF Send
    <2> QED
      BY <1>1, <2>1, <2>2, <2>3 DEF Send, TypeOK, Begun, Phases, tokens, server
  <1>2. ASSUME NEW text \in Texts, SendRejected(text) PROVE Typed'
    <2>1. msgs' \in Seq(Messages) /\ Len(msgs') <= MaxMessages
      BY <1>2, UserIsMessage, StoredKeepsLatest, ConstantsAssumption DEF SendRejected
    <2> QED
      BY <1>2, <2>1, ConstantsAssumption, SMTT(30)
         DEF SendRejected, TypeOK, Begun, tokens, server, turn
  <1>3. CASE Resume
    BY <1>3, ConstantsAssumption DEF Resume, TypeOK, Begun, Phases, thread, tokens, server
  <1>4. CASE Continue
    <2>1. /\ log' = [log EXCEPT ![conv] = Append(log[conv], User(prompt))]
          /\ conv \in Convs /\ User(prompt) \in Messages
      BY <1>4, UserIsMessage DEF Continue, TypeOK
    <2>2. log' \in [Convs -> Seq(Messages)]
      BY <2>1 DEF TypeOK
    <2>3. \A c \in Convs : log'[c] = <<>> => log[c] = <<>>
      BY <2>1, SMTT(30) DEF TypeOK
    <2> QED
      BY <1>4, <2>2, <2>3 DEF Continue, TypeOK, Begun, Phases, thread, tokens
  <1>5. ASSUME NEW c \in Convs, Rebuild(c) PROVE Typed'
    <2>1. /\ <<User(prompt)>> \in Seq(Messages) /\ <<User(prompt)>> # <<>>
          /\ History \in Seq(Messages)
      BY UserIsMessage, HistoryType DEF TypeOK
    <2> QED
      BY <1>5, <2>1 DEF Rebuild, TypeOK, Begun, Phases, thread, HasBegun
  <1>6. ASSUME NEW c \in Convs, StartNew(c) PROVE Typed'
    <2>1. <<User(prompt)>> \in Seq(Messages) /\ <<User(prompt)>> # <<>>
      BY UserIsMessage DEF TypeOK
    <2> QED
      BY <1>6, <2>1 DEF StartNew, TypeOK, Begun, Phases, thread, HasBegun
  <1>7. ASSUME NEW text \in Texts, Finish(text) PROVE Typed'
    <2>1. msgs' \in Seq(Messages) /\ Len(msgs') <= MaxMessages
      <3>1. msgs \in Seq(Messages) /\ Len(msgs) <= MaxMessages
        BY DEF TypeOK
      <3>2. /\ Stored(Reply(text)) \in Seq(Messages)
            /\ Len(Stored(Reply(text))) <= MaxMessages
        BY ReplyIsMessage, StoredKeepsLatest, ConstantsAssumption
      <3> QED
        BY <1>7, <3>1, <3>2 DEF Finish
    <2>2. chatConv' \in Convs
      BY <1>7 DEF Finish, TypeOK
    <2> QED
      BY <1>7, <2>1, <2>2 DEF Finish, TypeOK, Begun, Phases, tokens, server
  <1>8. CASE RecordUsage
    <2>1. used[conv] \in Nat
      BY <1>8 DEF RecordUsage, TypeOK
    <2>2. usage' \in Nat /\ recorded' \in Nat
      BY <1>8, <2>1, SMTT(30) DEF RecordUsage, TypeOK
    <2> QED
      BY <1>8, <2>2 DEF RecordUsage, TypeOK, Begun, Phases, thread, server
  <1>9. CASE TurnFails
    BY <1>9 DEF TurnFails, TypeOK, Begun, Phases, thread, tokens, server
  <1>10. CASE Pause
    BY <1>10 DEF Pause, TypeOK, Begun, Phases, thread, tokens, server
  <1>11. ASSUME NEW c \in Convs, NEW text \in Texts, NEW use \in 1..MaxUse,
                AgentReplies(c, text, use)
         PROVE  Typed'
    <2>1. use \in Nat
      BY ConstantsAssumption
    <2>2. /\ log' = [log EXCEPT ![c] = Append(log[c], Reply(text))]
          /\ Reply(text) \in Messages
      BY <1>11, ReplyIsMessage DEF AgentReplies
    <2>3. log' \in [Convs -> Seq(Messages)]
      BY <2>2 DEF TypeOK
    <2>4. \A d \in Convs : log'[d] = <<>> => log[d] = <<>> /\ d # c
      <3>1. log[c] \in Seq(Messages)
        BY DEF TypeOK
      <3>2. Append(log[c], Reply(text)) # <<>>
        BY <2>2, <3>1
      <3> QED
        BY <2>2, <3>2 DEF TypeOK
    <2>5. used' = [used EXCEPT ![c] = used[c] + use] /\ spent' = spent + use
      BY <1>11 DEF AgentReplies
    <2>6. used' \in [Convs -> Nat] /\ spent' \in Nat
      BY <2>1, <2>5 DEF TypeOK
    <2>7. \A d \in Convs : d # c => used'[d] = used[d]
      BY <2>5 DEF TypeOK
    <2> QED
      BY <1>11, <2>3, <2>4, <2>6, <2>7
         DEF AgentReplies, TypeOK, Begun, thread, tokens, turn
  <1>12. ASSUME NEW c \in Convs, LosesConversation(c) PROVE Typed'
    BY <1>12 DEF LosesConversation, TypeOK, Begun, Phases, thread, tokens, turn
  <1>13. CASE UNCHANGED vars
    BY <1>13 DEF vars, TypeOK, Begun, thread, tokens, turn, server
  <1> QED
    BY <1>1, <1>2, <1>3, <1>4, <1>5, <1>6, <1>7, <1>8, <1>9, <1>10, <1>11, <1>12, <1>13
       DEF Next

\* Every reachable state is well typed: the thread never grows over its limit, and the
\* service and the agent server exchange only messages, whatever is lost or repeated.
LEMMA TypedInvariant == Spec => []Typed
  BY InitTyped, NextTyped, PTL DEF Spec

THEOREM TypeCorrect == Spec => []TypeOK
  BY TypedInvariant, PTL DEF Typed
-----------------------------------------------------------------------------
(***************************************************************************)
(* What a turn gives the agent.                                            *)
(***************************************************************************)
TurnInv == LatestIsKept /\ RebuiltIsThread /\ ContextIsComplete

\* A conversation that grows at its end still has all that has been given before.
LEMMA GrowingKeeps ==
    ASSUME NEW h \in Seq(Messages), NEW s \in Seq(Messages), NEW x \in Seq(Messages),
           NEW m \in Messages, IsPrefix(h, x \o s)
    PROVE  /\ IsPrefix(h, x \o Append(s, m))
           /\ Len(x \o Append(s, m)) = Len(x \o s) + 1
           /\ Len(h) <= Len(x \o s) /\ Len(h) \in Nat /\ Len(x \o s) \in Nat
           /\ \A i \in 1..Len(x \o s) : (x \o Append(s, m))[i] = (x \o s)[i]
           /\ (x \o Append(s, m))[Len(x \o s) + 1] = m
  <1> DEFINE old == x \o s
             new == x \o Append(s, m)
  <1>1. /\ old \in Seq(Messages) /\ new \in Seq(Messages)
        /\ Len(old) = Len(x) + Len(s) /\ Len(new) = Len(x) + Len(s) + 1
    OBVIOUS
  <1>2. \A i \in 1..Len(old) : new[i] = old[i]
    OBVIOUS
  <1>3. new[Len(old) + 1] = m
    OBVIOUS
  <1>4. Len(h) <= Len(old) /\ SubSeq(h, 1, Len(h)) = SubSeq(old, 1, Len(h))
    BY DEF IsPrefix
  <1>5. SubSeq(old, 1, Len(h)) = SubSeq(new, 1, Len(h))
    BY <1>1, <1>2, <1>4
  <1> QED
    BY <1>1, <1>2, <1>3, <1>4, <1>5, SMTT(30) DEF IsPrefix

\* A first message that holds the history and then the turn's message is the thread.
LEMMA HistoryThenPrompt ==
    ASSUME Typed, LatestIsKept, phase = "ensure"
    PROVE  /\ History \in Seq(Messages) /\ User(prompt) \in Messages
           /\ IsPrefix(History, History \o <<User(prompt)>>)
           /\ Len(History \o <<User(prompt)>>) = Len(History) + 1
           /\ (History \o <<User(prompt)>>)[Len(History) + 1] = User(prompt)
           /\ prompt # Go => History \o <<User(prompt)>> = asked
  <1> DEFINE m == User(prompt)
  <1>1. m \in Messages /\ History \in Seq(Messages) /\ asked \in Seq(Messages)
    BY UserIsMessage, HistoryType DEF Typed, TypeOK
  <1> HIDE DEF m
  <1>2. IsPrefix(History, History \o <<m>>)
    BY <1>1 DEF IsPrefix
  <1>3. /\ Len(History \o <<m>>) = Len(History) + 1
        /\ (History \o <<m>>)[Len(History) + 1] = m
    BY <1>1
  <1>4. ASSUME prompt # Go PROVE History \o <<m>> = asked
    <2>1. asked # <<>> /\ asked[Len(asked)] = m
      BY <1>4 DEF LatestIsKept, Last, m
    <2>2. History = SubSeq(asked, 1, Len(asked) - 1)
      BY <2>1 DEF History, Last, Front, m
    <2>3. Len(asked) \in Nat \ {0}
      BY <1>1, <2>1
    <2> QED
      BY <1>1, <2>1, <2>2, <2>3
  <1> QED
    BY <1>1, <1>2, <1>3, <1>4 DEF m

\* A conversation that agrees has been given the whole history.
LEMMA SyncedIsGiven ==
    ASSUME Typed, NEW c \in Convs, NEW n \in 0..Len(log[c]), Synced(c, n)
    PROVE  IsPrefix(History, Given(c))
  <1>1. /\ History \in Seq(Messages) /\ log[c] \in Seq(Messages)
        /\ context[c] \in Seq(Messages)
    BY HistoryType DEF Typed, TypeOK
  <1>2. CASE History = <<>>
    <2>1. Given(c) \in Seq(Messages)
      BY <1>1 DEF Given
    <2>2. Len(History) = 0 /\ Len(Given(c)) >= 0
      BY <1>2, <2>1
    <2>3. SubSeq(History, 1, 0) = SubSeq(Given(c), 1, 0)
      BY <1>1, <2>1
    <2> QED
      BY <2>2, <2>3 DEF IsPrefix
  <1>3. CASE context[c] = <<>> /\ IsPrefix(History, SubSeq(log[c], 1, n))
    <2>1. Given(c) = log[c]
      BY <1>1, <1>3 DEF Given
    <2>2. Len(SubSeq(log[c], 1, n)) = n /\ n <= Len(log[c]) /\ n \in Nat
      BY <1>1
    <2>3. /\ Len(History) <= n
          /\ SubSeq(History, 1, Len(History)) = SubSeq(SubSeq(log[c], 1, n), 1, Len(History))
      BY <1>3, <2>2 DEF IsPrefix
    <2>4. SubSeq(SubSeq(log[c], 1, n), 1, Len(History)) = SubSeq(log[c], 1, Len(History))
      BY <1>1, <2>2, <2>3
    <2> QED
      BY <1>1, <2>1, <2>2, <2>3, <2>4 DEF IsPrefix
  <1> QED
    BY <1>2, <1>3 DEF Synced

LEMMA TurnUndisturbed ==
    ASSUME TurnInv,
           \/ UNCHANGED <<turn, log, context, alive>>
           \/ phase' \notin {"ensure", "wait"}
    PROVE  TurnInv'
  <1>1. CASE UNCHANGED <<turn, log, context, alive>>
    BY <1>1 DEF TurnInv, LatestIsKept, RebuiltIsThread, ContextIsComplete, Given, History, turn
  <1>2. CASE phase' \notin {"ensure", "wait"}
    BY <1>2 DEF TurnInv, LatestIsKept, RebuiltIsThread, ContextIsComplete
  <1> QED
    BY <1>1, <1>2

\* The first message of a turn in a new conversation.
LEMMA FirstMessageTurn ==
    ASSUME Typed, TurnInv, NEW c \in Convs, phase = "ensure",
           phase' = "wait", conv' = c, UNCHANGED <<prompt, asked>>,
           log' = [log EXCEPT ![c] = <<User(prompt)>>],
           context' = [context EXCEPT ![c] = History]
    PROVE  TurnInv'
  <1>1. History' = History /\ User(prompt)' = User(prompt)
    BY DEF History
  <1>2. Given(c)' = History \o <<User(prompt)>>
    BY DEF Given, Typed, TypeOK
  <1>3. LatestIsKept'
    BY DEF LatestIsKept
  <1>4. RebuiltIsThread'
    BY <1>2, HistoryThenPrompt DEF RebuiltIsThread, TurnInv
  <1>5. ContextIsComplete'
    <2>1. Len(History) \in Nat
      BY HistoryThenPrompt DEF TurnInv
    <2>2. /\ IsPrefix(History, Given(c)')
          /\ Len(History) + 1 \in 1..Len(Given(c)') /\ Len(History) + 1 > Len(History)
          /\ Given(c)'[Len(History) + 1] = User(prompt)
      BY <1>2, <2>1, HistoryThenPrompt DEF TurnInv
    <2> QED
      BY <1>1, <2>2 DEF ContextIsComplete
  <1> QED
    BY <1>3, <1>4, <1>5 DEF TurnInv

LEMMA ContinueTurn == ASSUME Typed, TurnInv, Continue PROVE TurnInv'
  <1>1. /\ conv \in Convs /\ conv' = conv /\ phase = "ensure" /\ phase' = "wait"
        /\ log[conv] \in Seq(Messages) /\ log[conv] # <<>> /\ context[conv] \in Seq(Messages)
    BY DEF Continue, Typed, TypeOK, Begun
  <1>2. History' = History /\ prompt' = prompt /\ User(prompt) \in Messages
    BY UserIsMessage DEF Continue, History, Typed, TypeOK
  <1>3. log'[conv] = Append(log[conv], User(prompt)) /\ context' = context
    BY DEF Continue, Typed, TypeOK
  <1>4. LatestIsKept'
    BY <1>1 DEF LatestIsKept
  <1>5. RebuiltIsThread'
    <2>1. Len(log'[conv]) # 1
      BY <1>1, <1>2, <1>3
    <2> QED
      BY <1>1, <2>1 DEF RebuiltIsThread
  <1>6. ContextIsComplete'
    <2>1. IsPrefix(History, Given(conv))
      BY SyncedIsGiven, <1>1 DEF Continue
    <2>2. History \in Seq(Messages)
      BY HistoryType DEF Typed
    <2>3. Given(conv)' = context[conv] \o Append(log[conv], User(prompt))
      BY <1>1, <1>3 DEF Given
    <2>4. Given(conv) = context[conv] \o log[conv]
      BY DEF Given
    <2>5. /\ IsPrefix(History, Given(conv)')
          /\ Len(Given(conv)') = Len(Given(conv)) + 1
          /\ Len(History) <= Len(Given(conv))
          /\ Len(History) \in Nat /\ Len(Given(conv)) \in Nat
          /\ Given(conv)'[Len(Given(conv)) + 1] = User(prompt)
      <3> DEFINE x == context[conv]
                 l == log[conv]
                 u == User(prompt)
      <3>1. /\ x \in Seq(Messages) /\ l \in Seq(Messages) /\ u \in Messages
            /\ IsPrefix(History, x \o l)
        BY <1>1, <1>2, <2>1, <2>4
      <3> HIDE DEF x, l, u
      <3>2. /\ IsPrefix(History, x \o Append(l, u))
            /\ Len(x \o Append(l, u)) = Len(x \o l) + 1
            /\ Len(History) <= Len(x \o l)
            /\ Len(History) \in Nat /\ Len(x \o l) \in Nat
            /\ (x \o Append(l, u))[Len(x \o l) + 1] = u
        BY <2>2, <3>1, GrowingKeeps
      <3> QED
        BY <2>3, <2>4, <3>2 DEF x, l, u
    <2>6. /\ Len(Given(conv)) + 1 \in 1..Len(Given(conv)')
          /\ Len(Given(conv)) + 1 > Len(History)
      BY <2>5
    <2> QED
      BY <1>1, <1>2, <2>5, <2>6 DEF ContextIsComplete
  <1> QED
    BY <1>4, <1>5, <1>6 DEF TurnInv

LEMMA AgentRepliesTurn ==
    ASSUME Typed, TurnInv, NEW c \in Convs, NEW text \in Texts, NEW use,
           AgentReplies(c, text, use)
    PROVE  TurnInv'
  <1>1. /\ log[c] \in Seq(Messages) /\ log[c] # <<>> /\ context[c] \in Seq(Messages)
        /\ log'[c] = Append(log[c], Reply(text)) /\ Reply(text) \in Messages
        /\ \A d \in Convs : d # c => log'[d] = log[d]
    BY ReplyIsMessage DEF AgentReplies, Typed, TypeOK, Begun
  <1>2. /\ UNCHANGED <<phase, prompt, asked, conv, context, alive>>
        /\ History' = History /\ History \in Seq(Messages)
    BY HistoryType DEF AgentReplies, turn, History, Typed
  <1>3. LatestIsKept'
    BY <1>2 DEF LatestIsKept, TurnInv
  <1>4. RebuiltIsThread'
    <2>1. Len(log'[c]) # 1
      BY <1>1
    <2> QED
      BY <1>1, <1>2, <2>1 DEF RebuiltIsThread, TurnInv, Given
  <1>5. ContextIsComplete'
    <2>1. SUFFICES ASSUME phase = "wait", conv \in alive PROVE ContextIsComplete'
      BY <1>2 DEF ContextIsComplete
    <2>2. PICK i \in 1..Len(Given(conv)) :
                 i > Len(History) /\ Given(conv)[i] = User(prompt)
      BY <2>1 DEF ContextIsComplete, TurnInv
    <2>3. IsPrefix(History, Given(conv))
      BY <2>1 DEF ContextIsComplete, TurnInv
    <2>4. CASE conv = c
      <3>1. Given(conv)' = context[c] \o Append(log[c], Reply(text))
        BY <1>1, <1>2, <2>4 DEF Given
      <3>2. Given(conv) = context[c] \o log[c]
        BY <2>4 DEF Given
      <3>3. /\ IsPrefix(History, Given(conv)')
            /\ Len(Given(conv)') = Len(Given(conv)) + 1
            /\ Len(Given(conv)) \in Nat
            /\ \A k \in 1..Len(Given(conv)) : Given(conv)'[k] = Given(conv)[k]
        <4> DEFINE x == context[c]
                   l == log[c]
                   m == Reply(text)
        <4>1. /\ x \in Seq(Messages) /\ l \in Seq(Messages) /\ m \in Messages
              /\ IsPrefix(History, x \o l)
          BY <1>1, <2>3, <3>2
        <4> HIDE DEF x, l, m
        <4>2. /\ IsPrefix(History, x \o Append(l, m))
              /\ Len(x \o Append(l, m)) = Len(x \o l) + 1
              /\ Len(x \o l) \in Nat
              /\ \A k \in 1..Len(x \o l) : (x \o Append(l, m))[k] = (x \o l)[k]
          BY <1>2, <4>1, GrowingKeeps
        <4> QED
          BY <3>1, <3>2, <4>2 DEF x, l, m
      <3>4. i \in 1..Len(Given(conv)') /\ Given(conv)'[i] = User(prompt)
        BY <2>2, <3>3
      <3> QED
        BY <1>2, <2>2, <3>3, <3>4 DEF ContextIsComplete
    <2>5. CASE conv # c
      <3>1. Given(conv)' = Given(conv)
        BY <1>1, <1>2, <2>1, <2>5 DEF Given, Typed, TypeOK
      <3> QED
        BY <1>2, <2>2, <2>3, <3>1 DEF ContextIsComplete
    <2> QED
      BY <2>4, <2>5
  <1> QED
    BY <1>3, <1>4, <1>5 DEF TurnInv

LEMMA NextTurn == ASSUME Typed, TurnInv, [Next]_vars PROVE TurnInv'
  <1>1. ASSUME NEW text \in Texts, NEW c \in Convs \cup {NoConv}, Send(text, c) PROVE TurnInv'
    <2>1. /\ asked' = Stored(User(text)) /\ prompt' = text /\ phase' = "ensure"
          /\ User(text) \in Messages
      BY <1>1, UserIsMessage DEF Send
    <2>2. Len(asked') \in 1..MaxMessages /\ asked'[Len(asked')] = User(text)
      BY <2>1, StoredKeepsLatest DEF Typed
    <2>3. asked' # <<>>
      BY <2>2
    <2> QED
      BY <2>1, <2>2, <2>3
         DEF TurnInv, LatestIsKept, RebuiltIsThread, ContextIsComplete, Last
  <1>2. ASSUME NEW text \in Texts, SendRejected(text) PROVE TurnInv'
    BY <1>2, TurnUndisturbed DEF SendRejected, server
  <1>3. CASE Resume
    BY <1>3 DEF Resume, TurnInv, LatestIsKept, RebuiltIsThread, ContextIsComplete
  <1>4. ASSUME NEW c \in Convs, Rebuild(c) PROVE TurnInv'
    BY <1>4, FirstMessageTurn DEF Rebuild
  <1>5. ASSUME NEW c \in Convs, StartNew(c) PROVE TurnInv'
    BY <1>5, FirstMessageTurn DEF StartNew
  <1>6. ASSUME NEW text \in Texts, Finish(text) PROVE TurnInv'
    BY <1>6, TurnUndisturbed DEF Finish
  <1>7. CASE RecordUsage
    BY <1>7, TurnUndisturbed DEF RecordUsage
  <1>8. CASE TurnFails
    BY <1>8, TurnUndisturbed DEF TurnFails
  <1>9. CASE Pause
    BY <1>9, TurnUndisturbed DEF Pause
  <1>10. ASSUME NEW c \in Convs, LosesConversation(c) PROVE TurnInv'
    BY <1>10 DEF LosesConversation, turn, TurnInv, LatestIsKept, RebuiltIsThread,
                 ContextIsComplete, Given, History
  <1>11. CASE UNCHANGED vars
    BY <1>11, TurnUndisturbed DEF vars, turn, server
  <1> QED
    BY <1>1, <1>2, <1>3, <1>4, <1>5, <1>6, <1>7, <1>8, <1>9, <1>10, <1>11,
       ContinueTurn, AgentRepliesTurn DEF Next

LEMMA TurnInvariant == Spec => []TurnInv
  <1>1. Init => TurnInv
    BY DEF Init, TurnInv, LatestIsKept, RebuiltIsThread, ContextIsComplete
  <1> QED
    BY <1>1, NextTurn, TypedInvariant, PTL DEF Spec

\* However often the thread has been trimmed, a turn reads its own message last, and a
\* conversation that is built anew holds the thread as the turn found it
\* (chat_history.py: append_message(), chat_orchestrator.py: _history_from_thread(),
\* openhands_engine.py: _bootstrap_conversation_with_history()).
THEOREM ThreadKept == Spec => []ThreadIsKept
  BY TurnInvariant, PTL DEF TurnInv, ThreadIsKept

\* Whatever failed, was rejected or lost before, the agent has been given the whole
\* history of its turn (openhands_engine.py: _ensure_conversation()).
THEOREM AgentSeesThread == Spec => []ContextIsComplete
  BY TurnInvariant, PTL DEF TurnInv
-----------------------------------------------------------------------------
(***************************************************************************)
(* The tokens of a chat.                                                   *)
(***************************************************************************)

\* What record_chat_token_usage() subtracts.
Shown == IF usage = -1 THEN 0 ELSE usage

\* The chat's conversation and that of its turn can only add to the records what has
\* been used and not yet recorded.
RecordsAreSpent ==
    /\ phase = "tokens" => conv = chatConv
    /\ ~named => /\ recorded <= spent
                 /\ \A c \in Convs : c \in {conv, chatConv} =>
                       recorded + used[c] <= spent + Shown

\* Until the chat has a second conversation, all that is recorded is shown.
RecordsAreShown ==
    /\ ~HasBegun => usage = -1 /\ recorded = 0
    /\ ~switched => /\ recorded = Shown
                    /\ \A c, d \in Convs : log[c] # <<>> /\ log[d] # <<>> => c = d
                    /\ \A c \in Convs : log[c] # <<>> => Shown <= used[c]

UsageInv == RecordsAreSpent /\ RecordsAreShown

LEMMA UsageUndisturbed ==
    ASSUME UsageInv, UNCHANGED <<usage, recorded, switched, used, spent>>,
           \A c \in Convs : log'[c] = <<>> <=> log[c] = <<>>,
           phase' = "tokens" => conv' = chatConv',
           ~named' => ~named /\ conv' \in {conv, chatConv} /\ chatConv' \in {conv, chatConv}
    PROVE  UsageInv'
  <1>1. Shown' = Shown /\ HasBegun' = HasBegun
    BY DEF Shown, HasBegun
  <1>2. RecordsAreSpent'
    BY <1>1 DEF RecordsAreSpent, UsageInv
  <1>3. RecordsAreShown'
    BY <1>1 DEF RecordsAreShown, UsageInv
  <1> QED
    BY <1>2, <1>3 DEF UsageInv

LEMMA NewConversationUsage ==
    ASSUME Typed, UsageInv, NEW c \in Convs,
           UNCHANGED <<usage, recorded, chatConv, spent, named>>,
           conv' = c, phase' = "wait", switched' = HasBegun,
           log' = [log EXCEPT ![c] = <<User(prompt)>>],
           used'[c] = 0, \A d \in Convs : d # c => used'[d] = used[d]
    PROVE  UsageInv'
  <1>1. /\ Shown' = Shown /\ Shown \in Nat /\ recorded \in Nat /\ spent \in Nat
        /\ \A d \in Convs : used[d] \in Nat
    BY DEF Shown, Typed, TypeOK
  <1>2. RecordsAreSpent'
    BY <1>1 DEF RecordsAreSpent, UsageInv
  <1>3. log'[c] # <<>> /\ \A d \in Convs : d # c => log'[d] = log[d]
    BY DEF Typed, TypeOK
  <1>4. HasBegun'
    BY <1>3 DEF HasBegun
  <1>5. ~HasBegun => /\ Shown = 0 /\ recorded = 0
                     /\ \A d \in Convs : log[d] = <<>>
    BY DEF UsageInv, RecordsAreShown, HasBegun, Shown
  <1>6. RecordsAreShown'
    BY <1>1, <1>3, <1>4, <1>5 DEF RecordsAreShown
  <1> QED
    BY <1>2, <1>6 DEF UsageInv

LEMMA AgentRepliesUsage ==
    ASSUME Typed, UsageInv, NEW c \in Convs, NEW text \in Texts, NEW use \in Nat,
           AgentReplies(c, text, use)
    PROVE  UsageInv'
  <1>1. /\ UNCHANGED <<usage, recorded, switched, phase, conv, chatConv, named>>
        /\ Shown' = Shown
    BY DEF AgentReplies, tokens, turn, thread, Shown
  <1>2. /\ spent' = spent + use /\ spent \in Nat /\ recorded \in Nat /\ Shown \in Nat
        /\ used'[c] = used[c] + use
        /\ \A d \in Convs : used[d] \in Nat /\ (d # c => used'[d] = used[d])
    BY DEF AgentReplies, Typed, TypeOK, Shown
  <1>3. log[c] # <<>> /\ \A d \in Convs : d # c => log'[d] = log[d]
    BY DEF AgentReplies, Typed, TypeOK, Begun
  <1>4. HasBegun
    BY <1>3 DEF HasBegun
  <1>5. RecordsAreSpent'
    <2>1. ~named => recorded <= spent'
      BY <1>2 DEF UsageInv, RecordsAreSpent
    <2>2. ASSUME ~named, NEW d \in Convs, d \in {conv, chatConv}
          PROVE  recorded + used'[d] <= spent' + Shown
      <3>1. recorded + used[d] <= spent + Shown
        BY <2>2 DEF UsageInv, RecordsAreSpent
      <3> QED
        BY <1>2, <3>1
    <2> QED
      BY <1>1, <2>1, <2>2 DEF UsageInv, RecordsAreSpent
  <1>6. RecordsAreShown'
    <2>1. log'[c] # <<>>
      <3>1. log[c] \in Seq(Messages) /\ log'[c] = Append(log[c], Reply(text))
        BY DEF AgentReplies, Typed, TypeOK
      <3>2. Reply(text) \in Messages
        BY ReplyIsMessage
      <3> QED
        BY <3>1, <3>2
    <2>2. HasBegun'
      BY <2>1 DEF HasBegun
    <2>3. ASSUME ~switched, NEW d \in Convs, log'[d] # <<>>
          PROVE  d = c /\ Shown <= used'[d]
      <3>1. log[d] # <<>>
        BY <1>3, <2>3
      <3>2. d = c /\ Shown <= used[d]
        BY <1>3, <2>3, <3>1 DEF UsageInv, RecordsAreShown
      <3> QED
        BY <1>2, <3>2
    <2> QED
      BY <1>1, <2>2, <2>3 DEF UsageInv, RecordsAreShown
  <1> QED
    BY <1>5, <1>6 DEF UsageInv

LEMMA RecordUsageUsage == ASSUME Typed, UsageInv, RecordUsage PROVE UsageInv'
  <1>1. /\ conv \in Convs /\ log[conv] # <<>> /\ conv = chatConv /\ phase' = "idle"
        /\ UNCHANGED <<conv, chatConv, switched, used, spent, named, log>>
    BY DEF RecordUsage, Typed, TypeOK, Begun, UsageInv, RecordsAreSpent, thread, server
  <1>2. /\ used[conv] \in Nat /\ Shown \in Nat /\ recorded \in Nat /\ spent \in Nat
        /\ usage' = used[conv] /\ Shown' = used[conv]
        /\ recorded' = recorded + IF used[conv] > Shown THEN used[conv] - Shown ELSE 0
    BY <1>1 DEF RecordUsage, Typed, TypeOK, Shown
  <1>3. HasBegun /\ HasBegun'
    BY <1>1 DEF HasBegun
  <1>4. RecordsAreSpent'
    <2>1. ~named => recorded <= spent /\ recorded + used[conv] <= spent + Shown
      BY <1>1 DEF UsageInv, RecordsAreSpent
    <2>2. ~named => recorded' <= spent
      BY <1>2, <2>1
    <2>3. recorded' \in Nat
      BY <1>2
    <2> QED
      BY <1>1, <1>2, <2>2, <2>3 DEF RecordsAreSpent
  <1>5. RecordsAreShown'
    <2>1. ~switched => /\ recorded = Shown /\ Shown <= used[conv]
                       /\ \A d \in Convs : log[d] # <<>> => d = conv
      BY <1>1 DEF UsageInv, RecordsAreShown
    <2>2. ~switched => recorded' = Shown'
      BY <1>2, <2>1
    <2> QED
      BY <1>1, <1>2, <1>3, <2>1, <2>2 DEF RecordsAreShown
  <1> QED
    BY <1>4, <1>5 DEF UsageInv

LEMMA NextUsage == ASSUME Typed, UsageInv, [Next]_vars PROVE UsageInv'
  <1>1. ASSUME NEW text \in Texts, NEW c \in Convs \cup {NoConv}, Send(text, c) PROVE UsageInv'
    BY <1>1, UsageUndisturbed DEF Send, tokens, server
  <1>2. ASSUME NEW text \in Texts, SendRejected(text) PROVE UsageInv'
    BY <1>2, UsageUndisturbed DEF SendRejected, tokens, turn, server, UsageInv, RecordsAreSpent
  <1>3. CASE Resume
    BY <1>3, UsageUndisturbed DEF Resume, thread, tokens, server
  <1>4. CASE Continue
    <2>1. /\ log[conv] \in Seq(Messages) /\ log[conv] # <<>> /\ User(prompt) \in Messages
          /\ log' = [log EXCEPT ![conv] = Append(log[conv], User(prompt))]
      BY <1>4, UserIsMessage DEF Continue, Typed, TypeOK, Begun
    <2>2. Append(log[conv], User(prompt)) # <<>>
      BY <2>1
    <2>3. \A c \in Convs : log'[c] = <<>> <=> log[c] = <<>>
      BY <2>1, <2>2 DEF Typed, TypeOK
    <2> QED
      BY <1>4, <2>3, UsageUndisturbed DEF Continue, thread, tokens
  <1>5. ASSUME NEW c \in Convs, Rebuild(c) PROVE UsageInv'
    <2>1. used'[c] = 0 /\ \A d \in Convs : used'[d] = used[d]
      BY <1>5 DEF Rebuild, Typed, Begun
    <2> QED
      BY <1>5, <2>1, NewConversationUsage DEF Rebuild, thread
  <1>6. ASSUME NEW c \in Convs, StartNew(c) PROVE UsageInv'
    <2>1. used'[c] = 0 /\ \A d \in Convs : d # c => used'[d] = used[d]
      BY <1>6 DEF StartNew, Typed, TypeOK
    <2> QED
      BY <1>6, <2>1, NewConversationUsage DEF StartNew, thread
  <1>7. ASSUME NEW text \in Texts, Finish(text) PROVE UsageInv'
    BY <1>7, UsageUndisturbed DEF Finish, tokens, server
  <1>8. CASE TurnFails
    BY <1>8, UsageUndisturbed DEF TurnFails, thread, tokens, server
  <1>9. CASE Pause
    BY <1>9, UsageUndisturbed DEF Pause, thread, tokens, server
  <1>10. ASSUME NEW c \in Convs, NEW text \in Texts, NEW use \in 1..MaxUse,
                AgentReplies(c, text, use)
         PROVE  UsageInv'
    <2>1. use \in Nat
      BY ConstantsAssumption
    <2> QED
      BY <1>10, <2>1, AgentRepliesUsage
  <1>11. ASSUME NEW c \in Convs, LosesConversation(c) PROVE UsageInv'
    BY <1>11, UsageUndisturbed
       DEF LosesConversation, thread, tokens, turn, UsageInv, RecordsAreSpent
  <1>12. CASE UNCHANGED vars
    BY <1>12, UsageUndisturbed
       DEF vars, thread, tokens, turn, server, UsageInv, RecordsAreSpent
  <1> QED
    BY <1>1, <1>2, <1>3, <1>4, <1>5, <1>6, <1>7, <1>8, <1>9, <1>10, <1>11, <1>12,
       RecordUsageUsage DEF Next

\* The token records never exceed what the agent has used unless a client leads the chat
\* back to an earlier conversation, and are exact with a single one
\* (service.py: record_chat_token_usage()).
THEOREM UsageCounted == Spec => []UsageIsCounted
  <1>1. Init => UsageInv
    BY ConstantsAssumption
       DEF Init, UsageInv, RecordsAreSpent, RecordsAreShown, HasBegun, Shown
  <1>2. Spec => []UsageInv
    BY <1>1, NextUsage, TypedInvariant, PTL DEF Spec
  <1>3. UsageInv => UsageIsCounted
    BY DEF UsageInv, RecordsAreSpent, RecordsAreShown, UsageIsCounted, Shown
  <1> QED
    BY <1>2, <1>3, PTL
=============================================================================
