--------------------------- MODULE EngineTurnProofs ---------------------------
(***************************************************************************)
(* What EngineTurn guarantees for any streams, conversations, number of    *)
(* events and size of a page.                                              *)
(***************************************************************************)
EXTENDS EngineTurn, TLAPS

LEMMA AppendFacts ==
    ASSUME NEW S, NEW q \in Seq(S), NEW e \in S
    PROVE  /\ Append(q, e) \in Seq(S) /\ Append(q, e) # <<>>
           /\ Len(Append(q, e)) = Len(q) + 1 /\ Len(q) \in Nat
           /\ \A i \in 1..Len(q) : Append(q, e)[i] = q[i]
           /\ Append(q, e)[Len(q) + 1] = e
  OBVIOUS

LEMMA TailFacts ==
    ASSUME NEW S, NEW q \in Seq(S), q # <<>>
    PROVE  /\ Tail(q) \in Seq(S) /\ Len(q) \in Nat /\ Len(q) >= 1
           /\ Len(Tail(q)) = Len(q) - 1
           /\ \A i \in 1..Len(Tail(q)) : Tail(q)[i] = q[i + 1]
           /\ Head(q) = q[1] /\ q[1] \in S
  OBVIOUS

LEMMA EmptyFacts == ASSUME NEW S, NEW q \in Seq(S), Len(q) = 0 PROVE q = <<>>
  OBVIOUS

LEMMA BoundType == /\ MaxEvents \in Nat \ {0} /\ 0 \in 0..MaxEvents /\ 1 \in 0..MaxEvents
                   /\ \A n \in Nat : n < MaxEvents => n + 1 \in Positions /\ n + 1 \in 0..MaxEvents
  BY ConstantsAssumption DEF Positions

Works(s) == pc[s] \in {"ready", "waiting", "final"}
Waits(s) == pc[s] \in {"waiting", "final"}

\* What a stream has when: a conversation once it has been found, its name once the answer
\* to its message is there, an event task only while it waits.
StreamOK(s) ==
    /\ Works(s) \/ pc[s] \in {"probe", "post"} \/ s \in named => conv[s] \in Convs
    /\ s \in named => Waits(s) \/ pc[s] = "ended"
    /\ Waits(s) => s \in named
    /\ events[s] \in {"connecting", "socket", "polling"} => Waits(s)

Typed == TypeOK /\ \A s \in Streams : StreamOK(s)

LEMMA InitType == Init => Typed
  <1> SUFFICES ASSUME Init PROVE Typed
    OBVIOUS
  <1>1. <<>> \in Seq(Streams) /\ Len(<<>>) = 0
    OBVIOUS
  <1>2. /\ log \in [Convs -> Seq(Streams)] /\ \A c \in Convs : Len(log[c]) <= MaxEvents
        /\ backlog \in [Convs -> Seq(Streams)]
    BY <1>1, BoundType DEF Init
  <1>3. /\ leaf \in [Convs -> 0..MaxEvents] /\ baseline \in [Streams -> 0..MaxEvents]
        /\ next \in [Streams -> 0..MaxEvents]
    BY BoundType DEF Init
  <1>4. pushes \in [Streams -> [Positions -> Nat]]
    BY DEF Init
  <1> QED
    BY <1>2, <1>3, <1>4 DEF Init, TypeOK, Typed, StreamOK, Works, Waits

LEMMA EndType ==
    ASSUME TypeOK, NEW s \in Streams, NEW o \in {"error", "empty"} \cup Streams, End(s, o)
    PROVE  TypeOK'
  <1>1. /\ baseline' \in [Streams -> 0..MaxEvents] /\ next' \in [Streams -> 0..MaxEvents]
        /\ pushes' \in [Streams -> [Positions -> Nat]]
    BY BoundType DEF End, TypeOK
  <1>2. cancelEvents' \in [Convs -> Streams \cup {NoStream}]
    BY DEF End, Unregister, TypeOK
  <1>3. polled' \subseteq Streams /\ misled' \subseteq Streams
    BY DEF End, TypeOK
  <1>4. result' \in [Streams -> {"none", "error", "empty"} \cup Streams]
    BY DEF End, TypeOK
  <1> QED
    BY <1>1, <1>2, <1>3, <1>4 DEF End, TypeOK, server

\* Messages: the log and the backlog grow by one.
LEMMA AcceptType ==
    ASSUME TypeOK, NEW s \in Streams, NEW c \in Convs, Accept(s, c)
    PROVE  /\ log' \in [Convs -> Seq(Streams)] /\ \A d \in Convs : Len(log'[d]) <= MaxEvents
           /\ backlog' \in [Convs -> Seq(Streams)] /\ crossed' \subseteq Streams
           /\ Len(log[c]) \in Nat /\ Len(log[c]) + 1 \in 0..MaxEvents
  <1>1. log[c] \in Seq(Streams) /\ backlog[c] \in Seq(Streams) /\ Len(log[c]) \in Nat
    BY DEF TypeOK
  <1>2. /\ Append(log[c], s) \in Seq(Streams) /\ Append(backlog[c], s) \in Seq(Streams)
        /\ Len(Append(log[c], s)) = Len(log[c]) + 1
    BY <1>1
  <1>3. /\ log' = [log EXCEPT ![c] = Append(log[c], s)]
        /\ backlog' = [backlog EXCEPT ![c] = Append(backlog[c], s)]
        /\ Len(log[c]) < MaxEvents
    BY DEF Accept
  <1>4. log' \in [Convs -> Seq(Streams)] /\ backlog' \in [Convs -> Seq(Streams)]
    BY <1>2, <1>3 DEF TypeOK
  <1>5. \A d \in Convs : Len(log'[d]) <= MaxEvents
    BY <1>1, <1>2, <1>3, BoundType DEF TypeOK
  <1>6. RangeOf(backlog[c]) \subseteq Streams
    BY <1>1 DEF RangeOf
  <1>7. crossed' \subseteq Streams
    BY <1>6 DEF Accept, WorkingIn, TypeOK
  <1> QED
    BY <1>1, <1>3, <1>4, <1>5, <1>7, BoundType

LEMMA TurnType ==
    ASSUME Typed, NEW s \in Streams,
           \/ \E stored \in Used \cup {NoConv} : Start(s, stored)
           \/ ProbeFinds(s) \/ ProbeMisses(s) \/ Send(s) \/ Create(s) \/ Ready(s)
           \/ SeesRunning(s) \/ SeesDone(s) \/ SeesStop(s)
    PROVE  TypeOK'
  <1> USE DEF Typed
  <1>1. ASSUME NEW stored \in Used \cup {NoConv}, Start(s, stored) PROVE TypeOK'
    BY <1>1 DEF Start, Used, TypeOK, Awaits, server, tables, reading, history
  <1>2. CASE ProbeFinds(s)
    <2>1. leaf[conv[s]] \in 0..MaxEvents
      BY <1>2 DEF ProbeFinds, TypeOK, StreamOK
    <2> QED
      BY <1>2, <2>1 DEF ProbeFinds, TypeOK, Awaits, server, tables, reading, history
  <1>3. CASE ProbeMisses(s)
    BY <1>3 DEF ProbeMisses, TypeOK, Awaits, server, tables, reading, history
  <1>4. CASE Send(s)
    <2>1. conv[s] \in Convs /\ Accept(s, conv[s])
      BY <1>4 DEF Send, StreamOK
    <2>2. /\ leaf' \in [Convs -> 0..MaxEvents]
          /\ status' \in [Convs -> {"idle", "running"} \cup Terminal]
          /\ misled' \subseteq Streams
      BY <1>4, <2>1, AcceptType, SMTT(30) DEF Send, TypeOK
    <2> QED
      BY <1>4, <2>1, <2>2, AcceptType DEF Send, TypeOK, Awaits, tables, reading
  <1>5. CASE Create(s)
    <2>1. PICK c \in Convs :
            /\ Accept(s, c) /\ conv' = [conv EXCEPT ![s] = c]
            /\ leaf' = [leaf EXCEPT ![c] = 1] \/ leaf' = leaf
      BY <1>5 DEF Create
    <2>2. leaf' \in [Convs -> 0..MaxEvents] /\ conv' \in [Streams -> Convs \cup {NoConv}]
      BY <2>1, BoundType DEF TypeOK
    <2> QED
      BY <1>5, <2>1, <2>2, AcceptType DEF Create, TypeOK, Awaits, tables, reading
  <1>6. CASE Ready(s)
    BY <1>6 DEF Ready, TypeOK, Awaits, server, history
  <1>7. CASE SeesRunning(s)
    BY <1>7 DEF SeesRunning, TypeOK, Awaits, server, tables, reading, history
  <1>8. CASE SeesDone(s)
    BY <1>8 DEF SeesDone, TypeOK, Awaits, server, tables, reading, history
  <1>9. CASE SeesStop(s)
    BY <1>9 DEF SeesStop, TypeOK, Awaits, server, tables, reading, history
  <1> QED
    BY <1>1, <1>2, <1>3, <1>4, <1>5, <1>6, <1>7, <1>8, <1>9

EventStep(s) ==
    SocketOpens(s) \/ SocketDelivers(s) \/ SocketEnds(s) \/ SocketFails(s) \/ Poll(s)
        \/ PollStops(s)

\* The event task changes what it reads and nothing else.
LEMMA EventFrame ==
    ASSUME NEW s \in Streams, EventStep(s)
    PROVE  /\ events[s] \in {"connecting", "socket", "polling"}
           /\ UNCHANGED <<log, status, leaf, backlog, answer, cancelEvents, session, pc, conv,
                          named, baseline, observed, result, stop, crossed, misled>>
  BY DEF EventStep, SocketOpens, SocketDelivers, SocketEnds, SocketFails, Poll, PollStops,
         Silent, server, tables, turn, history

LEMMA PushType ==
    ASSUME TypeOK, NEW s \in Streams, NEW batch \in SUBSET Positions, Push(s, batch)
    PROVE  /\ seen' \in [Streams -> SUBSET Positions]
           /\ pushes' \in [Streams -> [Positions -> Nat]]
  <1>1. seen' \in [Streams -> SUBSET Positions]
    BY DEF Push, TypeOK
  <1>2. [i \in Positions |-> IF i \in batch \ seen[s] THEN pushes[s][i] + 1 ELSE pushes[s][i]]
            \in [Positions -> Nat]
    BY DEF TypeOK
  <1>3. pushes' \in [Streams -> [Positions -> Nat]]
    BY <1>2 DEF Push, TypeOK
  <1> QED
    BY <1>1, <1>3

LEMMA EventType ==
    ASSUME Typed, NEW s \in Streams, EventStep(s)
    PROVE  /\ TypeOK'
           /\ \A t \in Streams : t # s =>
                 /\ events'[t] = events[t] /\ next'[t] = next[t] /\ seen'[t] = seen[t]
                 /\ pushes'[t] = pushes[t] /\ (t \in polled' <=> t \in polled)
  <1> USE DEF Typed
  <1> DEFINE Read ==
        /\ events' \in [Streams -> {"off", "connecting", "socket", "polling", "over"}]
        /\ next' \in [Streams -> 0..MaxEvents] /\ seen' \in [Streams -> SUBSET Positions]
        /\ pushes' \in [Streams -> [Positions -> Nat]] /\ polled' \subseteq Streams
        /\ \A t \in Streams : t # s =>
                 /\ events'[t] = events[t] /\ next'[t] = next[t] /\ seen'[t] = seen[t]
                 /\ pushes'[t] = pushes[t] /\ (t \in polled' <=> t \in polled)
  <1>1. conv[s] \in Convs
    BY EventFrame DEF StreamOK
  <1>2. log[conv[s]] \in Seq(Streams) /\ Len(log[conv[s]]) \in 0..MaxEvents
    BY <1>1 DEF TypeOK
  <1>3. ASSUME SocketOpens(s) PROVE Read
    BY <1>2, <1>3 DEF SocketOpens, TypeOK, history
  <1>4. ASSUME SocketDelivers(s) PROVE Read
    <2>1. next[s] + 1 \in Positions /\ next[s] + 1 \in 0..MaxEvents
      BY <1>2, <1>4, BoundType, SMTT(30) DEF SocketDelivers, TypeOK
    <2> QED
      BY <1>4, <2>1, PushType, SMTT(30) DEF SocketDelivers, TypeOK, history, Push
  <1>5. ASSUME SocketEnds(s) \/ PollStops(s) PROVE Read
    <2>0. Silent(s)
      BY <1>5 DEF SocketEnds, PollStops
    <2>1. [i \in Positions |-> 0] \in [Positions -> Nat]
      OBVIOUS
    <2>2. /\ next' \in [Streams -> 0..MaxEvents] /\ seen' \in [Streams -> SUBSET Positions]
          /\ pushes' \in [Streams -> [Positions -> Nat]] /\ polled' \subseteq Streams
          /\ events' \in [Streams -> {"off", "connecting", "socket", "polling", "over"}]
      BY <2>0, <2>1, BoundType DEF Silent, TypeOK
    <2> QED
      BY <2>0, <2>2 DEF Silent, TypeOK
  <1>6. ASSUME SocketFails(s) PROVE Read
    BY <1>6, BoundType DEF SocketFails, TypeOK
  <1>7. ASSUME Poll(s) PROVE Read
    <2>1. {i \in DOMAIN log[conv[s]] : i <= PageSize} \in SUBSET Positions
      BY <1>2, ConstantsAssumption DEF Positions
    <2> QED
      BY <1>7, <2>1, PushType DEF Poll, TypeOK, history, Push
  <1>8. Read
    BY <1>3, <1>4, <1>5, <1>6, <1>7 DEF EventStep
  <1> QED
    BY <1>8, EventFrame DEF TypeOK

LEMMA ServerType ==
    ASSUME TypeOK, NEW c \in Convs, ServerStep(c),
           status[c] = "running" => backlog[c] # <<>>
    PROVE  TypeOK'
  <1>1. CASE AgentStarts(c)
    BY <1>1 DEF AgentStarts, TypeOK, tables, turn, reading, history
  <1>2. CASE Happens(c)
    <2>1. /\ Head(backlog[c]) \in Streams /\ Tail(backlog[c]) \in Seq(Streams)
      BY <1>2, TailFacts DEF Happens, TypeOK
    <2>2. /\ log[c] \in Seq(Streams) /\ Append(log[c], Head(backlog[c])) \in Seq(Streams)
          /\ Len(Append(log[c], Head(backlog[c]))) = Len(log[c]) + 1
          /\ Len(log[c]) \in Nat /\ Len(log[c]) + 1 \in 0..MaxEvents
      BY <1>2, <2>1, AppendFacts, BoundType DEF Happens, TypeOK
    <2>3. log' = [log EXCEPT ![c] = Append(log[c], Head(backlog[c]))]
      BY <1>2 DEF Happens
    <2>4. log' \in [Convs -> Seq(Streams)] /\ \A d \in Convs : Len(log'[d]) <= MaxEvents
      BY <2>2, <2>3, BoundType DEF TypeOK
    <2>5. leaf' \in [Convs -> 0..MaxEvents]
      BY <1>2, <2>2 DEF Happens, TypeOK
    <2>6. /\ status' \in [Convs -> {"idle", "running"} \cup Terminal]
          /\ backlog' \in [Convs -> Seq(Streams)]
          /\ answer' \in [Convs -> Streams \cup {NoStream}]
      <3>1. CASE AgentActs(c)
        BY <3>1 DEF AgentActs, TypeOK
      <3>2. CASE AgentFinishes(c) \/ AgentFails(c)
        <4>1. backlog' = [backlog EXCEPT ![c] = Tail(backlog[c])]
          BY <3>2 DEF AgentFinishes, AgentFails
        <4>2. backlog' \in [Convs -> Seq(Streams)]
          BY <2>1, <4>1 DEF TypeOK
        <4>3. status' \in [Convs -> {"idle", "running"} \cup Terminal]
          BY <3>2 DEF AgentFinishes, AgentFails, TypeOK, Terminal
        <4>4. answer' \in [Convs -> Streams \cup {NoStream}]
          BY <3>2, <2>1, ZenonT(40) DEF AgentFinishes, AgentFails, TypeOK
        <4> QED
          BY <4>2, <4>3, <4>4
      <3> QED
        BY <1>2, <3>1, <3>2 DEF ServerStep, AgentStarts, Happens
    <2> QED
      BY <1>2, <2>4, <2>5, <2>6 DEF Happens, TypeOK, tables, turn, reading, history
  <1> QED
    BY <1>1, <1>2 DEF ServerStep, AgentActs, AgentFinishes, AgentFails
-----------------------------------------------------------------------------
(***************************************************************************)
(* The state of a stream and of the server.                                *)
(***************************************************************************)

\* An empty conversation is idle, and the agent runs only on a turn.
ServerOK ==
    \A c \in Convs :
        /\ status[c] = "running" => backlog[c] # <<>>
        /\ log[c] = <<>> => status[c] = "idle" /\ backlog[c] = <<>>

Sound == Typed /\ ServerOK

TurnStep(s) ==
    \/ \E stored \in Used \cup {NoConv} : Start(s, stored)
    \/ ProbeFinds(s) \/ ProbeMisses(s) \/ Send(s) \/ Create(s) \/ Ready(s)
    \/ SeesRunning(s) \/ SeesDone(s) \/ SeesStop(s)

\* Each step is one of a turn, an end, one of the event task, a cancellation or the server's.
LEMMA Steps ==
    ASSUME Typed, Next
    PROVE  \/ \E s \in Streams : TurnStep(s)
           \/ \E s \in Streams, o \in {"error", "empty"} \cup Streams :
                  (SeesError(s) \/ TimesOut(s) \/ Breaks(s) \/ Reply(s)) /\ End(s, o)
           \/ \E s \in Streams : EventStep(s)
           \/ \E c \in Convs : Cancel(c) \/ ServerStep(c)
  <1>1. ASSUME NEW s \in Streams, Reply(s)
        PROVE  \E o \in {"error", "empty"} \cup Streams : End(s, o)
    <2>1. conv[s] \in Convs
      BY <1>1 DEF Reply, Typed, StreamOK, Works
    <2>2. answer[conv[s]] = NoStream \/ answer[conv[s]] \in Streams
      BY <2>1 DEF Typed, TypeOK
    <2> QED
      BY <1>1, <2>2 DEF Reply
  <1> QED
    BY <1>1 DEF Next, StreamStep, Answered, TurnStep, EventStep, SeesError, TimesOut, Breaks

LEMMA InitSound == Init => Sound
  BY InitType DEF Init, Sound, ServerOK

\* A step of a turn, but for the message, leaves the server alone.
LEMMA TurnSound ==
    ASSUME Sound, NEW s \in Streams, TurnStep(s)
    PROVE  Sound'
  <1> USE DEF Sound, Typed
  <1>1. TypeOK'
    BY TurnType DEF TurnStep
  <1>2. ASSUME NEW stored \in Used \cup {NoConv}, Start(s, stored) PROVE Sound'
    <2>1. ServerOK'
      BY <1>2 DEF Start, ServerOK, server
    <2>2. /\ UNCHANGED <<named, events>> /\ pc[s] = "new"
          /\ pc' = [pc EXCEPT ![s] = IF stored = NoConv THEN "create" ELSE "probe"]
          /\ conv' = [conv EXCEPT ![s] = stored]
      BY <1>2 DEF Start, reading
    <2>3. /\ pc'[s] = (IF stored = NoConv THEN "create" ELSE "probe") /\ conv'[s] = stored
          /\ \A t \in Streams : t # s => pc'[t] = pc[t] /\ conv'[t] = conv[t]
      BY <2>2 DEF TypeOK
    <2>4. stored # NoConv => stored \in Convs
      BY DEF Used
    <2>5. \A t \in Streams : StreamOK(t)'
      BY <2>2, <2>3, <2>4 DEF StreamOK, Works, Waits
    <2> QED
      BY <1>1, <2>1, <2>5
  <1>3. CASE ProbeFinds(s) \/ ProbeMisses(s)
    <2>1. ServerOK'
      BY <1>3 DEF ProbeFinds, ProbeMisses, ServerOK, server
    <2>2. /\ UNCHANGED <<named, events>> /\ pc[s] = "probe" /\ pc'[s] \in {"post", "create"}
          /\ pc'[s] = "post" => conv'[s] = conv[s]
          /\ \A t \in Streams : t # s => pc'[t] = pc[t] /\ conv'[t] = conv[t]
      BY <1>3 DEF ProbeFinds, ProbeMisses, TypeOK, reading
    <2>3. \A t \in Streams : StreamOK(t)'
      BY <2>2 DEF StreamOK, Works, Waits
    <2> QED
      BY <1>1, <2>1, <2>3
  <1>4. ASSUME NEW c \in Convs, Accept(s, c)
        PROVE  /\ \A d \in Convs : d # c => log'[d] = log[d] /\ backlog'[d] = backlog[d]
               /\ log'[c] # <<>> /\ backlog'[c] # <<>>
    <2>1. /\ log' = [log EXCEPT ![c] = Append(log[c], s)]
          /\ backlog' = [backlog EXCEPT ![c] = Append(backlog[c], s)]
      BY <1>4 DEF Accept
    <2>2. /\ log[c] \in Seq(Streams) /\ backlog[c] \in Seq(Streams)
          /\ log \in [Convs -> Seq(Streams)] /\ backlog \in [Convs -> Seq(Streams)]
      BY DEF TypeOK
    <2>3. Append(log[c], s) # <<>> /\ Append(backlog[c], s) # <<>>
      BY <2>2, AppendFacts
    <2> QED
      BY <2>1, <2>2, <2>3
  <1>5. CASE Send(s)
    <2>1. conv[s] \in Convs /\ Accept(s, conv[s])
      BY <1>5 DEF Send, StreamOK
    <2>2. \A d \in Convs : d # conv[s] => status'[d] = status[d]
      BY <1>5 DEF Send, TypeOK
    <2>3. ServerOK'
      BY <1>4, <2>1, <2>2 DEF ServerOK
    <2> QED
      BY <1>1, <1>5, <2>3, SMTT(30) DEF Send, TypeOK, StreamOK, Works, Waits, tables, reading
  <1>6. CASE Create(s)
    <2>1. PICK c \in Convs : Accept(s, c) /\ conv' = [conv EXCEPT ![s] = c]
      BY <1>6 DEF Create
    <2>2. ServerOK'
      BY <1>4, <1>6, <2>1 DEF ServerOK, Create
    <2>3. ASSUME NEW t \in Streams PROVE StreamOK(t)'
      BY <1>6, <2>1, <2>3 DEF Create, TypeOK, StreamOK, Works, Waits, tables, reading
    <2> QED
      BY <1>1, <2>2, <2>3
  <1>7. CASE Ready(s)
    <2>1. ServerOK'
      BY <1>7 DEF Ready, ServerOK, server
    <2>2. /\ \A t \in Streams : t # s => pc'[t] = pc[t] /\ events'[t] = events[t]
          /\ pc[s] = "ready" /\ pc'[s] = "waiting" /\ named' = named \cup {s}
          /\ UNCHANGED conv
      BY <1>7 DEF Ready, TypeOK
    <2>3. \A t \in Streams : StreamOK(t)'
      BY <2>2 DEF StreamOK, Works, Waits
    <2> QED
      BY <1>1, <2>1, <2>3
  <1>8. CASE SeesRunning(s) \/ SeesDone(s) \/ SeesStop(s)
    <2>1. ServerOK'
      BY <1>8 DEF SeesRunning, SeesDone, SeesStop, ServerOK, server
    <2>2. /\ UNCHANGED <<named, conv, events>> /\ Waits(s) /\ pc'[s] \in {"waiting", "final"}
          /\ \A t \in Streams : t # s => pc'[t] = pc[t]
      BY <1>8 DEF SeesRunning, SeesDone, SeesStop, TypeOK, reading, Waits
    <2>3. \A t \in Streams : StreamOK(t)'
      BY <2>2 DEF StreamOK, Works, Waits
    <2> QED
      BY <1>1, <2>1, <2>3
  <1> QED
    BY <1>2, <1>3, <1>5, <1>6, <1>7, <1>8 DEF TurnStep

LEMMA ServerSound ==
    ASSUME Sound, NEW c \in Convs, ServerStep(c)
    PROVE  Sound'
  <1> USE DEF Sound, Typed
  <1>1. TypeOK'
    BY ServerType DEF ServerOK
  <1>2. \A t \in Streams : StreamOK(t)'
    BY DEF ServerStep, AgentStarts, Happens, AgentActs, AgentFinishes, AgentFails, StreamOK,
           Works, Waits, turn, reading
  <1>3. CASE AgentStarts(c)
    <2>1. ServerOK'
      BY <1>3 DEF AgentStarts, ServerOK, TypeOK
    <2> QED
      BY <1>1, <1>2, <2>1
  <1>4. CASE Happens(c) /\ (AgentActs(c) \/ AgentFinishes(c) \/ AgentFails(c))
    <2>1. Head(backlog[c]) \in Streams
      BY <1>4, TailFacts DEF Happens, ServerOK, TypeOK
    <2>2. Append(log[c], Head(backlog[c])) # <<>> /\ log[c] \in Seq(Streams)
      <3>1. log[c] \in Seq(Streams)
        BY DEF TypeOK
      <3> QED
        BY <2>1, <3>1, AppendFacts
    <2>3. /\ log'[c] # <<>> /\ \A d \in Convs : d # c => log'[d] = log[d]
      BY <1>4, <2>2 DEF Happens, TypeOK
    <2>4. \A d \in Convs : d # c => status'[d] = status[d] /\ backlog'[d] = backlog[d]
      BY <1>4 DEF AgentActs, AgentFinishes, AgentFails, TypeOK
    <2>5. status'[c] = "running" => backlog'[c] # <<>>
      BY <1>4 DEF AgentActs, AgentFinishes, AgentFails, TypeOK, ServerOK
    <2> QED
      BY <1>1, <1>2, <2>3, <2>4, <2>5 DEF ServerOK
  <1> QED
    BY <1>3, <1>4 DEF ServerStep, AgentActs, AgentFinishes, AgentFails

LEMMA NextSound == Sound /\ [Next]_vars => Sound'
  <1> SUFFICES ASSUME Sound, [Next]_vars PROVE Sound'
    OBVIOUS
  <1> USE DEF Sound, Typed
  <1>1. ASSUME NEW s \in Streams, NEW o \in {"error", "empty"} \cup Streams, End(s, o)
        PROVE  Sound'
    <2>1. TypeOK'
      BY <1>1, EndType
    <2> QED
      BY <1>1, <2>1 DEF End, TypeOK, StreamOK, Works, Waits, ServerOK, server
  <1>2. ASSUME NEW s \in Streams, EventStep(s) PROVE Sound'
    <2>1. /\ UNCHANGED <<log, status, backlog, pc, conv, named>> /\ TypeOK'
          /\ \A t \in Streams : t # s => events'[t] = events[t]
          /\ events[s] \in {"connecting", "socket", "polling"}
      BY <1>2, EventFrame, EventType
    <2> QED
      BY <2>1 DEF StreamOK, Works, Waits, ServerOK
  <1>3. ASSUME NEW c \in Convs, Cancel(c) PROVE Sound'
    BY <1>3, SMTT(30)
       DEF Cancel, TypeOK, StreamOK, Works, Waits, ServerOK, server, tables, turn, reading
  <1>4. CASE UNCHANGED vars
    BY <1>4 DEF vars, TypeOK, StreamOK, Works, Waits, ServerOK, server, tables, turn, reading,
                history
  <1> QED
    BY <1>1, <1>2, <1>3, <1>4, Steps, TurnSound, ServerSound

\* Every reachable state is well typed.
THEOREM TypeCorrect == Spec => []TypeOK
  <1>1. Spec => []Sound
    BY InitSound, NextSound, PTL DEF Spec
  <1> QED
    BY <1>1, PTL DEF Sound, Typed
-----------------------------------------------------------------------------
(***************************************************************************)
(* Who works in a conversation: turns that meet have crossed, and those    *)
(* that meet no other own the two tables.                                  *)
(***************************************************************************)

\* Turns that are in one conversation at the same time have met, whether they are queued,
\* worked on or only waited for.
Queued(c, i) ==
    /\ conv[backlog[c][i]] = c
    /\ Works(backlog[c][i]) \/ pc[backlog[c][i]] = "ended"
    /\ \A k \in 1..Len(backlog[c]) : i # k => backlog[c][i] \in crossed
    /\ \A s \in Streams : Works(s) /\ conv[s] = c /\ s # backlog[c][i] =>
          s \in crossed /\ backlog[c][i] \in crossed

MeetOK ==
    /\ \A s, t \in Streams : s # t /\ Works(s) /\ Works(t) /\ conv[s] = conv[t] => s \in crossed
    /\ \A c \in Convs : \A i \in 1..Len(backlog[c]) : Queued(c, i)

Met == Sound /\ MeetOK /\ CancelFindsStream /\ CallsAttributed

LEMMA QueueFacts ==
    ASSUME TypeOK, NEW c \in Convs
    PROVE  /\ backlog[c] \in Seq(Streams) /\ Len(backlog[c]) \in Nat
           /\ \A i \in 1..Len(backlog[c]) : backlog[c][i] \in Streams
           /\ backlog[c] # <<>> => 1 \in 1..Len(backlog[c]) /\ Head(backlog[c]) = backlog[c][1]
  <1>1. backlog[c] \in Seq(Streams)
    BY DEF TypeOK
  <1> QED
    BY <1>1

LEMMA InitMet == Init => Met
  <1> SUFFICES ASSUME Init PROVE Met
    OBVIOUS
  <1>1. Sound
    BY InitSound
  <1>2. MeetOK
    BY DEF Init, MeetOK, Works, Queued
  <1> QED
    BY <1>1, <1>2 DEF Init, Met, CancelFindsStream, CallsAttributed

\* A step that queues nothing, registers nothing and moves no stream at work.
LEMMA MetFrame ==
    ASSUME Met, Sound',
           UNCHANGED <<backlog, cancelEvents, session, named>>, crossed \subseteq crossed',
           \A t \in Streams :
              /\ Works(t)' <=> Works(t)
              /\ Waits(t)' <=> Waits(t)
              /\ pc[t] = "ended" => pc'[t] = "ended"
              /\ Works(t) \/ pc[t] = "ended" => conv'[t] = conv[t]
    PROVE  Met'
  <1> USE DEF Met, Sound, Typed
  <1>1. MeetOK'
    <2>1. ASSUME NEW c \in Convs, NEW i \in 1..Len(backlog[c]) PROVE Queued(c, i)'
      <3>1. Queued(c, i) /\ backlog[c][i] \in Streams
        BY QueueFacts DEF MeetOK
      <3> QED
        BY <3>1 DEF Queued
    <2>2. \A s, t \in Streams :
            (s # t /\ Works(s) /\ Works(t) /\ conv[s] = conv[t] => s \in crossed)'
      BY DEF MeetOK
    <2> QED
      BY <2>1, <2>2 DEF MeetOK
  <1>2. CancelFindsStream'
    <2>1. \A c \in Convs : cancelEvents[c] # NoStream => cancelEvents[c] \in Streams
      BY DEF TypeOK
    <2>2. \A t \in Streams : Waits(t) => Works(t)
      BY DEF Waits, Works
    <2> QED
      BY <2>1, <2>2 DEF CancelFindsStream, Waits
  <1>3. CallsAttributed'
    <2>1. \A t \in named : conv'[t] = conv[t]
      BY DEF StreamOK, TypeOK, Waits, Works
    <2> QED
      BY <2>1 DEF CallsAttributed
  <1> QED
    BY <1>1, <1>2, <1>3

\* A message: its turn meets those that are queued, worked on or waited for.
LEMMA AcceptMet ==
    ASSUME Met, Sound', NEW s \in Streams, NEW c \in Convs, Accept(s, c),
           pc[s] \in {"post", "create"}, pc' = [pc EXCEPT ![s] = "ready"],
           conv'[s] = c, \A t \in Streams : t # s => conv'[t] = conv[t],
           UNCHANGED <<cancelEvents, session, named>>
    PROVE  Met'
  <1> USE DEF Met, Sound, Typed
  <1>1. /\ \A t \in Streams : t # s => pc'[t] = pc[t]
        /\ pc'[s] = "ready" /\ Works(s)' /\ ~Works(s) /\ ~Waits(s) /\ ~Waits(s)'
        /\ pc[s] # "ended" /\ s \notin named
    BY ZenonT(40) DEF TypeOK, Works, Waits, StreamOK
  <1>2. \A t \in Streams : t # s => (Works(t)' <=> Works(t)) /\ (Waits(t)' <=> Waits(t))
    BY <1>1 DEF Works, Waits
  <1>3. /\ crossed \subseteq crossed'
        /\ WorkingIn(c) # {} => WorkingIn(c) \subseteq crossed' /\ s \in crossed'
    BY DEF Accept
  <1>4. \A t \in Streams : Works(t) /\ conv[t] = c => t \in WorkingIn(c)
    BY DEF Works, WorkingIn
  <1>5. \A i \in 1..Len(backlog[c]) : backlog[c][i] \in WorkingIn(c)
    BY QueueFacts DEF WorkingIn, RangeOf
  <1>6. /\ \A d \in Convs : d # c => backlog'[d] = backlog[d]
        /\ backlog'[c] \in Seq(Streams) /\ Len(backlog'[c]) = Len(backlog[c]) + 1
        /\ \A i \in 1..Len(backlog[c]) : backlog'[c][i] = backlog[c][i]
        /\ backlog'[c][Len(backlog[c]) + 1] = s
    <2>1. backlog' = [backlog EXCEPT ![c] = Append(backlog[c], s)]
      BY DEF Accept
    <2>2. backlog'[c] = Append(backlog[c], s) /\ \A d \in Convs : d # c => backlog'[d] = backlog[d]
      BY <2>1 DEF TypeOK
    <2> QED
      BY <2>2, QueueFacts, AppendFacts
  <1>7. \A d \in Convs : \A i \in 1..Len(backlog[d]) :
            backlog[d][i] # s /\ backlog[d][i] \in Streams /\ Queued(d, i)
    BY <1>1, QueueFacts DEF MeetOK, Queued
  <1>8. ASSUME NEW d \in Convs, NEW i \in 1..Len(backlog'[d]) PROVE Queued(d, i)'
    <2>1. CASE d # c
      <3>1. backlog'[d] = backlog[d] /\ i \in 1..Len(backlog[d])
        BY <1>6, <2>1
      <3> QED
        BY <1>1, <1>2, <1>3, <1>7, <2>1, <3>1 DEF Queued
    <2>2. CASE d = c /\ i \in 1..Len(backlog[c])
      <3>1. /\ backlog'[c][i] = backlog[c][i] /\ backlog[c][i] \in WorkingIn(c)
            /\ backlog[c][i] \in crossed' /\ s \in crossed'
        BY <1>3, <1>5, <1>6, <2>2
      <3>2. \A t \in Streams : Works(t)' /\ conv'[t] = c => t \in crossed'
        BY <1>1, <1>2, <1>3, <1>4, <3>1
      <3> QED
        BY <1>1, <1>2, <1>7, <2>2, <3>1, <3>2 DEF Queued
    <2>3. CASE d = c /\ i = Len(backlog[c]) + 1
      <3>1. backlog'[c][i] = s
        BY <1>6, <2>3
      <3>2. \A k \in 1..Len(backlog'[c]) : i # k => s \in crossed'
        <4> SUFFICES ASSUME NEW k \in 1..Len(backlog'[c]), i # k PROVE s \in crossed'
          OBVIOUS
        <4>1. k \in 1..Len(backlog[c])
          BY <1>6, <2>3, QueueFacts
        <4> QED
          BY <1>3, <1>5, <4>1
      <3>3. \A t \in Streams : Works(t)' /\ conv'[t] = c /\ t # s =>
              t \in crossed' /\ s \in crossed'
        BY <1>2, <1>3, <1>4
      <3> QED
        BY <1>1, <2>3, <3>1, <3>2, <3>3 DEF Queued
    <2>4. d = c => i \in 1..Len(backlog[c]) \/ i = Len(backlog[c]) + 1
      BY <1>6, QueueFacts
    <2> QED
      BY <2>1, <2>2, <2>3, <2>4
  <1>9. \A t, u \in Streams :
            (t # u /\ Works(t) /\ Works(u) /\ conv[t] = conv[u] => t \in crossed)'
    BY <1>2, <1>3, <1>4 DEF MeetOK
  <1>10. CancelFindsStream'
    <2>1. \A d \in Convs : cancelEvents[d] # NoStream => cancelEvents[d] # s
      BY <1>1 DEF CancelFindsStream, Waits
    <2>2. \A d \in Convs : cancelEvents[d] # NoStream => cancelEvents[d] \in Streams
      BY DEF TypeOK
    <2> QED
      BY <1>1, <1>2, <1>3, <2>1, <2>2 DEF CancelFindsStream, Waits
  <1>11. CallsAttributed'
    <2>1. \A t \in named : conv'[t] = conv[t]
      BY <1>1 DEF TypeOK
    <2>2. ASSUME NEW d \in Convs, backlog'[d] # <<>>, Head(backlog'[d]) \in named \ crossed'
          PROVE  session[d] = Head(backlog'[d])
      <3>1. CASE backlog[d] # <<>>
        <4>1. backlog'[d][1] = backlog[d][1] /\ Head(backlog[d]) = backlog[d][1]
          BY <1>6, <3>1, QueueFacts
        <4>2. Head(backlog'[d]) = backlog'[d][1]
          BY <1>6, <2>2, QueueFacts
        <4> QED
          BY <1>3, <2>2, <3>1, <4>1, <4>2 DEF CallsAttributed
      <3>2. CASE backlog[d] = <<>>
        <4>1. d = c /\ Len(backlog[c]) = 0
          BY <1>6, <2>2, <3>2
        <4>2. Head(backlog'[c]) = s
          BY <1>6, <2>2, <4>1
        <4> QED
          BY <1>1, <2>2, <4>1, <4>2
      <3> QED
        BY <3>1, <3>2
    <2> QED
      BY <2>1, <2>2 DEF CallsAttributed
  <1> QED
    BY <1>8, <1>9, <1>10, <1>11 DEF MeetOK

\* The answer to the message: the stream takes over the two tables, and a stream it takes
\* them from has met it.
LEMMA ReadyMet ==
    ASSUME Met, Sound', NEW s \in Streams, Ready(s)
    PROVE  Met'
  <1> USE DEF Met, Sound, Typed
  <1>1. /\ UNCHANGED <<conv, backlog, crossed>> /\ conv[s] \in Convs
        /\ pc[s] = "ready" /\ pc'[s] = "waiting" /\ named' = named \cup {s}
        /\ \A t \in Streams : t # s => pc'[t] = pc[t]
    BY DEF Ready, TypeOK, StreamOK, Works, server, history
  <1>2. /\ session'[conv[s]] = s /\ cancelEvents'[conv[s]] = s
        /\ \A c \in Convs : c # conv[s] =>
              session'[c] = session[c] /\ cancelEvents'[c] = cancelEvents[c]
    BY <1>1 DEF Ready, TypeOK
  <1>3. Works(s) /\ \A t \in Streams : Works(t)' <=> Works(t)
    BY <1>1 DEF Works
  <1>4. MeetOK'
    <2>1. ASSUME NEW c \in Convs, NEW i \in 1..Len(backlog[c]) PROVE Queued(c, i)'
      <3>1. Queued(c, i) /\ backlog[c][i] \in Streams
        BY QueueFacts DEF MeetOK
      <3> QED
        BY <1>1, <1>3, <3>1 DEF Queued
    <2> QED
      BY <1>1, <1>3, <2>1 DEF MeetOK
  <1>5. CancelFindsStream'
    <2>1. ASSUME NEW c \in Convs, cancelEvents'[c] # NoStream
          PROVE  conv[cancelEvents'[c]] = c /\ pc'[cancelEvents'[c]] \in {"waiting", "final"}
      <3>1. CASE c = conv[s]
        BY <1>1, <1>2, <3>1 DEF Waits
      <3>2. CASE c # conv[s]
        <4>1. cancelEvents[c] \in Streams /\ cancelEvents[c] # s
          BY <1>1, <1>2, <2>1, <3>2 DEF TypeOK, CancelFindsStream
        <4> QED
          BY <1>1, <1>2, <2>1, <3>2, <4>1 DEF CancelFindsStream, Waits
      <3> QED
        BY <3>1, <3>2
    <2>2. ASSUME NEW t \in Streams \ crossed, Waits(t)' PROVE cancelEvents'[conv[t]] = t
      <3>1. CASE t = s
        BY <1>2, <3>1
      <3>2. CASE t # s
        <4>1. Waits(t) /\ Works(t)
          BY <1>1, <2>2, <3>2 DEF Waits, Works
        <4>2. conv[t] # conv[s] /\ conv[t] \in Convs
          BY <1>3, <3>2, <4>1 DEF MeetOK, StreamOK
        <4> QED
          BY <1>2, <4>1, <4>2 DEF CancelFindsStream, Waits
      <3> QED
        BY <3>1, <3>2
    <2> QED
      BY <1>1, <2>1, <2>2 DEF CancelFindsStream, Waits
  <1>6. CallsAttributed'
    <2>1. \A c \in Convs : session'[c] # NoStream =>
              session'[c] \in named' /\ conv[session'[c]] = c
      BY <1>1, <1>2 DEF CallsAttributed
    <2>2. ASSUME NEW c \in Convs, backlog[c] # <<>>, Head(backlog[c]) \in named' \ crossed
          PROVE  session'[c] = Head(backlog[c])
      <3>1. Queued(c, 1) /\ Head(backlog[c]) = backlog[c][1]
        BY <2>2, QueueFacts DEF MeetOK
      <3>2. CASE c = conv[s]
        BY <1>2, <1>3, <2>2, <3>1, <3>2 DEF Queued
      <3>3. CASE c # conv[s]
        <4>1. Head(backlog[c]) # s
          BY <3>1, <3>3 DEF Queued
        <4> QED
          BY <1>1, <1>2, <2>2, <3>3, <4>1 DEF CallsAttributed
      <3> QED
        BY <3>2, <3>3
    <2> QED
      BY <1>1, <2>1, <2>2 DEF CallsAttributed
  <1> QED
    BY <1>4, <1>5, <1>6

\* An end removes what the conversation has, which is of no stream that met no other.
LEMMA EndMet ==
    ASSUME Met, Sound', NEW s \in Streams, NEW o, pc[s] \in Awaits, End(s, o)
    PROVE  Met'
  <1> USE DEF Met, Sound, Typed
  <1>1. /\ UNCHANGED <<conv, backlog, crossed, session, named>> /\ pc'[s] = "ended"
        /\ \A t \in Streams : t # s => pc'[t] = pc[t]
    BY DEF End, TypeOK, server
  <1>2. /\ \A t \in Streams : t # s => (Works(t)' <=> Works(t)) /\ (Waits(t)' <=> Waits(t))
        /\ ~Works(s)' /\ ~Waits(s)'
    BY <1>1 DEF Works, Waits
  <1>3. MeetOK'
    <2>1. ASSUME NEW c \in Convs, NEW i \in 1..Len(backlog[c]) PROVE Queued(c, i)'
      <3>1. Queued(c, i) /\ backlog[c][i] \in Streams
        BY QueueFacts DEF MeetOK
      <3> QED
        BY <1>1, <1>2, <3>1 DEF Queued
    <2> QED
      BY <1>1, <1>2, <2>1 DEF MeetOK
  <1>4. CASE s \notin named
    <2>1. UNCHANGED cancelEvents /\ ~Waits(s)
      BY <1>4 DEF End, Unregister, StreamOK
    <2>2. \A c \in Convs : cancelEvents[c] # NoStream =>
              cancelEvents[c] # s /\ cancelEvents[c] \in Streams
      BY <2>1 DEF CancelFindsStream, Waits, TypeOK
    <2>3. CancelFindsStream'
      BY <1>1, <1>2, <2>1, <2>2 DEF CancelFindsStream, Waits
    <2> QED
      BY <1>1, <1>3, <2>3 DEF CallsAttributed
  <1>5. CASE s \in named
    <2>1. Waits(s) /\ Works(s) /\ conv[s] \in Convs
      BY <1>5 DEF StreamOK, Waits, Works, Awaits
    <2>2. /\ cancelEvents'[conv[s]] = NoStream
          /\ \A c \in Convs : c # conv[s] => cancelEvents'[c] = cancelEvents[c]
      BY <1>5, <2>1 DEF End, Unregister, TypeOK
    <2>3. ASSUME NEW c \in Convs, cancelEvents'[c] # NoStream
          PROVE  conv[cancelEvents'[c]] = c /\ pc'[cancelEvents'[c]] \in {"waiting", "final"}
      <3>1. c # conv[s] /\ cancelEvents'[c] = cancelEvents[c]
        BY <2>2, <2>3
      <3>2. /\ conv[cancelEvents[c]] = c /\ Waits(cancelEvents[c])
            /\ cancelEvents[c] \in Streams
        BY <2>3, <3>1 DEF CancelFindsStream, Waits, TypeOK
      <3> QED
        BY <1>1, <1>2, <3>1, <3>2 DEF Waits
    <2>4. ASSUME NEW t \in Streams \ crossed, Waits(t)' PROVE cancelEvents'[conv[t]] = t
      <3>1. t # s /\ Waits(t) /\ Works(t)
        BY <1>2, <2>4 DEF Waits, Works
      <3>2. conv[t] # conv[s] /\ conv[t] \in Convs
        BY <2>1, <3>1 DEF MeetOK, StreamOK
      <3> QED
        BY <2>2, <3>1, <3>2 DEF CancelFindsStream, Waits
    <2>5. CancelFindsStream'
      BY <1>1, <2>3, <2>4 DEF CancelFindsStream, Waits
    <2> QED
      BY <1>1, <1>3, <2>5 DEF CallsAttributed
  <1> QED
    BY <1>4, <1>5

\* The agent is done with a turn: the next one in the queue, if there is one, had met it.
LEMMA DoneMet ==
    ASSUME Met, Sound', NEW c \in Convs, AgentFinishes(c) \/ AgentFails(c)
    PROVE  Met'
  <1> USE DEF Met, Sound, Typed
  <1>1. /\ UNCHANGED <<pc, conv, named, crossed, session, cancelEvents>>
        /\ backlog' = [backlog EXCEPT ![c] = Tail(backlog[c])] /\ backlog[c] # <<>>
    BY DEF AgentFinishes, AgentFails, Happens, tables, turn, history, ServerOK
  <1>2. /\ \A d \in Convs : d # c => backlog'[d] = backlog[d]
        /\ Len(backlog[c]) \in Nat /\ backlog'[c] \in Seq(Streams)
        /\ Len(backlog'[c]) = Len(backlog[c]) - 1
        /\ \A i \in 1..Len(backlog'[c]) :
              backlog'[c][i] = backlog[c][i + 1] /\ i + 1 \in 1..Len(backlog[c])
    BY <1>1, QueueFacts, TailFacts DEF TypeOK
  <1>3. ASSUME NEW d \in Convs, NEW i \in 1..Len(backlog'[d]) PROVE Queued(d, i)'
    <2>1. CASE d # c
      BY <1>1, <1>2, <2>1 DEF MeetOK, Queued, Works
    <2>2. CASE d = c
      <3>1. Queued(c, i + 1) /\ backlog'[c][i] = backlog[c][i + 1]
        BY <1>2, <2>2 DEF MeetOK
      <3>2. \A k \in 1..Len(backlog'[c]) : k # i => k + 1 \in 1..Len(backlog[c]) /\ k + 1 # i + 1
        BY <1>2, <2>2
      <3> QED
        BY <1>1, <2>2, <3>1, <3>2 DEF Queued, Works
    <2> QED
      BY <2>1, <2>2
  <1>4. MeetOK'
    BY <1>1, <1>3 DEF MeetOK, Works
  <1>5. CallsAttributed'
    <2>1. ASSUME NEW d \in Convs, backlog'[d] # <<>>, Head(backlog'[d]) \in named \ crossed
          PROVE  session[d] = Head(backlog'[d])
      <3>1. CASE d # c
        BY <1>1, <1>2, <2>1, <3>1 DEF CallsAttributed
      <3>2. CASE d = c
        <4>1. /\ 1 \in 1..Len(backlog'[c]) /\ Head(backlog'[c]) = backlog'[c][1]
              /\ 1 \in 1..Len(backlog[c]) /\ 2 \in 1..Len(backlog[c])
          BY <1>2, <2>1, <3>2
        <4>2. backlog[c][2] \in crossed
          BY <4>1 DEF MeetOK, Queued
        <4> QED
          BY <1>2, <2>1, <3>2, <4>1, <4>2
      <3> QED
        BY <3>1, <3>2
    <2> QED
      BY <1>1, <2>1 DEF CallsAttributed
  <1> QED
    BY <1>1, <1>4, <1>5 DEF CancelFindsStream

LEMMA NextMet == Met /\ [Next]_vars => Met'
  <1> SUFFICES ASSUME Met, [Next]_vars PROVE Met'
    OBVIOUS
  <1>0. Sound'
    BY NextSound DEF Met
  <1>1. ASSUME NEW s \in Streams, TurnStep(s) PROVE Met'
    <2> USE DEF Met, Sound, Typed
    <2>1. CASE (\E stored \in Used \cup {NoConv} : Start(s, stored))
                  \/ ProbeFinds(s) \/ ProbeMisses(s)
      <3>1. /\ UNCHANGED <<backlog, cancelEvents, session, named, crossed>>
            /\ pc[s] \in {"new", "probe"} /\ pc'[s] \in {"create", "probe", "post"}
            /\ \A t \in Streams : t # s => pc'[t] = pc[t] /\ conv'[t] = conv[t]
        BY <2>1 DEF Start, ProbeFinds, ProbeMisses, TypeOK, server, tables, history
      <3> QED
        BY <1>0, <3>1, MetFrame DEF Works, Waits
    <2>2. CASE Send(s)
      BY <1>0, <2>2, AcceptMet DEF Send, StreamOK, tables
    <2>3. CASE Create(s)
      <3>1. PICK c \in Convs : Accept(s, c) /\ conv' = [conv EXCEPT ![s] = c]
        BY <2>3 DEF Create
      <3>2. conv'[s] = c /\ \A t \in Streams : t # s => conv'[t] = conv[t]
        BY <3>1 DEF TypeOK
      <3> QED
        BY <1>0, <2>3, <3>1, <3>2, AcceptMet DEF Create, tables
    <2>4. CASE Ready(s)
      BY <1>0, <2>4, ReadyMet
    <2>5. CASE SeesRunning(s) \/ SeesDone(s) \/ SeesStop(s)
      <3>1. /\ UNCHANGED <<backlog, cancelEvents, session, named, crossed, conv>>
            /\ pc[s] = "waiting" /\ pc'[s] \in {"waiting", "final"}
            /\ \A t \in Streams : t # s => pc'[t] = pc[t]
        BY <2>5 DEF SeesRunning, SeesDone, SeesStop, TypeOK, server, tables, history
      <3> QED
        BY <1>0, <3>1, MetFrame DEF Works, Waits
    <2> QED
      BY <1>1, <2>1, <2>2, <2>3, <2>4, <2>5 DEF TurnStep
  <1>2. ASSUME NEW s \in Streams, NEW o \in {"error", "empty"} \cup Streams,
               SeesError(s) \/ TimesOut(s) \/ Breaks(s) \/ Reply(s), End(s, o)
        PROVE  Met'
    <2>1. pc[s] \in Awaits
      BY <1>2 DEF SeesError, TimesOut, Breaks, Reply, Awaits
    <2> QED
      BY <1>0, <1>2, <2>1, EndMet
  <1>3. ASSUME NEW s \in Streams, EventStep(s) PROVE Met'
    BY <1>0, <1>3, EventFrame, MetFrame DEF Works, Waits
  <1>4. ASSUME NEW c \in Convs, Cancel(c) PROVE Met'
    BY <1>0, <1>4, MetFrame DEF Cancel, Works, Waits, server, tables, turn
  <1>5. ASSUME NEW c \in Convs, AgentStarts(c) \/ AgentActs(c) PROVE Met'
    BY <1>0, <1>5, MetFrame
       DEF AgentStarts, AgentActs, Happens, Works, Waits, tables, turn, history
  <1>6. CASE UNCHANGED vars
    BY <1>0, <1>6, MetFrame DEF vars, Works, Waits, server, tables, turn, history
  <1> QED
    BY <1>0, <1>1, <1>2, <1>3, <1>4, <1>5, <1>6, Steps, DoneMet DEF ServerStep, Met, Sound

\* What a cancellation reaches, if anything, is a stream at work in the conversation; and
\* each stream whose turn meets no other is reached, from the answer to its message until
\* its end (cancel_conversation(), _unregister_cancel()).
THEOREM CancelReachesStream == Spec => []CancelFindsStream
  <1>1. Spec => []Met
    BY InitMet, NextMet, PTL DEF Spec
  <1> QED
    BY <1>1, PTL DEF Met

\* The hook never finds the run of a stream of another conversation; it finds the run of the
\* turn at work if that has met no other turn and its stream has registered the session.
THEOREM CallsAreAttributed == Spec => []CallsAttributed
  <1>1. Spec => []Met
    BY InitMet, NextMet, PTL DEF Spec
  <1> QED
    BY <1>1, PTL DEF Met

\* Whatever streams start, end or overlap, the tables they share never lead to another
\* conversation, nor a cancellation to an ended stream; and they lead to a stream whose turn
\* meets no other from its registration on.  Of streams that meet no more is claimed.
THEOREM TablesAreRight == Spec => []TablesNameStreams
  <1>1. Met => TablesNameStreams
    BY DEF Met, TablesNameStreams
  <1> QED
    BY <1>1, InitMet, NextMet, PTL DEF Spec
-----------------------------------------------------------------------------
(***************************************************************************)
(* The reply.                                                              *)
(***************************************************************************)

\* Before the answer to its message nothing can have stopped a stream.
Fresh(s) ==
    pc[s] \in {"new", "probe", "post", "create", "ready"} => ~observed[s] /\ ~stop[s]

\* A turn that met no other and was not misled: while it is queued, a final status is an old
\* one that TurnDone() does not believe; when it is not, the status and the answer are its
\* own, and stay so until the reply is fetched.
OwnTurn(s) ==
    /\ pc[s] \in {"ready", "waiting"} =>
          IF backlog[conv[s]] = <<>>
          THEN status[conv[s]] = "error" \/ (status[conv[s]] = "finished" /\ answer[conv[s]] = s)
          ELSE status[conv[s]] \in Terminal =>
                  ~observed[s] /\ baseline[s] # 0 /\ leaf[conv[s]] = baseline[s]
    /\ pc[s] = "final" => backlog[conv[s]] = <<>> /\ answer[conv[s]] = s
    /\ pc[s] = "waiting" => ~stop[s]

ReplyOK ==
    /\ \A s \in Streams : Fresh(s)
    /\ \A s \in Streams \ (crossed \cup misled) : OwnTurn(s)
    /\ ReplyIsOwn

Own == Met /\ ReplyOK

LEMMA InitOwn == Init => Own
  <1>1. Init => ReplyOK
    BY DEF Init, ReplyOK, Fresh, OwnTurn, ReplyIsOwn
  <1> QED
    BY <1>1, InitMet DEF Own

\* A step that changes nothing of the server and, of a stream at work, nothing it goes by.
LEMMA OwnFrame ==
    ASSUME Own, UNCHANGED <<server, result>>,
           crossed \subseteq crossed', misled \subseteq misled',
           \A t \in Streams :
              /\ Fresh(t)'
              /\ t \notin misled' =>
                    /\ pc'[t] \in {"ready", "waiting", "final"} =>
                          /\ pc'[t] = pc[t] \/ (pc[t] = "ready" /\ pc'[t] = "waiting" /\ ~stop'[t])
                          /\ conv'[t] = conv[t] /\ baseline'[t] = baseline[t]
                          /\ observed'[t] = observed[t] \/ status[conv[t]] = "running"
                    /\ pc'[t] = "waiting" => stop'[t] = stop[t]
    PROVE  ReplyOK'
  <1>1. ReplyIsOwn'
    BY DEF Own, ReplyOK, ReplyIsOwn
  <1>2. ASSUME NEW t \in Streams \ (crossed' \cup misled') PROVE OwnTurn(t)'
    <2>1. OwnTurn(t) /\ UNCHANGED <<status, backlog, answer, leaf>>
      BY DEF Own, ReplyOK, server
    <2> QED
      BY <2>1 DEF OwnTurn, Terminal
  <1> QED
    BY <1>1, <1>2 DEF ReplyOK

\* A message meets every turn that is at work in the conversation; its own turn is queued.
LEMMA AcceptOwn ==
    ASSUME Own, NEW s \in Streams, NEW c \in Convs, Accept(s, c),
           pc[s] \in {"post", "create"}, pc' = [pc EXCEPT ![s] = "ready"],
           conv'[s] = c, \A t \in Streams : t # s => conv'[t] = conv[t],
           UNCHANGED <<answer, baseline, observed, stop, result>>, misled \subseteq misled',
           \A d \in Convs : d # c => status'[d] = status[d] /\ leaf'[d] = leaf[d],
           s \notin misled' /\ status'[c] \in Terminal =>
              baseline[s] # 0 /\ leaf'[c] = baseline[s]
    PROVE  ReplyOK'
  <1> USE DEF Own, Met, Sound, Typed
  <1>1. /\ \A t \in Streams : t # s => pc'[t] = pc[t]
        /\ pc'[s] = "ready" /\ ~observed[s] /\ ~stop[s]
    BY DEF TypeOK, ReplyOK, Fresh
  <1>2. /\ crossed \subseteq crossed'
        /\ WorkingIn(c) # {} => WorkingIn(c) \subseteq crossed'
    BY DEF Accept
  <1>3. /\ \A d \in Convs : d # c => backlog'[d] = backlog[d]
        /\ backlog'[c] # <<>>
    <2>1. backlog' = [backlog EXCEPT ![c] = Append(backlog[c], s)]
      BY DEF Accept
    <2>2. Append(backlog[c], s) # <<>>
      BY QueueFacts, AppendFacts
    <2> QED
      BY <2>1, <2>2 DEF TypeOK
  <1>4. ASSUME NEW t \in Streams \ (crossed' \cup misled') PROVE OwnTurn(t)'
    <2>1. CASE t = s
      BY <1>1, <1>3, <2>1 DEF OwnTurn
    <2>2. CASE t # s /\ ~Works(t)
      BY <1>1, <2>2 DEF OwnTurn, Works
    <2>3. CASE t # s /\ Works(t)
      <3>1. OwnTurn(t) /\ conv[t] \in Convs
        BY <1>2, <2>3 DEF ReplyOK, StreamOK
      <3>2. conv[t] # c
        BY <1>2, <2>3 DEF WorkingIn, Works
      <3> QED
        BY <1>1, <1>3, <2>3, <3>1, <3>2 DEF OwnTurn
    <2> QED
      BY <2>1, <2>2, <2>3
  <1>5. \A t \in Streams : Fresh(t)'
    BY <1>1 DEF ReplyOK, Fresh
  <1>6. ReplyIsOwn'
    BY <1>2 DEF ReplyOK, ReplyIsOwn
  <1> QED
    BY <1>4, <1>5, <1>6 DEF ReplyOK

\* The end of a turn that met no other empties the queue: the status and the answer are its.
LEMMA DoneOwn ==
    ASSUME Own, NEW c \in Convs, AgentFinishes(c) \/ AgentFails(c)
    PROVE  ReplyOK'
  <1> USE DEF Own, Met, Sound, Typed
  <1>1. /\ UNCHANGED <<pc, conv, baseline, observed, stop, crossed, misled, result>>
        /\ backlog' = [backlog EXCEPT ![c] = Tail(backlog[c])] /\ backlog[c] # <<>>
        /\ \A d \in Convs : d # c => status'[d] = status[d] /\ answer'[d] = answer[d]
                                    /\ leaf'[d] = leaf[d]
        /\ \/ status'[c] = "error"
           \/ status'[c] = "finished" /\ answer'[c] = Head(backlog[c])
    BY DEF AgentFinishes, AgentFails, Happens, tables, turn, history, ServerOK, TypeOK
  <1>2. ASSUME NEW t \in Streams \ (crossed \cup misled) PROVE OwnTurn(t)'
    <2>1. OwnTurn(t)
      BY DEF ReplyOK
    <2>2. CASE conv[t] # c \/ ~Works(t)
      <3>1. Works(t) => conv[t] \in Convs
        BY DEF StreamOK
      <3>2. Works(t) => backlog'[conv[t]] = backlog[conv[t]]
        BY <1>1, <2>2, <3>1 DEF TypeOK
      <3> QED
        BY <1>1, <2>1, <2>2, <3>1, <3>2 DEF OwnTurn, Works
    <2>3. CASE conv[t] = c /\ Works(t)
      <3>1. \A i \in 1..Len(backlog[c]) : backlog[c][i] = t
        BY <2>3 DEF MeetOK, Queued
      <3>2. \A i, k \in 1..Len(backlog[c]) : i = k
        BY <3>1 DEF MeetOK, Queued
      <3>3. 1 \in 1..Len(backlog[c]) /\ Head(backlog[c]) = backlog[c][1] /\ Len(backlog[c]) \in Nat
        BY <1>1, QueueFacts
      <3>4. Len(backlog[c]) = 1
        <4>1. Len(backlog[c]) \in 1..Len(backlog[c])
          BY <3>3
        <4> QED
          BY <3>2, <3>3, <4>1
      <3>5. backlog'[c] = <<>>
        <4>1. backlog'[c] = Tail(backlog[c])
          BY <1>1 DEF TypeOK
        <4>2. Tail(backlog[c]) \in Seq(Streams) /\ Len(Tail(backlog[c])) = 0
          BY <1>1, <3>4, QueueFacts, TailFacts
        <4> QED
          BY <4>1, <4>2, EmptyFacts
      <3>6. Head(backlog[c]) = t
        BY <3>1, <3>3
      <3>7. pc[t] # "final"
        BY <1>1, <2>1, <2>3 DEF OwnTurn
      <3> QED
        BY <1>1, <2>1, <2>3, <3>5, <3>6, <3>7 DEF OwnTurn
    <2> QED
      BY <2>2, <2>3
  <1> QED
    BY <1>1, <1>2 DEF ReplyOK, Fresh, ReplyIsOwn

LEMMA EndOwn ==
    ASSUME Own, NEW s \in Streams, NEW o, End(s, o),
           \/ o = "error"
           \/ Reply(s)
    PROVE  ReplyOK'
  <1> USE DEF Own, Met, Sound, Typed
  <1>1. /\ UNCHANGED <<server, conv, crossed>> /\ pc'[s] = "ended" /\ result'[s] = o
        /\ \A t \in Streams : t # s =>
              /\ pc'[t] = pc[t] /\ result'[t] = result[t] /\ stop'[t] = stop[t]
              /\ baseline'[t] = baseline[t] /\ observed'[t] = observed[t]
              /\ (t \in misled' <=> t \in misled)
        /\ o = "error" \/ (s \in misled' <=> s \in misled)
    BY DEF End, TypeOK
  <1>2. ASSUME NEW t \in Streams \ (crossed \cup misled') PROVE OwnTurn(t)'
    BY <1>1 DEF ReplyOK, OwnTurn, server
  <1>3. \A t \in Streams : Fresh(t)'
    BY <1>1 DEF ReplyOK, Fresh
  <1>4. s \notin crossed \cup misled' => o \in {"error", s}
    <2>1. CASE o = "error"
      BY <2>1
    <2>2. CASE o # "error" /\ s \notin crossed \cup misled
      <3>1. pc[s] = "final" /\ answer[conv[s]] = s
        BY <2>2 DEF Reply, ReplyOK, OwnTurn
      <3>2. s # NoStream
        BY ConstantsAssumption
      <3>3. result'[s] = s
        BY <2>2, <3>1, <3>2 DEF Reply, End, TypeOK
      <3> QED
        BY <1>1, <3>3
    <2> QED
      BY <1>1, <2>1, <2>2
  <1>5. ReplyIsOwn'
    BY <1>1, <1>4 DEF ReplyOK, ReplyIsOwn
  <1> QED
    BY <1>1, <1>2, <1>3, <1>5 DEF ReplyOK

LEMMA NextOwn == Own /\ [Next]_vars => Own'
  <1> SUFFICES ASSUME Own, [Next]_vars PROVE ReplyOK'
    BY NextMet DEF Own
  <1> USE DEF Own, Met, Sound, Typed
  <1>1. ASSUME NEW s \in Streams, TurnStep(s) PROVE ReplyOK'
    <2>1. CASE (\E stored \in Used \cup {NoConv} : Start(s, stored))
                  \/ ProbeFinds(s) \/ ProbeMisses(s)
      <3>1. /\ UNCHANGED <<server, result, crossed, misled, observed, stop>>
            /\ pc[s] \in {"new", "probe"} /\ pc'[s] \in {"create", "probe", "post"}
            /\ \A t \in Streams : t # s =>
                  pc'[t] = pc[t] /\ conv'[t] = conv[t] /\ baseline'[t] = baseline[t]
        BY <2>1 DEF Start, ProbeFinds, ProbeMisses, TypeOK, history
      <3>2. \A t \in Streams : Fresh(t)'
        BY <3>1 DEF ReplyOK, Fresh
      <3> QED
        BY <3>1, <3>2, OwnFrame
    <2>2. CASE Send(s)
      <3>1. conv[s] \in Convs
        BY <2>2 DEF Send, StreamOK
      <3>2. /\ \A d \in Convs : d # conv[s] => status'[d] = status[d] /\ leaf'[d] = leaf[d]
            /\ misled \subseteq misled'
            /\ s \notin misled' /\ status'[conv[s]] \in Terminal =>
                 baseline[s] # 0 /\ leaf'[conv[s]] = baseline[s]
        BY <2>2, <3>1 DEF Send, TypeOK
      <3>3. /\ Accept(s, conv[s]) /\ pc[s] = "post" /\ pc' = [pc EXCEPT ![s] = "ready"]
            /\ UNCHANGED <<answer, baseline, observed, stop, result, conv>>
        BY <2>2 DEF Send
      <3> QED
        BY <3>1, <3>2, <3>3, AcceptOwn
    <2>3. CASE Create(s)
      <3>1. PICK c \in Convs :
              /\ Accept(s, c) /\ conv' = [conv EXCEPT ![s] = c] /\ log[c] = <<>>
              /\ leaf' = [leaf EXCEPT ![c] = 1] \/ leaf' = leaf
        BY <2>3 DEF Create
      <3>2. /\ conv'[s] = c /\ \A t \in Streams : t # s => conv'[t] = conv[t]
            /\ \A d \in Convs : d # c => leaf'[d] = leaf[d]
            /\ status[c] = "idle"
        BY <3>1 DEF TypeOK, ServerOK
      <3>3. /\ UNCHANGED <<status, answer, baseline, observed, stop, result, misled>>
            /\ pc[s] = "create" /\ pc' = [pc EXCEPT ![s] = "ready"]
        BY <2>3 DEF Create
      <3> QED
        BY <3>1, <3>2, <3>3, AcceptOwn DEF Terminal
    <2>4. CASE Ready(s)
      <3>1. /\ UNCHANGED <<server, result, crossed, misled, observed, stop, conv, baseline>>
            /\ pc[s] = "ready" /\ pc'[s] = "waiting"
            /\ \A t \in Streams : t # s => pc'[t] = pc[t]
        BY <2>4 DEF Ready, TypeOK, history
      <3>2. ~stop[s] /\ \A t \in Streams : Fresh(t)'
        BY <3>1 DEF ReplyOK, Fresh
      <3> QED
        BY <3>1, <3>2, OwnFrame
    <2>5. CASE SeesRunning(s)
      <3>1. /\ UNCHANGED <<server, result, crossed, misled, stop, conv, baseline, pc>>
            /\ pc[s] = "waiting" /\ status[conv[s]] = "running"
            /\ \A t \in Streams : t # s => observed'[t] = observed[t]
        BY <2>5 DEF SeesRunning, TypeOK, history
      <3>2. \A t \in Streams : Fresh(t)'
        BY <3>1 DEF ReplyOK, Fresh
      <3> QED
        BY <3>1, <3>2, OwnFrame
    <2>6. CASE SeesDone(s) \/ SeesStop(s)
      <3>1. /\ UNCHANGED <<server, result, crossed, misled, observed, conv, baseline>>
            /\ pc[s] = "waiting" /\ pc'[s] = "final"
            /\ \A t \in Streams : t # s => pc'[t] = pc[t] /\ stop'[t] = stop[t]
            /\ stop[s] \/ (status[conv[s]] = "finished" /\ TurnDone(s, observed[s]))
        BY <2>6 DEF SeesDone, SeesStop, TypeOK, history
      <3>2. \A t \in Streams : Fresh(t)'
        BY <3>1 DEF ReplyOK, Fresh
      <3>3. s \notin crossed \cup misled => backlog[conv[s]] = <<>> /\ answer[conv[s]] = s
        BY <3>1 DEF ReplyOK, OwnTurn, TurnDone, Terminal
      <3>4. ASSUME NEW t \in Streams \ (crossed' \cup misled') PROVE OwnTurn(t)'
        BY <3>1, <3>3 DEF ReplyOK, OwnTurn, server
      <3> QED
        BY <3>1, <3>2, <3>4 DEF ReplyOK, ReplyIsOwn
    <2> QED
      BY <1>1, <2>1, <2>2, <2>3, <2>4, <2>5, <2>6 DEF TurnStep
  <1>2. ASSUME NEW s \in Streams, NEW o \in {"error", "empty"} \cup Streams,
               SeesError(s) \/ TimesOut(s) \/ Breaks(s) \/ Reply(s), End(s, o)
        PROVE  ReplyOK'
    <2>1. CASE Reply(s)
      BY <1>2, <2>1, EndOwn
    <2>2. CASE SeesError(s) \/ TimesOut(s) \/ Breaks(s)
      BY <2>2, EndOwn DEF SeesError, TimesOut, Breaks
    <2> QED
      BY <1>2, <2>1, <2>2
  <1>3. ASSUME NEW s \in Streams, EventStep(s) PROVE ReplyOK'
    <2>1. UNCHANGED <<server, result, pc, conv, baseline, observed, stop, crossed, misled>>
      BY <1>3, EventFrame DEF server
    <2>2. \A t \in Streams : Fresh(t)'
      BY <2>1 DEF ReplyOK, Fresh
    <2> QED
      BY <2>1, <2>2, OwnFrame
  <1>4. ASSUME NEW c \in Convs, Cancel(c) PROVE ReplyOK'
    <2> DEFINE s == cancelEvents[c]
    <2>1. /\ UNCHANGED <<server, result, pc, conv, baseline, observed, crossed>>
          /\ s \in Streams /\ pc[s] \in {"waiting", "final"}
          /\ \A t \in Streams : t # s => stop'[t] = stop[t]
          /\ misled \subseteq misled' /\ (pc[s] = "waiting" => s \in misled')
      BY <1>4 DEF Cancel, TypeOK, CancelFindsStream, turn
    <2>2. \A t \in Streams : Fresh(t)'
      BY <2>1 DEF ReplyOK, Fresh
    <2> QED
      BY <2>1, <2>2, OwnFrame
  <1>5. ASSUME NEW c \in Convs, AgentStarts(c) \/ AgentActs(c) PROVE ReplyOK'
    <2>1. /\ UNCHANGED <<pc, conv, baseline, observed, stop, crossed, misled, result, answer,
                         backlog>>
          /\ \A d \in Convs : d # c => status'[d] = status[d] /\ leaf'[d] = leaf[d]
          /\ status'[c] = "running" /\ backlog[c] # <<>>
      BY <1>5 DEF AgentStarts, AgentActs, Happens, TypeOK, ServerOK, tables, turn, history
    <2>2. ASSUME NEW t \in Streams \ (crossed \cup misled) PROVE OwnTurn(t)'
      <3>1. OwnTurn(t) /\ (Works(t) => conv[t] \in Convs)
        BY DEF ReplyOK, StreamOK
      <3> QED
        BY <2>1, <3>1 DEF OwnTurn, Works, Terminal
    <2> QED
      BY <2>1, <2>2 DEF ReplyOK, Fresh, ReplyIsOwn
  <1>6. CASE UNCHANGED vars
    <2>1. UNCHANGED <<server, result, pc, conv, baseline, observed, stop, crossed, misled>>
      BY <1>6 DEF vars, server, turn, history
    <2>2. \A t \in Streams : Fresh(t)'
      BY <2>1 DEF ReplyOK, Fresh
    <2> QED
      BY <2>1, <2>2, OwnFrame
  <1> QED
    BY <1>1, <1>2, <1>3, <1>4, <1>5, <1>6, Steps, DoneOwn DEF ServerStep

\* A stream that was neither stopped nor misled ends with the reply of its own turn, unless
\* turns have met.
THEOREM RepliesAreOwn == Spec => []ReplyIsOwn
  <1>1. Spec => []Own
    BY InitOwn, NextOwn, PTL DEF Spec
  <1> QED
    BY <1>1, PTL DEF Own, ReplyOK
-----------------------------------------------------------------------------
(***************************************************************************)
(* The events.                                                             *)
(***************************************************************************)

\* What was let past was seen; what the WebSocket has yet to deliver to a stream that met no
\* other is of its turn, and so is what it has delivered.
EventOK(s) ==
    /\ \A i \in Positions : pushes[s][i] = IF i \in seen[s] THEN 1 ELSE 0
    /\ seen[s] # {} => Waits(s)
    /\ events[s] = "polling" => s \in polled
    /\ s \notin crossed /\ events[s] = "socket" =>
          \A i \in 1..Len(log[conv[s]]) : i > next[s] => log[conv[s]][i] = s
    /\ s \notin crossed \cup polled =>
          \A i \in seen[s] : i \in 1..Len(log[conv[s]]) /\ log[conv[s]][i] = s

EventsOK == \A s \in Streams : EventOK(s)

IInv == Own /\ EventsOK

LEMMA InitEvents == Init => IInv
  <1>1. Init => EventsOK
    BY DEF Init, EventsOK, EventOK
  <1> QED
    BY <1>1, InitOwn DEF IInv

\* A stream that reads nothing, or what it reads stays as it was.
LEMMA QuietEvents ==
    ASSUME IInv, NEW s \in Streams, crossed \subseteq crossed',
           seen'[s] = seen[s], pushes'[s] = pushes[s], next'[s] = next[s],
           s \in polled' <=> s \in polled,
           \/ Waits(s) /\ Waits(s)' /\ events'[s] = events[s] /\ conv'[s] = conv[s]
              /\ (s \in crossed' \/ log'[conv[s]] = log[conv[s]])
           \/ ~Waits(s) /\ events'[s] \in {events[s], "connecting"}
    PROVE  EventOK(s)'
  <1> USE DEF IInv, Own, Met, Sound, Typed
  <1>1. EventOK(s) /\ StreamOK(s)
    BY DEF EventsOK
  <1>2. CASE Waits(s)
    BY <1>1, <1>2 DEF EventOK
  <1>3. CASE ~Waits(s)
    <2>1. /\ seen'[s] = {} /\ events'[s] \notin {"polling", "socket"}
      BY <1>1, <1>3 DEF EventOK, StreamOK
    <2> QED
      BY <1>1, <2>1 DEF EventOK
  <1> QED
    BY <1>2, <1>3

\* An event of a turn in conversation c: streams that wait there have met the turn, or it is
\* their own.
LEMMA LogGrows ==
    ASSUME IInv, NEW c \in Convs, NEW t \in Streams, log' = [log EXCEPT ![c] = Append(log[c], t)],
           crossed \subseteq crossed',
           UNCHANGED <<seen, pushes, next, events, polled>>,
           NEW s \in Streams, Waits(s), Waits(s)', conv'[s] = conv[s],
           conv[s] = c => s = t \/ s \in crossed'
    PROVE  EventOK(s)'
  <1> USE DEF IInv, Own, Met, Sound, Typed
  <1>1. CASE conv[s] # c
    <2>1. log'[conv[s]] = log[conv[s]]
      BY <1>1 DEF StreamOK, TypeOK
    <2> QED
      BY <2>1, QuietEvents
  <1>2. CASE conv[s] = c
    <2>1. log[c] \in Seq(Streams) /\ Len(log[c]) \in Nat
      BY DEF TypeOK
    <2>2. /\ Len(log'[c]) = Len(log[c]) + 1 /\ log'[c][Len(log[c]) + 1] = t
          /\ \A i \in 1..Len(log[c]) : log'[c][i] = log[c][i]
      BY <2>1, AppendFacts DEF TypeOK
    <2>3. EventOK(s)
      BY DEF EventsOK
    <2>4. \A i \in 1..Len(log'[c]) : i \in 1..Len(log[c]) \/ i = Len(log[c]) + 1
      BY <2>1, <2>2
    <2>5. \A i \in 1..Len(log[c]) : i \in 1..Len(log'[c])
      BY <2>1, <2>2
    <2>6. s \notin crossed' /\ events[s] = "socket" =>
              \A i \in 1..Len(log'[c]) : i > next[s] => log'[c][i] = s
      BY <1>2, <2>2, <2>3, <2>4 DEF EventOK
    <2>7. s \notin crossed' \cup polled =>
              \A i \in seen[s] : i \in 1..Len(log'[c]) /\ log'[c][i] = s
      BY <1>2, <2>2, <2>3, <2>5 DEF EventOK
    <2> QED
      BY <1>2, <2>3, <2>6, <2>7 DEF EventOK
  <1> QED
    BY <1>1, <1>2

\* A message meets the streams that wait in the conversation.
LEMMA AcceptEvents ==
    ASSUME IInv, NEW s \in Streams, NEW c \in Convs, Accept(s, c),
           pc[s] \in {"post", "create"}, pc' = [pc EXCEPT ![s] = "ready"],
           \A t \in Streams : t # s => conv'[t] = conv[t],
           UNCHANGED <<reading, polled>>
    PROVE  EventsOK'
  <1> USE DEF IInv, Own, Met, Sound, Typed
  <1>1. /\ \A t \in Streams : t # s => pc'[t] = pc[t]
        /\ crossed \subseteq crossed' /\ (WorkingIn(c) # {} => WorkingIn(c) \subseteq crossed')
        /\ log' = [log EXCEPT ![c] = Append(log[c], s)]
    BY DEF Accept, TypeOK
  <1>2. ASSUME NEW t \in Streams PROVE EventOK(t)'
    <2>1. CASE ~Waits(t)
      BY <1>1, <2>1, QuietEvents DEF reading
    <2>2. CASE Waits(t)
      <3>1. t # s /\ Waits(t)' /\ conv'[t] = conv[t]
        BY <1>1, <2>2 DEF Waits
      <3>2. conv[t] = c => t \in crossed'
        BY <1>1, <2>2 DEF WorkingIn, Waits
      <3> QED
        BY <1>1, <2>2, <3>1, <3>2, LogGrows DEF reading
    <2> QED
      BY <2>1, <2>2
  <1> QED
    BY <1>2 DEF EventsOK

\* The agent works on the head of the queue.
LEMMA AgentEvents ==
    ASSUME IInv, NEW c \in Convs, Happens(c)
    PROVE  EventsOK'
  <1> USE DEF IInv, Own, Met, Sound, Typed
  <1>1. /\ UNCHANGED <<pc, conv, crossed, reading, polled>> /\ backlog[c] # <<>>
        /\ log' = [log EXCEPT ![c] = Append(log[c], Head(backlog[c]))]
    BY DEF Happens, turn, history, ServerOK
  <1>2. Queued(c, 1) /\ Head(backlog[c]) = backlog[c][1] /\ Head(backlog[c]) \in Streams
    BY <1>1, QueueFacts DEF MeetOK
  <1>3. ASSUME NEW s \in Streams PROVE EventOK(s)'
    <2>1. CASE ~Waits(s)
      BY <1>1, <2>1, QuietEvents DEF reading
    <2>2. CASE Waits(s)
      <3>1. Works(s) /\ Waits(s)'
        BY <1>1, <2>2 DEF Waits, Works
      <3>2. conv[s] = c => s = Head(backlog[c]) \/ s \in crossed
        BY <1>2, <3>1 DEF Queued
      <3> QED
        BY <1>1, <1>2, <2>2, <3>1, <3>2, LogGrows DEF reading
    <2> QED
      BY <2>1, <2>2
  <1> QED
    BY <1>3 DEF EventsOK

\* What is pushed is counted once.
LEMMA PushCounts ==
    ASSUME TypeOK, NEW s \in Streams, NEW batch, Push(s, batch),
           \A i \in Positions : pushes[s][i] = IF i \in seen[s] THEN 1 ELSE 0
    PROVE  /\ seen'[s] = seen[s] \cup batch
           /\ \A i \in Positions : pushes'[s][i] = IF i \in seen'[s] THEN 1 ELSE 0
  <1>1. seen'[s] = seen[s] \cup batch
    BY DEF Push, TypeOK
  <1>2. \A i \in Positions :
          pushes'[s][i] = IF i \in batch \ seen[s] THEN pushes[s][i] + 1 ELSE pushes[s][i]
    BY DEF Push, TypeOK
  <1> QED
    BY <1>1, <1>2

LEMMA StepEvents ==
    ASSUME IInv, NEW s \in Streams, EventStep(s)
    PROVE  EventsOK'
  <1> USE DEF IInv, Own, Met, Sound, Typed
  <1>1. /\ UNCHANGED <<log, pc, conv, crossed>> /\ Waits(s) /\ Waits(s)' /\ EventOK(s)
        /\ conv[s] \in Convs
    BY EventFrame DEF Waits, Works, StreamOK, EventsOK
  <1>2. log[conv[s]] \in Seq(Streams) /\ Len(log[conv[s]]) \in Nat /\ next[s] \in Nat
    BY <1>1 DEF TypeOK
  <1>3. ASSUME NEW t \in Streams, t # s PROVE EventOK(t)'
    <2>1. /\ events'[t] = events[t] /\ next'[t] = next[t] /\ seen'[t] = seen[t]
          /\ pushes'[t] = pushes[t] /\ (t \in polled' <=> t \in polled)
      BY <1>3, EventType
    <2> QED
      BY <1>1, <2>1, QuietEvents DEF Waits
  <1>4. ASSUME SocketOpens(s) PROVE EventOK(s)'
    <2>1. /\ events'[s] \in {"over", "socket"} /\ next'[s] = Len(log[conv[s]])
          /\ UNCHANGED <<seen, pushes, polled>>
      BY <1>4 DEF SocketOpens, TypeOK, history
    <2> QED
      BY <1>1, <1>2, <2>1 DEF EventOK
  <1>5. ASSUME SocketDelivers(s) PROVE EventOK(s)'
    <2>1. /\ events[s] = "socket" /\ events'[s] \in {"over", "socket"}
          /\ next'[s] = next[s] + 1 /\ UNCHANGED polled
          /\ Push(s, {next[s] + 1}) /\ next[s] + 1 \in 1..Len(log[conv[s]])
      BY <1>2, <1>5, SMTT(30) DEF SocketDelivers, TypeOK, history
    <2>2. /\ seen'[s] = seen[s] \cup {next[s] + 1}
          /\ \A i \in Positions : pushes'[s][i] = IF i \in seen'[s] THEN 1 ELSE 0
      BY <1>1, <2>1, PushCounts DEF EventOK
    <2>3. s \notin crossed => log[conv[s]][next[s] + 1] = s
      BY <1>1, <1>2, <2>1 DEF EventOK
    <2>4. \A i \in 1..Len(log[conv[s]]) : i > next'[s] => i > next[s]
      BY <1>2, <2>1
    <2> QED
      BY <1>1, <2>1, <2>2, <2>3, <2>4 DEF EventOK
  <1>6. ASSUME SocketEnds(s) \/ PollStops(s) PROVE EventOK(s)'
    <2>1. events'[s] = "over" /\ seen'[s] = {} /\ \A i \in Positions : pushes'[s][i] = 0
      BY <1>6 DEF SocketEnds, PollStops, Silent, TypeOK
    <2> QED
      BY <2>1 DEF EventOK
  <1>7. ASSUME SocketFails(s) PROVE EventOK(s)'
    <2>1. events'[s] = "polling" /\ s \in polled' /\ UNCHANGED <<seen, pushes>>
      BY <1>7 DEF SocketFails, TypeOK
    <2> QED
      BY <1>1, <2>1 DEF EventOK
  <1>8. ASSUME Poll(s) PROVE EventOK(s)'
    <2>1. /\ Push(s, {i \in DOMAIN log[conv[s]] : i <= PageSize})
          /\ s \in polled' /\ events'[s] # "socket"
      BY <1>1, <1>8 DEF Poll, TypeOK, EventOK, history
    <2>2. \A i \in Positions : pushes'[s][i] = IF i \in seen'[s] THEN 1 ELSE 0
      BY <1>1, <2>1, PushCounts DEF EventOK
    <2> QED
      BY <1>1, <2>1, <2>2 DEF EventOK
  <1> QED
    BY <1>3, <1>4, <1>5, <1>6, <1>7, <1>8 DEF EventsOK, EventStep

LEMMA NextEvents == IInv /\ [Next]_vars => IInv'
  <1> SUFFICES ASSUME IInv, [Next]_vars PROVE EventsOK'
    BY NextOwn DEF IInv
  <1> USE DEF IInv, Own, Met, Sound, Typed
  <1>1. ASSUME NEW s \in Streams, TurnStep(s) PROVE EventsOK'
    <2>1. CASE Send(s)
      <3>1. conv[s] \in Convs
        BY <2>1 DEF Send, StreamOK
      <3> QED
        BY <2>1, <3>1, AcceptEvents DEF Send
    <2>2. CASE Create(s)
      <3>1. PICK c \in Convs : Accept(s, c) /\ conv' = [conv EXCEPT ![s] = c]
        BY <2>2 DEF Create
      <3>2. \A t \in Streams : t # s => conv'[t] = conv[t]
        BY <3>1 DEF TypeOK
      <3> QED
        BY <2>2, <3>1, <3>2, AcceptEvents DEF Create
    <2>3. CASE ~Send(s) /\ ~Create(s)
      <3>1. /\ UNCHANGED <<log, crossed, seen, pushes, next, polled>>
            /\ \A t \in Streams : t # s =>
                  pc'[t] = pc[t] /\ conv'[t] = conv[t] /\ events'[t] = events[t]
            /\ \/ /\ ~Waits(s) /\ events'[s] \in {events[s], "connecting"}
               \/ /\ Waits(s) /\ Waits(s)' /\ events'[s] = events[s] /\ conv'[s] = conv[s]
        <4>1. CASE \E stored \in Used \cup {NoConv} : Start(s, stored)
          BY <4>1 DEF Start, TypeOK, Waits, server, reading, history
        <4>2. CASE ProbeFinds(s) \/ ProbeMisses(s)
          BY <4>2 DEF ProbeFinds, ProbeMisses, TypeOK, Waits, server, reading, history
        <4>3. CASE Ready(s)
          BY <4>3 DEF Ready, TypeOK, Waits, server, history
        <4>4. CASE SeesRunning(s) \/ SeesDone(s) \/ SeesStop(s)
          BY <4>4 DEF SeesRunning, SeesDone, SeesStop, TypeOK, Waits, server, reading, history
        <4> QED
          BY <1>1, <2>3, <4>1, <4>2, <4>3, <4>4 DEF TurnStep
      <3> QED
        BY <3>1, QuietEvents DEF EventsOK, Waits
    <2> QED
      BY <2>1, <2>2, <2>3
  <1>2. ASSUME NEW s \in Streams, NEW o \in {"error", "empty"} \cup Streams, End(s, o)
        PROVE  EventsOK'
    <2>1. /\ UNCHANGED <<log, conv, crossed>>
          /\ events'[s] = "over" /\ seen'[s] = {} /\ \A i \in Positions : pushes'[s][i] = 0
          /\ \A t \in Streams : t # s =>
                /\ pc'[t] = pc[t] /\ events'[t] = events[t] /\ seen'[t] = seen[t]
                /\ next'[t] = next[t] /\ pushes'[t] = pushes[t]
                /\ (t \in polled' <=> t \in polled)
      BY <1>2 DEF End, TypeOK, server
    <2>2. EventOK(s)'
      BY <2>1 DEF EventOK
    <2>3. \A t \in Streams : t # s => EventOK(t)'
      BY <2>1, QuietEvents DEF Waits
    <2> QED
      BY <2>2, <2>3 DEF EventsOK
  <1>3. ASSUME NEW c \in Convs, Cancel(c) \/ AgentStarts(c) PROVE EventsOK'
    <2>1. UNCHANGED <<log, pc, conv, reading, crossed, polled>>
      BY <1>3 DEF Cancel, AgentStarts, server, turn, history
    <2> QED
      BY <2>1, QuietEvents DEF EventsOK, Waits, reading
  <1>4. CASE UNCHANGED vars
    <2>1. UNCHANGED <<log, pc, conv, reading, crossed, polled>>
      BY <1>4 DEF vars, server, turn, history
    <2> QED
      BY <2>1, QuietEvents DEF EventsOK, Waits, reading
  <1> QED
    BY <1>1, <1>2, <1>3, <1>4, Steps, StepEvents, AgentEvents
       DEF ServerStep, AgentActs, AgentFinishes, AgentFails

\* No event goes past _push_event() twice, and what goes past is of the stream's turn, unless
\* the stream has polled or turns have met.
THEOREM EventsAreOwn == Spec => []EventsBelong
  <1>1. IInv => EventsBelong
    BY DEF IInv, EventsOK, EventOK, EventsBelong
  <1>2. Spec => []IInv
    BY InitEvents, NextEvents, PTL DEF Spec
  <1> QED
    BY <1>1, <1>2, PTL
=============================================================================
