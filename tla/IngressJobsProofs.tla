------------------------- MODULE IngressJobsProofs -------------------------
(***************************************************************************)
(* What IngressJobs guarantees for any number of jobs, tickets, workers    *)
(* and crashes.                                                            *)
(***************************************************************************)
EXTENDS IngressJobs, FiniteSetTheorems, TLAPS

Items == Jobs \cup {Stop}

LEMMA TailItems ==
    ASSUME NEW q \in Seq(Items), q # <<>>
    PROVE  /\ Tail(q) \in Seq(Items) /\ Len(q) \in Nat \ {0} /\ Len(Tail(q)) = Len(q) - 1
           /\ \A i \in 1..Len(Tail(q)) : Tail(q)[i] = q[i + 1]
           /\ Head(q) = q[1]
  OBVIOUS

LEMMA AppendItems ==
    ASSUME NEW q \in Seq(Items), NEW m \in Items
    PROVE  /\ Append(q, m) \in Seq(Items) /\ Len(q) \in Nat
           /\ Len(Append(q, m)) = Len(q) + 1
           /\ \A i \in 1..Len(q) : Append(q, m)[i] = q[i]
           /\ Append(q, m)[Len(q) + 1] = m
  OBVIOUS

\* The queue with the Nones of stop() behind it.
LEMMA StopItems ==
    ASSUME NEW q \in Seq(Items)
    PROVE  LET s == q \o [i \in 1..Workers |-> Stop]
           IN  /\ s \in Seq(Items) /\ Len(q) \in Nat /\ Len(s) = Len(q) + Workers
               /\ \A i \in 1..Len(q) : s[i] = q[i]
               /\ \A i \in Len(q) + 1..Len(s) : s[i] = Stop
  <1> DEFINE n == [i \in 1..Workers |-> Stop]
  <1>1. n \in Seq(Items) /\ Len(n) = Workers /\ Workers \in Nat
    BY ConstantsAssumption DEF Items
  <1>2. \A i \in 1..Workers : n[i] = Stop
    OBVIOUS
  <1> HIDE DEF n
  <1> QED
    BY <1>1, <1>2 DEF n

LEMMA MovedStatus ==
    ASSUME NEW from \in Statuses, NEW to \in Statuses
    PROVE  Moved(from, to) \in {from, to} /\ Moved(from, to) \in Statuses
  BY DEF Moved
-----------------------------------------------------------------------------
(***************************************************************************)
(* Type correctness.                                                       *)
(***************************************************************************)
LEMMA PersistType ==
    ASSUME TypeOK, NEW j \in Jobs, NEW s \in Settled, Persist(j, s)
    PROVE  /\ doc' \in [Jobs -> {"none", "queued", "running"} \cup Settled]
           /\ refused' \subseteq Jobs
  BY DEF Persist, Refused, TypeOK, Settled

LEMMA ReportType ==
    ASSUME TypeOK, NEW j \in Jobs, NEW s \in Settled, Report(j, s)
    PROVE  /\ at' \in [Work -> Stages]
           /\ doc' \in [Jobs -> {"none", "queued", "running"} \cup Settled]
           /\ refused' \subseteq Jobs
  BY PersistType DEF Report, TypeOK, Work, Stages, Settled

LEMMA BeginStreamType ==
    ASSUME TypeOK, NEW x \in Work, BeginStream(x)
    PROVE  /\ run' \in [Work -> Statuses]
           /\ ticketRun' \in [Tickets -> Work \cup {NoWork}]
           /\ ticketDone' \in [Tickets -> Work \cup {NoWork}]
           /\ shared' \subseteq Tickets
  <1>1. TicketOf[x] \in Tickets
    BY DEF Tickets
  <1> QED
    BY <1>1 DEF BeginStream, TypeOK, Statuses

LEMMA EndStreamType ==
    ASSUME TypeOK, NEW x \in Work, NEW to \in Statuses, EndStream(x, to)
    PROVE  /\ run' \in [Work -> Statuses]
           /\ UNCHANGED <<ticketRun, shared>>
  <1>1. Moved(run[x], to) \in Statuses
    BY MovedStatus DEF TypeOK
  <1> QED
    BY <1>1 DEF EndStream, TypeOK

LEMMA AnswerTicketType ==
    ASSUME TypeOK, NEW x \in Work, AnswerTicket(x)
    PROVE  /\ run' \in [Work -> Statuses]
           /\ ticketDone' \in [Tickets -> Work \cup {NoWork}]
           /\ answered' \subseteq Work
           /\ UNCHANGED <<ticketRun, shared>>
  <1>1. EndStream(x, "completed") /\ "completed" \in Statuses /\ TicketOf[x] \in Tickets
    BY DEF AnswerTicket, Statuses, Tickets
  <1> QED
    BY <1>1, EndStreamType DEF AnswerTicket, TypeOK

LEMMA FailTicketType ==
    ASSUME TypeOK, NEW x \in Work, FailTicket(x)
    PROVE  /\ run' \in [Work -> Statuses]
           /\ UNCHANGED <<ticketRun, ticketDone, shared, answered>>
  <1>1. EndStream(x, "failed") /\ "failed" \in Statuses
    BY DEF FailTicket, Statuses
  <1> QED
    BY <1>1, EndStreamType DEF FailTicket

LEMMA InitType == Init => TypeOK
  BY ConstantsAssumption
     DEF Init, TypeOK, Statuses, Settled, Stages

\* The steps of a worker.
LEMMA JobStepType == ASSUME TypeOK, NEW j \in Jobs, JobStep(j) PROVE TypeOK'
  <1>0. j \in Work /\ {"finished", "failed"} = Settled
    BY DEF Work, Settled
  <1>1. CASE Take(j)
    <2>1. queue' \in Seq(Items)
      BY <1>1, TailItems DEF Take, Get, TypeOK, Items
    <2> QED
      BY <1>0, <1>1, <2>1, BeginStreamType DEF Take, TypeOK, Stages, Settled, Items
  <1>2. CASE TakeFails(j)
    <2>1. queue' \in Seq(Items)
      BY <1>2, TailItems DEF TakeFails, Get, TypeOK, Items
    <2>2. "failed" \in Settled
      BY DEF Settled
    <2> QED
      BY <1>2, <2>1, <2>2, ReportType DEF TakeFails, TypeOK, Items
  <1>3. CASE StreamEnds(j)
    BY <1>0, <1>3, AnswerTicketType, ReportType DEF StreamEnds, TypeOK
  <1>4. CASE StreamRaises(j)
    BY <1>0, <1>4, FailTicketType, ReportType DEF StreamRaises, TypeOK
  <1>5. CASE Delivered(j)
    BY <1>0, <1>5, PersistType DEF Delivered, TypeOK, Stages
  <1>6. CASE DeliverRaises(j)
    BY <1>0, <1>6, PersistType DEF DeliverRaises, TypeOK, Stages
  <1>7. CASE TakeRefused(j)
    <2>1. queue' \in Seq(Items)
      BY <1>7, TailItems DEF TakeRefused, Get, TypeOK, Items
    <2> QED
      BY <1>0, <1>7, <2>1 DEF TakeRefused, Refused, TypeOK, Settled, Items
  <1> QED
    BY <1>1, <1>2, <1>3, <1>4, <1>5, <1>6, <1>7 DEF JobStep

LEMMA NextType == TypeOK /\ [Next]_vars => TypeOK'
  <1> SUFFICES ASSUME TypeOK, [Next]_vars PROVE TypeOK'
    OBVIOUS
  <1>1. ASSUME NEW j \in Jobs, Submit(j) PROVE TypeOK'
    <2>1. queue' \in Seq(Items)
      BY <1>1, AppendItems DEF Submit, TypeOK, Items
    <2> QED
      BY <1>1, <2>1 DEF Submit, TypeOK, Items, history
  <1>2. ASSUME NEW j \in Jobs, Post(j) PROVE TypeOK'
    BY <1>2 DEF Post, TypeOK, stored, memory, history
  <1>3. ASSUME NEW x \in Direct, TicketRequest(x) PROVE TypeOK'
    <2>1. x \in Work
      BY DEF Work
    <2> QED
      BY <1>3, <2>1, BeginStreamType DEF TicketRequest, TypeOK, Stages
  <1>4. ASSUME NEW x \in Direct, TicketOver(x) PROVE TypeOK'
    <2>1. x \in Work /\ "completed" \in Statuses
      BY DEF Work, Statuses
    <2>2. /\ run' \in [Work -> Statuses]
          /\ ticketDone' \in [Tickets -> Work \cup {NoWork}]
          /\ answered' \subseteq Work
          /\ UNCHANGED <<ticketRun, shared>>
      BY <1>4, <2>1, AnswerTicketType, FailTicketType, EndStreamType DEF TicketOver, TypeOK
    <2> QED
      BY <1>4, <2>1, <2>2 DEF TicketOver, TypeOK, Stages
  <1>5. ASSUME NEW x \in Work, CancelRun(x) PROVE TypeOK'
    <2>1. Moved(run[x], "cancelled") \in Statuses
      BY MovedStatus DEF TypeOK, Statuses
    <2> QED
      BY <1>5, <2>1 DEF CancelRun, TypeOK, memory, history
  <1>6. ASSUME NEW x \in Work, Approve(x) PROVE TypeOK'
    BY <1>6 DEF Approve, TypeOK, Statuses, memory
  <1>7. ASSUME NEW x \in Work, Reject(x) PROVE TypeOK'
    BY <1>7 DEF Reject, TypeOK, Statuses, memory, history
  <1>8. ASSUME NEW x \in Work, HookPauses(x) PROVE TypeOK'
    BY <1>8 DEF HookPauses, TypeOK, Statuses, memory, history
  <1>9. CASE WorkerLeaves
    <2>1. queue' \in Seq(Items)
      BY <1>9, TailItems DEF WorkerLeaves, Get, TypeOK, Items
    <2>2. Cardinality(Busy) \in Nat
      <3>1. IsFiniteSet(Busy)
        BY FS_Subset, ConstantsAssumption DEF Busy
      <3> QED
        BY <3>1, FS_CardinalityType
    <2>3. left' \in 0..Workers
      BY <1>9, <2>2, ConstantsAssumption DEF WorkerLeaves, Get, TypeOK
    <2> QED
      BY <1>9, <2>1, <2>3 DEF WorkerLeaves, TypeOK, Items, stored, history
  <1>10. CASE BeginStop
    <2>1. queue' \in Seq(Items)
      BY <1>10, StopItems DEF BeginStop, TypeOK, Items
    <2> QED
      BY <1>10, <2>1 DEF BeginStop, TypeOK, Items, stored, history
  <1>11. CASE EndStop
    BY <1>11, ConstantsAssumption DEF EndStop, TypeOK, stored, history
  <1>12. CASE Crash
    <2>1. <<>> \in Seq(Jobs \cup {Stop})
      OBVIOUS
    <2>2. Cardinality(refused) \in Nat
      BY FS_Subset, FS_CardinalityType, ConstantsAssumption DEF TypeOK
    <2>3. crashes' \in 0..MaxFaults
      BY <1>12, <2>2, ConstantsAssumption DEF Crash, TypeOK
    <2> QED
      BY <1>12, <2>1, <2>3, ConstantsAssumption DEF Crash, TypeOK, Stages, stored
  <1>13. CASE Startup
    <2>1. \A x \in Work : Moved(run[x], "failed") \in Statuses
      BY MovedStatus DEF TypeOK, Statuses
    <2> QED
      BY <1>13, <2>1 DEF Startup, TypeOK, memory, history
  <1>14. CASE UNCHANGED vars
    BY <1>14 DEF vars, TypeOK, stored, memory, history
  <1>15. ASSUME NEW j \in Jobs, SubmitRefused(j) PROVE TypeOK'
    BY <1>15 DEF SubmitRefused, Refused, TypeOK, memory
  <1> QED
    BY <1>1, <1>2, <1>3, <1>4, <1>5, <1>6, <1>7, <1>8, <1>9, <1>10, <1>11, <1>12, <1>13,
       <1>14, <1>15, JobStepType DEF Next

\* Every reachable state is well typed: a job goes only through its own statuses, and no
\* more workers leave than there are.
THEOREM TypeCorrect == Spec => []TypeOK
  BY InitType, NextType, PTL DEF Spec
-----------------------------------------------------------------------------
(***************************************************************************)
(* The inductive invariant.                                                *)
(***************************************************************************)
InQueue(j) == \E i \in 1..Len(queue) : queue[i] = j

OnceQueued ==
    \A i, k \in 1..Len(queue) : (queue[i] = queue[k] /\ queue[i] \in Jobs) => i = k

\* What the documents, the queue, the workers and the receiver agree on about one job:
\* before it is taken it has no run and no outcome; an outcome that was told stays; and no
\* code works any more on a job whose document was refused.
JobOK(j) ==
    /\ InQueue(j) => doc[j] = "queued"
    /\ at[j] # "idle" => doc[j] = "running"
    /\ crashes = 0 /\ j \notin refused =>
          /\ doc[j] = "queued" => InQueue(j)
          /\ doc[j] = "running" => at[j] # "idle"
    /\ j \in refused => at[j] = "idle" /\ ~InQueue(j) /\ doc[j] # "none"
    /\ doc[j] \in {"none", "queued"} =>
          /\ run[j] = "none"
          /\ received[j] = "none"
    /\ at[j] = "agent" => received[j] = "none"
    /\ (at[j] \in Settled /\ received[j] # "none") => received[j] = at[j]
    /\ (doc[j] \in Settled /\ received[j] # "none") =>
          received[j] = doc[j] \/ (j \in refused /\ doc[j] = "failed")
    /\ "finished" \in {doc[j], at[j], received[j]} => j \in answered
    /\ doc[j] \in {"none", "queued"} \/ at[j] \in {"agent", "failed"} => j \notin answered

JobsOK == OnceQueued /\ \A j \in Jobs : JobOK(j)

\* Unless another stream has begun on the ticket, it names the stream that is at work.
TicketsOK ==
    /\ \A x \in Work : (at[x] = "agent" /\ TicketOf[x] \notin shared)
                          => ticketRun[TicketOf[x]] = x
    /\ TicketNamesItsReply

\* A stopping service holds as many Nones as workers are left, behind all jobs.
StopOK ==
    /\ Cardinality(Busy) + left <= Workers
    /\ up # "stopping" => left = 0 /\ \A i \in 1..Len(queue) : queue[i] # Stop
    /\ up = "stopping" =>
          /\ Len(queue) >= Workers - left
          /\ \A i \in 1..Len(queue) :
                (queue[i] = Stop) <=> (i > Len(queue) - (Workers - left))
          /\ left > 0 => Len(queue) = Workers - left
    /\ up = "down" => queue = <<>> /\ Busy = {}

IInv == TypeOK /\ JobsOK /\ TicketsOK /\ RunningIsStreamed /\ StopOK
-----------------------------------------------------------------------------
(***************************************************************************)
(* Jobs.                                                                   *)
(***************************************************************************)
LEMMA GetQueue ==
    ASSUME TypeOK, OnceQueued, NEW item \in Items, Get(item)
    PROVE  /\ OnceQueued'
           /\ \A j \in Jobs : InQueue(j)' <=> (InQueue(j) /\ j # item)
           /\ item \in Jobs => InQueue(item)
  <1>0. queue \in Seq(Items) /\ queue # <<>> /\ queue' = Tail(queue) /\ Head(queue) = item
    BY DEF TypeOK, Items, Get
  <1>1. /\ Len(queue) \in Nat \ {0} /\ Len(queue') = Len(queue) - 1
        /\ \A i \in 1..Len(queue') : queue'[i] = queue[i + 1]
        /\ queue[1] = item
    BY <1>0, TailItems
  <1>2. OnceQueued'
    BY <1>1 DEF OnceQueued
  <1>3. ASSUME NEW j \in Jobs, InQueue(j)' PROVE InQueue(j) /\ j # item
    <2>1. PICK i \in 1..Len(queue') : queue'[i] = j
      BY <1>3 DEF InQueue
    <2>2. i + 1 \in 1..Len(queue) /\ 1 \in 1..Len(queue) /\ queue[i + 1] = j /\ i + 1 # 1
      BY <1>1, <2>1
    <2> QED
      BY <1>1, <2>2 DEF InQueue, OnceQueued
  <1>4. ASSUME NEW j \in Jobs, InQueue(j), j # item PROVE InQueue(j)'
    <2>1. PICK i \in 1..Len(queue) : queue[i] = j
      BY <1>4 DEF InQueue
    <2>2. i # 1
      BY <1>1, <1>4, <2>1
    <2>3. i - 1 \in 1..Len(queue') /\ queue'[i - 1] = j
      BY <1>1, <2>1, <2>2
    <2> QED
      BY <2>3 DEF InQueue
  <1>5. 1 \in 1..Len(queue)
    BY <1>1
  <1> QED
    BY <1>1, <1>2, <1>3, <1>4, <1>5 DEF InQueue

LEMMA SubmitQueue ==
    ASSUME TypeOK, JobsOK, NEW j \in Jobs, Submit(j)
    PROVE  /\ OnceQueued'
           /\ \A k \in Jobs : InQueue(k)' <=> (InQueue(k) \/ k = j)
  <1>0. queue \in Seq(Items) /\ j \in Items /\ queue' = Append(queue, j)
    BY DEF TypeOK, Items, Submit
  <1>1. /\ Len(queue) \in Nat /\ Len(queue') = Len(queue) + 1
        /\ \A i \in 1..Len(queue) : queue'[i] = queue[i]
        /\ queue'[Len(queue) + 1] = j
    BY <1>0, AppendItems
  <1>2. ~InQueue(j)
    BY DEF JobsOK, JobOK, Submit
  <1>3. \A i \in 1..Len(queue') : i \in 1..Len(queue) \/ i = Len(queue) + 1
    BY <1>1
  <1>4. OnceQueued'
    BY <1>1, <1>2, <1>3 DEF OnceQueued, InQueue, JobsOK
  <1>5. Len(queue) + 1 \in 1..Len(queue') /\ \A i \in 1..Len(queue) : i \in 1..Len(queue')
    BY <1>1
  <1> QED
    BY <1>1, <1>3, <1>4, <1>5 DEF InQueue

LEMMA BeginStopQueue ==
    ASSUME TypeOK, OnceQueued, BeginStop
    PROVE  /\ OnceQueued'
           /\ \A k \in Jobs : InQueue(k)' <=> InQueue(k)
  <1>0. queue \in Seq(Items) /\ queue' = queue \o [i \in 1..Workers |-> Stop]
        /\ Workers \in Nat /\ Stop \notin Jobs
    BY ConstantsAssumption DEF TypeOK, Items, BeginStop
  <1>1. /\ Len(queue) \in Nat /\ Len(queue') = Len(queue) + Workers
        /\ \A i \in 1..Len(queue) : queue'[i] = queue[i]
        /\ \A i \in Len(queue) + 1..Len(queue') : queue'[i] = Stop
    BY <1>0, StopItems
  <1>2. \A i \in 1..Len(queue') : i \in 1..Len(queue) \/ i \in Len(queue) + 1..Len(queue')
    BY <1>0, <1>1
  <1>3. \A i \in 1..Len(queue) : i \in 1..Len(queue')
    BY <1>0, <1>1
  <1>4. OnceQueued'
    BY <1>0, <1>1, <1>2 DEF OnceQueued
  <1> QED
    BY <1>0, <1>1, <1>2, <1>3, <1>4 DEF InQueue

\* A step that leaves the queue alone.
LEMMA SameQueue ==
    ASSUME OnceQueued, UNCHANGED queue
    PROVE  OnceQueued' /\ \A j \in Jobs : InQueue(j)' <=> InQueue(j)
  BY DEF OnceQueued, InQueue

LEMMA MovedNone == ASSUME NEW to \in Statuses PROVE Moved("none", to) = "none"
  BY DEF Moved, CanTransition, AllowedTransitions

\* A step that, of a job, changes at most the run of one that has been taken.
LEMMA OtherJob ==
    ASSUME JobsOK, NEW j \in Jobs, InQueue(j)' <=> InQueue(j),
           UNCHANGED <<doc[j], at[j], received[j], crashes>>,
           j \in answered <=> j \in answered', j \in refused <=> j \in refused',
           run[j] = "none" => run'[j] = "none"
    PROVE  JobOK(j)'
  <1>1. JobOK(j)
    BY DEF JobsOK
  <1> QED
    BY <1>1 DEF JobOK

LEMMA InitJobs == Init => JobsOK
  BY DEF Init, JobsOK, OnceQueued, JobOK, InQueue, Settled, Work

LEMMA JobStepJobs ==
    ASSUME TypeOK, JobsOK, NEW j \in Jobs, JobStep(j)
    PROVE  JobsOK'
  <1>0. /\ Jobs \subseteq Work /\ Settled = {"finished", "failed"} /\ j \in Items
        /\ JobOK(j) /\ OnceQueued
    BY DEF Work, Settled, Items, JobsOK
  <1>1. CASE Take(j)
    <2>1. Get(j)
      BY <1>1 DEF Take
    <2>2. OnceQueued' /\ \A k \in Jobs : InQueue(k)' <=> (InQueue(k) /\ k # j)
      BY <1>0, <2>1, GetQueue
    <2>3. InQueue(j)
      BY <1>0, <2>1, GetQueue
    <2>4. JobOK(j)'
      BY <1>0, <1>1, <2>2, <2>3 DEF JobOK, Take, TypeOK
    <2>5. ASSUME NEW k \in Jobs, k # j PROVE JobOK(k)'
      BY <1>0, <1>1, <2>2, <2>5, OtherJob DEF Take, BeginStream, TypeOK
    <2> QED
      BY <2>2, <2>4, <2>5 DEF JobsOK
  <1>2. CASE TakeFails(j)
    <2>1. Get(j)
      BY <1>2 DEF TakeFails
    <2>2. OnceQueued' /\ \A k \in Jobs : InQueue(k)' <=> (InQueue(k) /\ k # j)
      BY <1>0, <2>1, GetQueue
    <2>3. InQueue(j)
      BY <1>0, <2>1, GetQueue
    <2>4. JobOK(j)'
      BY <1>0, <1>2, <2>2, <2>3 DEF JobOK, TakeFails, Report, Persist, Refused, TypeOK
    <2>5. ASSUME NEW k \in Jobs, k # j PROVE JobOK(k)'
      BY <1>0, <1>2, <2>2, <2>5, OtherJob DEF TakeFails, Report, Persist, Refused, TypeOK
    <2> QED
      BY <2>2, <2>4, <2>5 DEF JobsOK
  <1>3. ASSUME at[j] = "agent", NEW s \in Settled, Report(j, s),
               UNCHANGED <<queue, received, crashes>>,
               NEW r \in Statuses, run' = [run EXCEPT ![j] = r],
               answered' \in {answered, answered \cup {j}},
               s = "finished" <=> j \in answered'
        PROVE  JobsOK'
    <2>1. OnceQueued' /\ \A k \in Jobs : InQueue(k)' <=> InQueue(k)
      BY <1>0, <1>3, SameQueue
    <2>2. JobOK(j)'
      BY <1>0, <1>3, <2>1 DEF JobOK, Report, Persist, Refused, TypeOK
    <2>3. ASSUME NEW k \in Jobs, k # j PROVE JobOK(k)'
      BY <1>0, <1>3, <2>1, <2>3, OtherJob DEF Report, Persist, Refused, TypeOK
    <2> QED
      BY <2>1, <2>2, <2>3 DEF JobsOK
  <1>4. CASE StreamEnds(j)
    <2>1. Moved(run[j], "completed") \in Statuses
      BY <1>0, MovedStatus, SMTT(30) DEF TypeOK, Statuses
    <2> QED
      BY <1>0, <1>3, <1>4, <2>1 DEF StreamEnds, AnswerTicket, EndStream
  <1>5. CASE StreamRaises(j)
    <2>1. Moved(run[j], "failed") \in Statuses
      BY <1>0, MovedStatus, SMTT(30) DEF TypeOK, Statuses
    <2>2. j \notin answered
      BY <1>0, <1>5 DEF StreamRaises, JobOK
    <2> QED
      BY <1>0, <1>3, <1>5, <2>1, <2>2 DEF StreamRaises, FailTicket, EndStream
  <1>6. CASE Delivered(j)
    <2>1. OnceQueued' /\ \A k \in Jobs : InQueue(k)' <=> InQueue(k)
      BY <1>0, <1>6, SameQueue DEF Delivered
    <2>2. JobOK(j)'
      BY <1>0, <1>6, <2>1 DEF JobOK, Delivered, Persist, Refused, TypeOK
    <2>3. ASSUME NEW k \in Jobs, k # j PROVE JobOK(k)'
      BY <1>0, <1>6, <2>1, <2>3, OtherJob DEF Delivered, Persist, Refused, TypeOK
    <2> QED
      BY <2>1, <2>2, <2>3 DEF JobsOK
  <1>7. CASE DeliverRaises(j)
    <2>1. OnceQueued' /\ \A k \in Jobs : InQueue(k)' <=> InQueue(k)
      BY <1>0, <1>7, SameQueue DEF DeliverRaises
    <2>2. JobOK(j)'
      BY <1>0, <1>7, <2>1 DEF JobOK, DeliverRaises, Persist, Refused, TypeOK
    <2>3. ASSUME NEW k \in Jobs, k # j PROVE JobOK(k)'
      BY <1>0, <1>7, <2>1, <2>3, OtherJob DEF DeliverRaises, Persist, Refused, TypeOK
    <2> QED
      BY <2>1, <2>2, <2>3 DEF JobsOK
  <1>8. CASE TakeRefused(j)
    <2>1. Get(j)
      BY <1>8 DEF TakeRefused
    <2>2. OnceQueued' /\ \A k \in Jobs : InQueue(k)' <=> (InQueue(k) /\ k # j)
      BY <1>0, <2>1, GetQueue
    <2>3. InQueue(j)
      BY <1>0, <2>1, GetQueue
    <2>4. JobOK(j)'
      BY <1>0, <1>8, <2>2, <2>3 DEF JobOK, TakeRefused, Refused, TypeOK
    <2>5. ASSUME NEW k \in Jobs, k # j PROVE JobOK(k)'
      BY <1>0, <1>8, <2>2, <2>5, OtherJob DEF TakeRefused, Refused, TypeOK
    <2> QED
      BY <2>2, <2>4, <2>5 DEF JobsOK
  <1> QED
    BY <1>1, <1>2, <1>4, <1>5, <1>6, <1>7, <1>8 DEF JobStep

\* A step that leaves the jobs alone and moves only runs that have begun.
LEMMA RunsMoveJobs ==
    ASSUME JobsOK, UNCHANGED <<doc, at, received, crashes, queue>>,
           UNCHANGED <<answered, refused>>,
           \A j \in Jobs : run[j] = "none" => run'[j] = "none"
    PROVE  JobsOK'
  <1>1. OnceQueued' /\ \A j \in Jobs : InQueue(j)' <=> InQueue(j)
    BY SameQueue DEF JobsOK
  <1>2. ASSUME NEW j \in Jobs PROVE JobOK(j)'
    BY <1>1, <1>2, OtherJob
  <1> QED
    BY <1>1, <1>2 DEF JobsOK

LEMMA NextJobs == TypeOK /\ JobsOK /\ [Next]_vars => JobsOK'
  <1> SUFFICES ASSUME TypeOK, JobsOK, [Next]_vars PROVE JobsOK'
    OBVIOUS
  <1>0. /\ Jobs \subseteq Work /\ Direct \subseteq Work /\ Jobs \cap Direct = {}
        /\ Settled = {"finished", "failed"} /\ OnceQueued
    BY ConstantsAssumption DEF Work, Settled, JobsOK
  <1>1. ASSUME NEW j \in Jobs, Submit(j) PROVE JobsOK'
    <2>1. OnceQueued' /\ \A k \in Jobs : InQueue(k)' <=> (InQueue(k) \/ k = j)
      BY <1>1, SubmitQueue
    <2>2. JobOK(j)'
      BY <1>0, <1>1, <2>1 DEF JobsOK, JobOK, Submit, TypeOK, history
    <2>3. ASSUME NEW k \in Jobs, k # j PROVE JobOK(k)'
      BY <1>1, <2>1, <2>3, OtherJob DEF Submit, TypeOK, history
    <2> QED
      BY <2>1, <2>2, <2>3 DEF JobsOK
  <1>2. ASSUME NEW j \in Jobs, Post(j) PROVE JobsOK'
    <2>1. OnceQueued' /\ \A k \in Jobs : InQueue(k)' <=> InQueue(k)
      BY <1>0, <1>2, SameQueue DEF Post, memory
    <2>2. JobOK(j)'
      BY <1>0, <1>2, <2>1 DEF JobsOK, JobOK, Post, TypeOK, stored, memory, history
    <2>3. ASSUME NEW k \in Jobs, k # j PROVE JobOK(k)'
      BY <1>2, <2>1, <2>3, OtherJob DEF Post, TypeOK, stored, memory, history
    <2> QED
      BY <2>1, <2>2, <2>3 DEF JobsOK
  <1>3. ASSUME NEW x \in Direct,
               UNCHANGED <<doc, received, refused, crashes, queue>>,
               \A k \in Work : k # x => (k \in answered <=> k \in answered'),
               \A k \in Work : k # x => run'[k] = run[k] /\ at'[k] = at[k]
        PROVE  JobsOK'
    <2>1. OnceQueued' /\ \A k \in Jobs : InQueue(k)' <=> InQueue(k)
      BY <1>0, <1>3, SameQueue
    <2>2. ASSUME NEW k \in Jobs PROVE JobOK(k)'
      <3>1. run'[k] = run[k] /\ at'[k] = at[k] /\ (k \in answered <=> k \in answered')
        BY <1>0, <1>3
      <3> QED
        BY <1>3, <2>1, <3>1, OtherJob
    <2> QED
      BY <2>1, <2>2 DEF JobsOK
  <1>4. ASSUME NEW x \in Direct, TicketRequest(x) PROVE JobsOK'
    BY <1>0, <1>3, <1>4 DEF TicketRequest, BeginStream, TypeOK
  <1>5. ASSUME NEW x \in Direct, TicketOver(x) PROVE JobsOK'
    BY <1>0, <1>3, <1>5 DEF TicketOver, AnswerTicket, FailTicket, EndStream, TypeOK
  <1>6. ASSUME NEW x \in Work, CancelRun(x) PROVE JobsOK'
    BY <1>0, <1>6, RunsMoveJobs DEF CancelRun, TypeOK, memory, history, Active
  <1>7. ASSUME NEW x \in Work, Approve(x) \/ Reject(x) \/ HookPauses(x) PROVE JobsOK'
    BY <1>0, <1>7, RunsMoveJobs DEF Approve, Reject, HookPauses, TypeOK, memory, history
  <1>8. CASE WorkerLeaves
    <2>1. Get(Stop) /\ Stop \in Items /\ Stop \notin Jobs
      BY <1>8, ConstantsAssumption DEF WorkerLeaves, Items
    <2>2. OnceQueued' /\ \A k \in Jobs : InQueue(k)' <=> InQueue(k)
      BY <1>0, <2>1, GetQueue
    <2>3. ASSUME NEW k \in Jobs PROVE JobOK(k)'
      BY <1>8, <2>2, OtherJob DEF WorkerLeaves, stored, history
    <2> QED
      BY <2>2, <2>3 DEF JobsOK
  <1>9. CASE BeginStop
    <2>1. OnceQueued' /\ \A k \in Jobs : InQueue(k)' <=> InQueue(k)
      BY <1>0, <1>9, BeginStopQueue
    <2>2. ASSUME NEW k \in Jobs PROVE JobOK(k)'
      BY <1>9, <2>1, OtherJob DEF BeginStop, stored, history
    <2> QED
      BY <2>1, <2>2 DEF JobsOK
  <1>10. CASE EndStop
    BY <1>10, RunsMoveJobs DEF EndStop, stored, history
  <1>11. CASE Crash
    <2>1. crashes' # 0 /\ queue' = <<>> /\ Len(queue') = 0
      BY <1>11, ConstantsAssumption DEF Crash, TypeOK
    <2>2. ASSUME NEW k \in Jobs PROVE JobOK(k)'
      BY <1>0, <1>11, <2>1 DEF Crash, JobsOK, JobOK, InQueue, stored
    <2> QED
      BY <2>1, <2>2 DEF JobsOK, OnceQueued
  <1>12. CASE Startup
    BY <1>0, <1>12, RunsMoveJobs, MovedNone DEF Startup, memory, history, Statuses
  <1>13. CASE UNCHANGED vars
    BY <1>13, RunsMoveJobs DEF vars, stored, memory, history
  <1>14. ASSUME NEW j \in Jobs, SubmitRefused(j) PROVE JobsOK'
    <2>1. OnceQueued' /\ \A k \in Jobs : InQueue(k)' <=> InQueue(k)
      BY <1>0, <1>14, SameQueue DEF SubmitRefused, memory
    <2>2. JobOK(j)'
      BY <1>0, <1>14, <2>1 DEF JobsOK, JobOK, SubmitRefused, Refused, TypeOK, memory
    <2>3. ASSUME NEW k \in Jobs, k # j PROVE JobOK(k)'
      BY <1>14, <2>1, <2>3, OtherJob DEF SubmitRefused, Refused, TypeOK, memory
    <2> QED
      BY <2>1, <2>2, <2>3 DEF JobsOK
  <1> QED
    BY <1>1, <1>2, <1>4, <1>5, <1>6, <1>7, <1>8, <1>9, <1>10, <1>11, <1>12, <1>13, <1>14,
       JobStepJobs DEF Next
-----------------------------------------------------------------------------
(***************************************************************************)
(* Tickets and runs.                                                       *)
(***************************************************************************)
LEMMA InitTickets == Init => TicketsOK /\ RunningIsStreamed
  BY DEF Init, TicketsOK, TicketNamesItsReply, RunningIsStreamed

LEMMA BeginStreamTickets ==
    ASSUME TypeOK, TicketsOK, NEW x \in Work, at[x] # "agent", BeginStream(x),
           at' = [at EXCEPT ![x] = "agent"]
    PROVE  TicketsOK'
  <1>1. ASSUME NEW y \in Work, at'[y] = "agent", TicketOf[y] \notin shared'
        PROVE  ticketRun'[TicketOf[y]] = y
    <2>1. CASE y = x
      BY <2>1 DEF BeginStream, TypeOK, Tickets
    <2>2. CASE y # x
      <3>1. at[y] = "agent" /\ TicketOf[y] # TicketOf[x]
        BY <1>1, <2>2 DEF BeginStream, TypeOK
      <3>2. TicketOf[y] \notin shared
        BY <1>1, <3>1 DEF BeginStream
      <3> QED
        BY <3>1, <3>2 DEF BeginStream, TypeOK, TicketsOK
    <2> QED
      BY <2>1, <2>2
  <1>2. ASSUME NEW t \in Tickets, t \notin shared'
        PROVE  ticketDone'[t] \in {NoWork, ticketRun'[t]}
    <2>1. CASE t = TicketOf[x]
      BY <2>1 DEF BeginStream, TypeOK
    <2>2. CASE t # TicketOf[x]
      BY <1>2, <2>2 DEF BeginStream, TypeOK, TicketsOK, TicketNamesItsReply
    <2> QED
      BY <2>1, <2>2
  <1> QED
    BY <1>1, <1>2 DEF TicketsOK, TicketNamesItsReply

\* A stream that ends with or without a reply; another stage may follow, "agent" does not.
LEMMA EndStreamTickets ==
    ASSUME TypeOK, TicketsOK, NEW x \in Work, at[x] = "agent",
           UNCHANGED <<ticketRun, shared>>,
           \A y \in Work : at'[y] = "agent" => at[y] = "agent",
           ticketDone' \in {ticketDone, [ticketDone EXCEPT ![TicketOf[x]] = x]}
    PROVE  TicketsOK'
  <1>1. ASSUME NEW t \in Tickets, t \notin shared
        PROVE  ticketDone'[t] \in {NoWork, ticketRun[t]}
    <2>1. ticketDone[t] \in {NoWork, ticketRun[t]}
      BY <1>1 DEF TicketsOK, TicketNamesItsReply
    <2>2. t = TicketOf[x] => ticketRun[t] = x
      BY <1>1 DEF TicketsOK
    <2> QED
      BY <2>1, <2>2 DEF TypeOK
  <1> QED
    BY <1>1 DEF TicketsOK, TicketNamesItsReply

\* A step that neither begins nor ends a stream.
LEMMA SameTickets ==
    ASSUME TicketsOK, UNCHANGED <<ticketRun, ticketDone, shared>>,
           \A y \in Work : at'[y] = "agent" => at[y] = "agent"
    PROVE  TicketsOK'
  BY DEF TicketsOK, TicketNamesItsReply

LEMMA ReportStage ==
    ASSUME TypeOK, NEW j \in Jobs, NEW s \in Settled, Report(j, s)
    PROVE  /\ at'[j] # "agent"
           /\ \A y \in Work : y # j => at'[y] = at[y]
  BY DEF Report, TypeOK, Work, Settled

LEMMA NextTickets == TypeOK /\ JobsOK /\ TicketsOK /\ [Next]_vars => TicketsOK'
  <1> SUFFICES ASSUME TypeOK, JobsOK, TicketsOK, [Next]_vars PROVE TicketsOK'
    OBVIOUS
  <1>0. /\ Jobs \subseteq Work /\ Direct \subseteq Work
        /\ "finished" \in Settled /\ "failed" \in Settled
    BY DEF Work, Settled
  <1>1. ASSUME NEW j \in Jobs, Take(j) PROVE TicketsOK'
    <2>1. InQueue(j)
      <3>1. Get(j) /\ j \in Items
        BY <1>1 DEF Take, Items
      <3> QED
        BY <3>1, GetQueue DEF JobsOK
    <2>2. at[j] # "agent"
      BY <2>1 DEF JobsOK, JobOK
    <2> QED
      BY <1>0, <1>1, <2>2, BeginStreamTickets DEF Take
  <1>2. ASSUME NEW j \in Jobs, TakeFails(j) \/ TakeRefused(j) \/ SubmitRefused(j)
        PROVE  TicketsOK'
    BY <1>0, <1>2, ReportStage, SameTickets DEF TakeFails, TakeRefused, SubmitRefused, memory
  <1>3. ASSUME NEW j \in Jobs, StreamEnds(j) PROVE TicketsOK'
    BY <1>0, <1>3, ReportStage, EndStreamTickets DEF StreamEnds, AnswerTicket, EndStream
  <1>4. ASSUME NEW j \in Jobs, StreamRaises(j) PROVE TicketsOK'
    BY <1>0, <1>4, ReportStage, EndStreamTickets DEF StreamRaises, FailTicket, EndStream
  <1>5. ASSUME NEW j \in Jobs, Delivered(j) \/ DeliverRaises(j) PROVE TicketsOK'
    BY <1>0, <1>5, SameTickets DEF Delivered, DeliverRaises, TypeOK
  <1>6. ASSUME NEW j \in Jobs, Submit(j) \/ Post(j) PROVE TicketsOK'
    BY <1>6, SameTickets DEF Submit, Post, stored, memory, history
  <1>7. ASSUME NEW x \in Direct, TicketRequest(x) PROVE TicketsOK'
    <2>1. CASE at[x] = "agent"
      <3>1. at' = at
        BY <1>0, <1>7, <2>1 DEF TicketRequest, TypeOK
      <3> QED
        BY <1>0, <1>7, <2>1, <3>1, SMTT(30) DEF TicketRequest, BeginStream, TypeOK, TicketsOK,
           TicketNamesItsReply, Tickets
    <2>2. CASE at[x] # "agent"
      BY <1>0, <1>7, <2>2, BeginStreamTickets DEF TicketRequest
    <2> QED
      BY <2>1, <2>2
  <1>8. ASSUME NEW x \in Direct, TicketOver(x) PROVE TicketsOK'
    BY <1>0, <1>8, EndStreamTickets
       DEF TicketOver, AnswerTicket, FailTicket, EndStream, TypeOK
  <1>9. ASSUME NEW x \in Work, CancelRun(x) \/ Approve(x) \/ Reject(x) \/ HookPauses(x)
        PROVE TicketsOK'
    BY <1>9, SameTickets DEF CancelRun, Approve, Reject, HookPauses, memory, history
  <1>10. CASE WorkerLeaves \/ BeginStop \/ EndStop \/ Startup \/ UNCHANGED vars
    BY <1>10, SameTickets DEF WorkerLeaves, BeginStop, EndStop, Startup, vars, stored, memory,
       history
  <1>11. CASE Crash
    BY <1>11, SameTickets DEF Crash, stored
  <1> QED
    BY <1>1, <1>2, <1>3, <1>4, <1>5, <1>6, <1>7, <1>8, <1>9, <1>10, <1>11 DEF Next, JobStep

LEMMA MovedAway ==
    ASSUME NEW from \in Statuses, NEW to \in Terminal
    PROVE  Moved(from, to) # "running"
  BY DEF Moved, CanTransition, AllowedTransitions, Terminal, Statuses

\* A step that lets no run begin and no stream end.
LEMMA SameStreams ==
    ASSUME RunningIsStreamed, up' # "down" => up # "down", late \subseteq late',
           \A x \in Work : run'[x] = "running" => run[x] = "running",
           \A x \in Work : at[x] = "agent" => at'[x] = "agent"
    PROVE  RunningIsStreamed'
  BY DEF RunningIsStreamed

LEMMA BeginStreamRuns ==
    ASSUME TypeOK, RunningIsStreamed, NEW x \in Work, BeginStream(x),
           at' = [at EXCEPT ![x] = "agent"], UNCHANGED <<up, late>>
    PROVE  RunningIsStreamed'
  BY DEF BeginStream, TypeOK, RunningIsStreamed

LEMMA EndStreamRuns ==
    ASSUME TypeOK, RunningIsStreamed, NEW x \in Work, NEW to \in Terminal, EndStream(x, to),
           \A y \in Work : y # x => at'[y] = at[y],
           UNCHANGED <<up, late>>
    PROVE  RunningIsStreamed'
  <1>1. run'[x] # "running"
    BY MovedAway DEF EndStream, TypeOK
  <1> QED
    BY <1>1 DEF EndStream, TypeOK, RunningIsStreamed

LEMMA NextRuns == TypeOK /\ JobsOK /\ RunningIsStreamed /\ [Next]_vars => RunningIsStreamed'
  <1> SUFFICES ASSUME TypeOK, JobsOK, RunningIsStreamed, [Next]_vars PROVE RunningIsStreamed'
    OBVIOUS
  <1>0. /\ Jobs \subseteq Work /\ Direct \subseteq Work
        /\ "finished" \in Settled /\ "failed" \in Settled /\ "agent" \notin Settled
        /\ {"completed", "failed", "cancelled"} \subseteq Terminal
    BY DEF Work, Settled, Terminal
  <1>1. ASSUME NEW j \in Jobs, Take(j) PROVE RunningIsStreamed'
    BY <1>0, <1>1, BeginStreamRuns DEF Take
  <1>2. ASSUME NEW j \in Jobs, TakeFails(j) PROVE RunningIsStreamed'
    <2>1. Get(j) /\ j \in Items
      BY <1>2 DEF TakeFails, Items
    <2>2. InQueue(j)
      BY <2>1, GetQueue DEF JobsOK
    <2>3. at[j] # "agent"
      BY <2>2 DEF JobsOK, JobOK
    <2> QED
      BY <1>0, <1>2, <2>3, ReportStage, SameStreams DEF TakeFails
  <1>3. ASSUME NEW j \in Jobs, StreamEnds(j) PROVE RunningIsStreamed'
    BY <1>0, <1>3, ReportStage, EndStreamRuns DEF StreamEnds, AnswerTicket
  <1>4. ASSUME NEW j \in Jobs, StreamRaises(j) PROVE RunningIsStreamed'
    BY <1>0, <1>4, ReportStage, EndStreamRuns DEF StreamRaises, FailTicket
  <1>5. ASSUME NEW j \in Jobs, Delivered(j) \/ DeliverRaises(j) PROVE RunningIsStreamed'
    BY <1>0, <1>5, SameStreams DEF Delivered, DeliverRaises, TypeOK
  <1>6. ASSUME NEW j \in Jobs, Submit(j) \/ Post(j) PROVE RunningIsStreamed'
    BY <1>6, SameStreams DEF Submit, Post, stored, memory, history
  <1>7. ASSUME NEW x \in Direct, TicketRequest(x) PROVE RunningIsStreamed'
    BY <1>0, <1>7, BeginStreamRuns DEF TicketRequest
  <1>8. ASSUME NEW x \in Direct, TicketOver(x) PROVE RunningIsStreamed'
    <2>1. \A y \in Work : y # x => at'[y] = at[y]
      BY <1>8 DEF TicketOver, TypeOK
    <2> QED
      BY <1>0, <1>8, <2>1, EndStreamRuns DEF TicketOver, AnswerTicket, FailTicket
  <1>9. ASSUME NEW x \in Work, CancelRun(x) PROVE RunningIsStreamed'
    <2>1. run'[x] # "running"
      BY <1>0, <1>9, MovedAway DEF CancelRun, TypeOK
    <2> QED
      BY <1>9, <2>1, SameStreams DEF CancelRun, TypeOK, memory, history
  <1>10. ASSUME NEW x \in Work, Approve(x) PROVE RunningIsStreamed'
    BY <1>10 DEF Approve, TypeOK, memory, RunningIsStreamed
  <1>11. ASSUME NEW x \in Work, Reject(x) \/ HookPauses(x) PROVE RunningIsStreamed'
    BY <1>11, SameStreams DEF Reject, HookPauses, TypeOK, memory, history
  <1>12. CASE WorkerLeaves \/ BeginStop \/ UNCHANGED vars
    BY <1>12, SameStreams DEF WorkerLeaves, BeginStop, vars, stored, memory, history
  <1>13. CASE EndStop \/ Crash
    BY <1>13 DEF EndStop, Crash, RunningIsStreamed
  <1>14. CASE Startup
    <2>1. \A x \in Work : run'[x] # "running"
      BY <1>0, <1>14, MovedAway DEF Startup, TypeOK
    <2> QED
      BY <2>1 DEF RunningIsStreamed
  <1>15. ASSUME NEW j \in Jobs, TakeRefused(j) \/ SubmitRefused(j) PROVE RunningIsStreamed'
    BY <1>15, SameStreams DEF TakeRefused, SubmitRefused, memory
  <1> QED
    BY <1>1, <1>2, <1>3, <1>4, <1>5, <1>6, <1>7, <1>8, <1>9, <1>10, <1>11, <1>12, <1>13, <1>14,
       <1>15 DEF Next, JobStep
-----------------------------------------------------------------------------
(***************************************************************************)
(* The stop.                                                               *)
(***************************************************************************)
LEMMA BusyFinite == IsFiniteSet(Busy) /\ Cardinality(Busy) \in Nat
  <1>1. IsFiniteSet(Busy)
    BY FS_Subset, ConstantsAssumption DEF Busy
  <1> QED
    BY <1>1, FS_CardinalityType

LEMMA BusyShrinks ==
    ASSUME Busy' \subseteq Busy
    PROVE  Cardinality(Busy') \in Nat /\ Cardinality(Busy') <= Cardinality(Busy)
  BY BusyFinite, FS_Subset, FS_CardinalityType

LEMMA BusyGrows ==
    ASSUME NEW j \in Jobs, Busy' \subseteq Busy \cup {j}
    PROVE  Cardinality(Busy') \in Nat /\ Cardinality(Busy') <= Cardinality(Busy) + 1
  <1> DEFINE more == Busy \cup {j}
  <1>0. /\ IsFiniteSet(more)
        /\ Cardinality(more) = IF j \in Busy THEN Cardinality(Busy) ELSE Cardinality(Busy) + 1
    BY BusyFinite, FS_AddElement
  <1>1. IsFiniteSet(more) /\ Cardinality(more) <= Cardinality(Busy) + 1 /\ Busy' \in SUBSET more
    BY <1>0, BusyFinite
  <1> HIDE DEF more
  <1> QED
    BY <1>1, BusyFinite, FS_Subset, FS_CardinalityType

LEMMA InitStop == Init => StopOK
  <1> SUFFICES ASSUME Init PROVE StopOK
    OBVIOUS
  <1>1. Busy = {}
    BY DEF Init, Busy, Work
  <1>2. Cardinality(Busy) = 0
    BY <1>1, FS_EmptySet
  <1> QED
    BY <1>1, <1>2, ConstantsAssumption DEF Init, StopOK

\* A step that leaves the queue alone and occupies no worker.
LEMMA SameStop ==
    ASSUME TypeOK, StopOK, UNCHANGED <<queue, left, up>>, Busy' \subseteq Busy
    PROVE  StopOK'
  <1>1. Cardinality(Busy') + left <= Workers
    BY BusyShrinks, BusyFinite, ConstantsAssumption DEF StopOK, TypeOK
  <1>2. up' = "down" => Busy' = {}
    BY DEF StopOK
  <1> QED
    BY <1>1, <1>2 DEF StopOK

\* A worker takes a job.
LEMMA TakeStop ==
    ASSUME TypeOK, StopOK, NEW j \in Jobs, Get(j), UNCHANGED <<left, up>>,
           Busy' \subseteq Busy \cup {j}
    PROVE  StopOK'
  <1>0. /\ queue \in Seq(Items) /\ queue # <<>> /\ queue' = Tail(queue) /\ Head(queue) = j
        /\ left \in Nat /\ Workers \in Nat /\ j # Stop
    BY ConstantsAssumption DEF TypeOK, Items, Get
  <1>1. /\ Len(queue) \in Nat \ {0} /\ Len(queue') = Len(queue) - 1
        /\ \A i \in 1..Len(queue') : queue'[i] = queue[i + 1]
        /\ queue[1] = j
    BY <1>0, TailItems
  <1>2. Cardinality(Busy') + left <= Workers
    BY <1>0, BusyGrows, BusyFinite DEF Get
  <1>3. up # "down"
    BY <1>0 DEF StopOK
  <1>4. \A i \in 1..Len(queue') : i + 1 \in 1..Len(queue)
    BY <1>1
  <1>5. CASE up = "up"
    BY <1>1, <1>2, <1>4, <1>5 DEF StopOK
  <1>6. CASE up = "stopping"
    <2>1. ~(1 > Len(queue) - (Workers - left))
      BY <1>0, <1>1, <1>6 DEF StopOK
    <2>2. Len(queue') >= Workers - left
      BY <1>0, <1>1, <2>1
    <2>3. \A i \in 1..Len(queue') :
            (queue'[i] = Stop) <=> (i > Len(queue') - (Workers - left))
      <3>1. \A i \in 1..Len(queue') :
              (queue[i + 1] = Stop) <=> (i + 1 > Len(queue) - (Workers - left))
        BY <1>4, <1>6 DEF StopOK
      <3> QED
        BY <1>0, <1>1, <3>1
    <2>4. ~(left > 0)
      BY <1>0, <1>1, <1>6, <2>1 DEF StopOK
    <2> QED
      BY <1>2, <1>6, <2>2, <2>3, <2>4 DEF StopOK
  <1> QED
    BY <1>3, <1>5, <1>6 DEF TypeOK

LEMMA LeaveStop == TypeOK /\ StopOK /\ WorkerLeaves => StopOK'
  <1> SUFFICES ASSUME TypeOK, StopOK, WorkerLeaves PROVE StopOK'
    OBVIOUS
  <1>0. /\ queue \in Seq(Items) /\ queue # <<>> /\ queue' = Tail(queue)
        /\ Head(queue) = Stop /\ left \in Nat /\ Workers \in Nat /\ left' = left + 1
        /\ up' = up /\ at' = at /\ Cardinality(Busy) + left < Workers
    BY ConstantsAssumption DEF TypeOK, Items, WorkerLeaves, Get
  <1>1. /\ Len(queue) \in Nat \ {0} /\ Len(queue') = Len(queue) - 1
        /\ \A i \in 1..Len(queue') : queue'[i] = queue[i + 1]
        /\ queue[1] = Stop /\ 1 \in 1..Len(queue)
    BY <1>0, TailItems
  <1>2. Busy' = Busy
    BY <1>0 DEF Busy
  <1>3. up = "stopping"
    BY <1>1 DEF StopOK, TypeOK
  <1>4. 1 > Len(queue) - (Workers - left) /\ Len(queue) >= Workers - left
    BY <1>1, <1>3 DEF StopOK
  <1>5. Len(queue) = Workers - left
    BY <1>0, <1>1, <1>4
  <1>6. \A i \in 1..Len(queue) : queue[i] = Stop
    BY <1>0, <1>1, <1>3, <1>5 DEF StopOK
  <1>7. Len(queue') = Workers - left'
    BY <1>0, <1>1, <1>5
  <1>8. \A i \in 1..Len(queue') :
          (queue'[i] = Stop) <=> (i > Len(queue') - (Workers - left'))
    BY <1>0, <1>1, <1>6, <1>7
  <1>9. Cardinality(Busy') + left' <= Workers
    BY <1>0, <1>2, BusyFinite
  <1> QED
    BY <1>0, <1>1, <1>3, <1>7, <1>8, <1>9 DEF StopOK

LEMMA NextStop == TypeOK /\ JobsOK /\ StopOK /\ [Next]_vars => StopOK'
  <1> SUFFICES ASSUME TypeOK, JobsOK, StopOK, [Next]_vars PROVE StopOK'
    OBVIOUS
  <1>0. /\ Jobs \subseteq Work /\ Direct \subseteq Work /\ Jobs \cap Direct = {}
        /\ "idle" \notin Settled /\ "finished" \in Settled /\ "failed" \in Settled
        /\ Workers \in Nat \ {0} /\ Stop \notin Jobs
    BY ConstantsAssumption DEF Work, Settled
  <1>1. ASSUME NEW j \in Jobs, Take(j) PROVE StopOK'
    BY <1>0, <1>1, TakeStop DEF Take, TypeOK, Busy
  <1>2. ASSUME NEW j \in Jobs, TakeFails(j) PROVE StopOK'
    BY <1>0, <1>2, ReportStage, TakeStop DEF TakeFails, Busy
  <1>3. ASSUME NEW j \in Jobs, StreamEnds(j) \/ StreamRaises(j) PROVE StopOK'
    BY <1>0, <1>3, ReportStage, SameStop DEF StreamEnds, StreamRaises, Busy
  <1>4. ASSUME NEW j \in Jobs, Delivered(j) \/ DeliverRaises(j) PROVE StopOK'
    BY <1>0, <1>4, SameStop DEF Delivered, DeliverRaises, TypeOK, Busy
  <1>5. ASSUME NEW j \in Jobs, Submit(j) PROVE StopOK'
    <2>1. queue \in Seq(Items) /\ j \in Items /\ queue' = Append(queue, j) /\ j # Stop
          /\ up = "up" /\ up' = "up" /\ left' = left /\ Busy' = Busy
      BY <1>0, <1>5 DEF Submit, TypeOK, Items, Busy
    <2>2. /\ Len(queue) \in Nat /\ Len(queue') = Len(queue) + 1
          /\ \A i \in 1..Len(queue) : queue'[i] = queue[i]
          /\ queue'[Len(queue) + 1] = j
      BY <2>1, AppendItems
    <2>3. \A i \in 1..Len(queue') : i \in 1..Len(queue) \/ i = Len(queue) + 1
      BY <2>2
    <2> QED
      BY <2>1, <2>2, <2>3 DEF StopOK
  <1>6. ASSUME NEW j \in Jobs, Post(j) PROVE StopOK'
    BY <1>6, SameStop DEF Post, memory, Busy
  <1>7. ASSUME NEW x \in Direct, TicketRequest(x) \/ TicketOver(x) PROVE StopOK'
    BY <1>0, <1>7, SameStop DEF TicketRequest, TicketOver, TypeOK, Busy
  <1>8. ASSUME NEW x \in Work, CancelRun(x) \/ Approve(x) \/ Reject(x) \/ HookPauses(x)
        PROVE StopOK'
    BY <1>8, SameStop DEF CancelRun, Approve, Reject, HookPauses, memory, Busy
  <1>9. CASE BeginStop
    <2>1. /\ queue \in Seq(Items) /\ queue' = queue \o [i \in 1..Workers |-> Stop]
          /\ up = "up" /\ up' = "stopping" /\ left' = left /\ Busy' = Busy
      BY <1>9 DEF BeginStop, TypeOK, Items, stored, Busy
    <2>2. /\ Len(queue) \in Nat /\ Len(queue') = Len(queue) + Workers
          /\ \A i \in 1..Len(queue) : queue'[i] = queue[i]
          /\ \A i \in Len(queue) + 1..Len(queue') : queue'[i] = Stop
      BY <2>1, StopItems
    <2>3. left = 0 /\ \A i \in 1..Len(queue) : queue[i] # Stop
      BY <2>1 DEF StopOK
    <2>4. \A i \in 1..Len(queue') :
            (queue'[i] = Stop) <=> (i > Len(queue') - (Workers - left))
      BY <1>0, <2>2, <2>3
    <2> QED
      BY <1>0, <2>1, <2>2, <2>3, <2>4 DEF StopOK
  <1>10. CASE EndStop
    <2>1. /\ queue \in Seq(Items) /\ queue' = queue /\ up' = "down" /\ left' = 0
          /\ Busy' = Busy /\ Len(queue) = 0 /\ Cardinality(Busy) <= 0
      BY <1>0, <1>10, BusyFinite DEF EndStop, StopOK, TypeOK, Items, stored, Busy
    <2>2. Busy = {}
      BY <2>1, BusyFinite, FS_EmptySet
    <2>3. queue = <<>>
      BY <2>1
    <2> QED
      BY <1>0, <2>1, <2>2, <2>3, FS_EmptySet DEF StopOK
  <1>11. CASE Crash
    <2>1. Busy' = {} /\ queue' = <<>> /\ left' = 0 /\ up' = "down"
      BY <1>0, <1>11 DEF Crash, Busy
    <2> QED
      BY <1>0, <2>1, FS_EmptySet DEF StopOK
  <1>12. CASE WorkerLeaves
    BY <1>12, LeaveStop
  <1>13. CASE Startup
    <2>1. Busy' = Busy /\ queue' = queue /\ left' = left /\ up = "down" /\ up' = "up"
      BY <1>13 DEF Startup, memory, Busy
    <2> QED
      BY <1>0, <2>1, FS_EmptySet DEF StopOK
  <1>14. CASE UNCHANGED vars
    BY <1>14, SameStop DEF vars, memory, Busy
  <1>15. ASSUME NEW j \in Jobs, TakeRefused(j) PROVE StopOK'
    BY <1>15, TakeStop DEF TakeRefused, Busy
  <1>16. ASSUME NEW j \in Jobs, SubmitRefused(j) PROVE StopOK'
    BY <1>16, SameStop DEF SubmitRefused, memory, Busy
  <1> QED
    BY <1>1, <1>2, <1>3, <1>4, <1>5, <1>6, <1>7, <1>8, <1>9, <1>10, <1>11, <1>12, <1>13, <1>14,
       <1>15, <1>16 DEF Next, JobStep
-----------------------------------------------------------------------------
(***************************************************************************)
(* The life of a run.                                                      *)
(***************************************************************************)
LEMMA MovedLegal ==
    ASSUME NEW s \in Statuses, NEW u \in Statuses
    PROVE  Lifecycle!LegalMove(s, Moved(s, u))
  BY DEF Moved, Lifecycle!LegalMove, Lifecycle!CanTransition, CanTransition,
         AllowedTransitions, Lifecycle!AllowedTransitions, Terminal, Lifecycle!Terminal

\* A step that moves at most one run, and that one legally.
LEMMA OneMoveLegal ==
    ASSUME TypeOK, TypeOK', NEW x \in Work, \A y \in Work : y # x => run'[y] = run[y],
           Lifecycle!LegalMove(run[x], run'[x])
    PROVE  Lifecycle!Next
  BY DEF Lifecycle!Next, Lifecycle!LegalMove, TypeOK, Statuses, Lifecycle!Statuses

LEMMA UnmovedLegal ==
    ASSUME TypeOK, TypeOK', run' = run
    PROVE  Lifecycle!Next
  BY DEF Lifecycle!Next, Lifecycle!LegalMove, TypeOK, Statuses, Lifecycle!Statuses

LEMMA BeginStreamLegal ==
    ASSUME TypeOK, TypeOK', NEW x \in Work, run[x] = "none", BeginStream(x)
    PROVE  Lifecycle!Next
  <1>1. Lifecycle!LegalMove(run[x], run'[x])
    BY DEF BeginStream, TypeOK, Lifecycle!LegalMove, Lifecycle!Begins
  <1> QED
    BY <1>1, OneMoveLegal DEF BeginStream, TypeOK

LEMMA EndStreamLegal ==
    ASSUME TypeOK, TypeOK', NEW x \in Work, NEW to \in Statuses, EndStream(x, to)
    PROVE  Lifecycle!Next
  <1>1. run[x] \in Statuses /\ run'[x] = Moved(run[x], to)
    BY DEF EndStream, TypeOK
  <1>2. Lifecycle!LegalMove(run[x], run'[x])
    BY <1>1, MovedLegal
  <1> QED
    BY <1>2, OneMoveLegal DEF EndStream, TypeOK

LEMMA NextLegal == TypeOK /\ TypeOK' /\ JobsOK /\ [Next]_vars => [Lifecycle!Next]_run
  <1> SUFFICES ASSUME TypeOK, TypeOK', JobsOK, [Next]_vars PROVE Lifecycle!Next
    OBVIOUS
  <1>0. /\ Jobs \subseteq Work /\ Direct \subseteq Work
        /\ {"completed", "failed", "cancelled"} \subseteq Statuses
    BY DEF Work, Statuses
  <1>1. ASSUME NEW j \in Jobs, Take(j) PROVE Lifecycle!Next
    <2>1. Get(j) /\ j \in Items
      BY <1>1 DEF Take, Items
    <2>2. InQueue(j)
      BY <2>1, GetQueue DEF JobsOK
    <2>3. run[j] = "none"
      BY <2>2 DEF JobsOK, JobOK
    <2> QED
      BY <1>0, <1>1, <2>3, BeginStreamLegal DEF Take
  <1>2. ASSUME NEW j \in Jobs, StreamEnds(j) \/ StreamRaises(j) PROVE Lifecycle!Next
    BY <1>0, <1>2, EndStreamLegal DEF StreamEnds, StreamRaises, AnswerTicket, FailTicket
  <1>3. ASSUME NEW j \in Jobs,
               \/ TakeFails(j) \/ TakeRefused(j) \/ Delivered(j) \/ DeliverRaises(j)
               \/ Submit(j) \/ SubmitRefused(j) \/ Post(j)
        PROVE Lifecycle!Next
    BY <1>3, UnmovedLegal DEF TakeFails, TakeRefused, Delivered, DeliverRaises, Submit,
                              SubmitRefused, Post, stored
  <1>4. ASSUME NEW x \in Direct, TicketRequest(x) PROVE Lifecycle!Next
    BY <1>0, <1>4, BeginStreamLegal DEF TicketRequest
  <1>5. ASSUME NEW x \in Direct, TicketOver(x) PROVE Lifecycle!Next
    BY <1>0, <1>5, EndStreamLegal DEF TicketOver, AnswerTicket, FailTicket
  <1>6. ASSUME NEW x \in Work, CancelRun(x) PROVE Lifecycle!Next
    <2>1. Lifecycle!LegalMove(run[x], run'[x])
      BY <1>0, <1>6, MovedLegal DEF CancelRun, TypeOK
    <2> QED
      BY <1>6, <2>1, OneMoveLegal DEF CancelRun, TypeOK
  <1>7. ASSUME NEW x \in Work, Approve(x) \/ Reject(x) \/ HookPauses(x) PROVE Lifecycle!Next
    <2>1. Lifecycle!LegalMove(run[x], run'[x])
      BY <1>7 DEF Approve, Reject, HookPauses, TypeOK, Lifecycle!LegalMove,
         Lifecycle!CanTransition, Lifecycle!AllowedTransitions, Lifecycle!Terminal
    <2> QED
      BY <1>7, <2>1, OneMoveLegal DEF Approve, Reject, HookPauses, TypeOK
  <1>8. CASE WorkerLeaves \/ BeginStop \/ EndStop \/ Crash \/ UNCHANGED vars
    BY <1>8, UnmovedLegal DEF WorkerLeaves, BeginStop, EndStop, Crash, vars, stored
  <1>9. CASE Startup
    <2>1. \A x \in Work : Lifecycle!LegalMove(run[x], run'[x])
      BY <1>0, <1>9, MovedLegal DEF Startup, TypeOK
    <2> QED
      BY <2>1 DEF Lifecycle!Next, TypeOK, Statuses, Lifecycle!Statuses
  <1> QED
    BY <1>1, <1>2, <1>3, <1>4, <1>5, <1>6, <1>7, <1>8, <1>9 DEF Next, JobStep
-----------------------------------------------------------------------------
(***************************************************************************)
(* Theorems.                                                               *)
(***************************************************************************)
LEMMA InitInvariant == Init => IInv
  BY InitType, InitJobs, InitTickets, InitStop DEF IInv

LEMMA NextInvariant == IInv /\ [Next]_vars => IInv'
  BY NextType, NextJobs, NextTickets, NextRuns, NextStop DEF IInv

LEMMA Invariance == Spec => []IInv
  BY InitInvariant, NextInvariant, PTL DEF Spec

LEMMA InvariantPlaces == IInv => JobInOnePlace
  <1> SUFFICES ASSUME IInv, NEW j \in Jobs
               PROVE  /\ Cardinality(Places(j)) <= 1
                      /\ Places(j) # {} => doc[j] = "queued"
                      /\ at[j] # "idle" => doc[j] = "running"
                      /\ crashes = 0 /\ j \notin refused =>
                            /\ doc[j] = "queued" => Places(j) # {}
                            /\ doc[j] = "running" => at[j] # "idle"
    BY DEF JobInOnePlace
  <1>1. DOMAIN queue = 1..Len(queue)
    BY DEF IInv, TypeOK
  <1>2. (Places(j) # {}) <=> InQueue(j)
    BY <1>1 DEF Places, InQueue
  <1>3. /\ InQueue(j) => doc[j] = "queued"
        /\ at[j] # "idle" => doc[j] = "running"
        /\ crashes = 0 /\ j \notin refused =>
              /\ doc[j] = "queued" => InQueue(j)
              /\ doc[j] = "running" => at[j] # "idle"
        /\ OnceQueued
    BY DEF IInv, JobsOK, JobOK
  <1>4. Cardinality(Places(j)) <= 1
    <2>1. CASE Places(j) = {}
      BY <2>1, FS_EmptySet
    <2>2. CASE Places(j) # {}
      <3>1. PICK i : i \in Places(j)
        BY <2>2
      <3>2. Places(j) = {i}
        BY <1>1, <1>3, <3>1 DEF Places, OnceQueued
      <3> QED
        BY <3>2, FS_Singleton
    <2> QED
      BY <2>1, <2>2
  <1> QED
    BY <1>2, <1>3, <1>4, Zenon

LEMMA InvariantDrains == IInv => StopDrains
  <1> SUFFICES ASSUME IInv, crashes = 0, up = "down", NEW j \in Jobs \ refused
               PROVE  doc[j] \in {"none"} \cup Settled
    BY DEF StopDrains
  <1>1. queue = <<>> /\ Busy = {}
    BY DEF IInv, StopOK
  <1>2. at[j] = "idle"
    BY <1>1 DEF Busy
  <1>3. ~InQueue(j)
    BY <1>1 DEF InQueue
  <1>4. j \in Jobs /\ j \notin refused /\ JobOK(j)
    BY DEF IInv, JobsOK
  <1>5. doc[j] # "queued" /\ doc[j] # "running"
    BY <1>2, <1>3, <1>4, Zenon DEF JobOK
  <1> QED
    BY <1>4, <1>5 DEF IInv, TypeOK

\* Whatever fails, crashes or stops, for any number of jobs and workers: until a crash, and
\* unless the storage refuses its document, each accepted job is in the queue once or with
\* one worker, never in neither and never in both, and stop() returns only when it has its
\* outcome (queue.py, run_event()).
THEOREM JobsAreAccounted == Spec => []JobsAccounted
  BY Invariance, InvariantPlaces, InvariantDrains, PTL DEF JobsAccounted

\* The stored outcome never contradicts what the receiver of the webhook was told, through
\* failures of the engine, the delivery and the service; only where the storage refused the
\* outcome may it say failed after the receiver was told finished (queue.py: _worker()).
THEOREM ReceiverToldTruth == Spec => []ReceiverAgrees
  <1>1. IInv => ReceiverAgrees
    BY DEF IInv, JobsOK, JobOK, ReceiverAgrees
  <1> QED
    BY <1>1, Invariance, PTL

\* The run of a job is completed by the end of its stream and by nothing else.
CompletedIsAnswered == \A j \in Jobs : run[j] = "completed" => j \in answered

LEMMA MovedElsewhere ==
    ASSUME NEW from, NEW to, to # "completed", Moved(from, to) = "completed"
    PROVE  from = "completed"
  BY DEF Moved

LEMMA NextCompleted == TypeOK /\ CompletedIsAnswered /\ [Next]_vars => CompletedIsAnswered'
  <1> SUFFICES ASSUME TypeOK, CompletedIsAnswered, [Next]_vars
               PROVE  CompletedIsAnswered'
    OBVIOUS
  <1> USE DEF TypeOK, CompletedIsAnswered
  <1>1. ASSUME NEW j \in Jobs, JobStep(j) PROVE CompletedIsAnswered'
    <2>1. CASE Take(j)
      BY <2>1 DEF Take, BeginStream, Work
    <2>2. CASE TakeFails(j) \/ TakeRefused(j) \/ Delivered(j) \/ DeliverRaises(j)
      BY <2>2 DEF TakeFails, TakeRefused, Delivered, DeliverRaises
    <2>3. CASE StreamEnds(j)
      BY <2>3 DEF StreamEnds, AnswerTicket, EndStream, Work
    <2>4. CASE StreamRaises(j)
      BY <2>4, MovedElsewhere DEF StreamRaises, FailTicket, EndStream, Work
    <2> QED
      BY <1>1, <2>1, <2>2, <2>3, <2>4 DEF JobStep
  <1>2. ASSUME NEW x \in Direct, TicketRequest(x) \/ TicketOver(x) PROVE CompletedIsAnswered'
    <2>1. \A j \in Jobs : j # x
      BY <1>2, ConstantsAssumption
    <2>2. answered \subseteq answered' /\ \A j \in Jobs : run'[j] = run[j]
      BY <1>2, <2>1 DEF TicketRequest, TicketOver, BeginStream, AnswerTicket, FailTicket,
                        EndStream, Work
    <2> QED
      BY <2>2
  <1>3. ASSUME NEW x \in Work, CancelRun(x) PROVE CompletedIsAnswered'
    BY <1>3, MovedElsewhere DEF CancelRun, history, Work
  <1>4. ASSUME NEW x \in Work, Approve(x) \/ Reject(x) \/ HookPauses(x)
        PROVE  CompletedIsAnswered'
    BY <1>4 DEF Approve, Reject, HookPauses, history, Work
  <1>5. CASE Startup
    BY <1>5, MovedElsewhere DEF Startup, history, Work
  <1>6. CASE UNCHANGED <<run, answered>>
    BY <1>6
  <1> QED
    BY <1>1, <1>2, <1>3, <1>4, <1>5, <1>6
       DEF Next, Submit, SubmitRefused, Post, WorkerLeaves, BeginStop, EndStop, Crash, vars,
           stored, history

\* No job is stored or reported as finished, and no run of one completed, unless the engine
\* has ended its stream.
THEOREM OnlyAnsweredFinish == Spec => []FinishedIsAnswered
  <1>1. Init => CompletedIsAnswered
    BY DEF Init, CompletedIsAnswered, Work
  <1>2. IInv /\ CompletedIsAnswered => FinishedIsAnswered
    BY DEF IInv, JobsOK, JobOK, CompletedIsAnswered, FinishedIsAnswered
  <1> QED
    BY <1>1, <1>2, NextCompleted, TypeCorrect, Invariance, PTL DEF Spec

\* While the service is up, a run recorded as running has a stream, except for those an
\* operator has approved after their stream (run_ticket_stream(), approve_run()).
THEOREM RunningHasStream == Spec => []RunningIsStreamed
  BY Invariance, PTL DEF IInv

\* Unless two streams share a ticket, its reply is that of the run it names.
THEOREM TicketHoldsOwnReply == Spec => []TicketNamesItsReply
  BY Invariance, PTL DEF IInv, TicketsOK

\* Workers, operators, the hook and restarts together implement the run state machine.
THEOREM LifecycleImplemented == Spec => ImplementsLifecycle
  <1>1. Init => Lifecycle!Init
    BY DEF Init, Lifecycle!Init
  <1>2. IInv /\ IInv' /\ [Next]_vars => [Lifecycle!Next]_run
    BY NextLegal DEF IInv
  <1> QED
    BY <1>1, <1>2, Invariance, PTL DEF Spec, ImplementsLifecycle, Lifecycle!Spec
\* The run of a ticket or job is not revived or re-labelled once it is finished, and none is
\* completed while an operator is asked, although operators act on runs nobody executes.
THEOREM TicketRunsEndOnce ==
    Spec => Lifecycle!TerminalIsFinal /\ Lifecycle!PausedNeverCompletes
  <1> DEFINE Final == \A r \in Work : run[r] \in Lifecycle!Terminal => run'[r] = run[r]
             Paused == \A r \in Work : run[r] = "waiting_approval" => run'[r] # "completed"
  <1>1. TypeOK /\ [Lifecycle!Next]_run => [Final]_run /\ [Paused]_run
    BY DEF TypeOK, Lifecycle!Next, Lifecycle!LegalMove, Lifecycle!Begins,
           Lifecycle!CanTransition, Lifecycle!AllowedTransitions, Lifecycle!Terminal
  <1>2. Spec => ImplementsLifecycle
    BY LifecycleImplemented
  <1>3. Spec => []TypeOK
    BY TypeCorrect
  <1> QED
    BY <1>1, <1>2, <1>3, PTL
       DEF ImplementsLifecycle, Lifecycle!Spec, Lifecycle!TerminalIsFinal,
           Lifecycle!PausedNeverCompletes
-----------------------------------------------------------------------------
(***************************************************************************)
(* The queue, the workers and the webhook implement JobDelivery.           *)
(***************************************************************************)

\* What JobDelivery sees of the answers.
JobAnswers == answered \cap Jobs

\* A step that JobDelivery does not see.
LEMMA UnseenStep ==
    ASSUME UNCHANGED <<doc, received, refused>>, JobAnswers' = JobAnswers
    PROVE  UNCHANGED Delivery!vars
  BY DEF Delivery!vars, JobAnswers

LEMMA NoJobAnswers ==
    ASSUME NEW x \in Direct, answered' \in {answered, answered \cup {x}}
    PROVE  JobAnswers' = JobAnswers
  BY ConstantsAssumption DEF JobAnswers

\* Document and receiver of a job whose document is refused, with or without an answer.
LEMMA RefusedDelivers ==
    ASSUME TypeOK, NEW j \in Jobs, j \notin refused, UNCHANGED received,
           NEW known \in SUBSET Delivery!Unwritten(doc[j]), Refused(j, known),
           \/ JobAnswers' = JobAnswers
           \/ /\ doc[j] = "running" /\ received[j] = "none" /\ j \notin answered
              /\ JobAnswers' = JobAnswers \cup {j},
           "finished" \in known => j \in JobAnswers'
    PROVE  [Delivery!Next]_Delivery!vars
  <1>1. Delivery!Loses(j)
    BY DEF Refused, Delivery!Loses, Delivery!Unanswered, JobAnswers
  <1> QED
    BY <1>1 DEF Delivery!Next

\* The outcome of a job that is at work: stored at once, or on its way to the receiver.
LEMMA StreamDelivers ==
    ASSUME TypeOK, NEW j \in Jobs, JobOK(j), at[j] = "agent", UNCHANGED received,
           NEW s \in Settled, Report(j, s),
           answered' = IF s = "finished" THEN answered \cup {j} ELSE answered
    PROVE  [Delivery!Next]_Delivery!vars
  <1>1. doc[j] = "running" /\ received[j] = "none" /\ j \notin answered /\ j \notin refused
    BY DEF JobOK
  <1>2. JobAnswers' = IF s = "finished" THEN JobAnswers \cup {j} ELSE JobAnswers
    BY DEF JobAnswers
  <1>3. CASE j \in Webhook
    <2>1. UNCHANGED <<doc, refused>>
      BY <1>1, <1>3 DEF Report, TypeOK
    <2>2. CASE s = "finished"
      <3>1. Delivery!Answers(j)
        BY <1>1, <1>2, <2>1, <2>2 DEF Delivery!Answers, Delivery!Unanswered, JobAnswers
      <3> QED
        BY <1>1, <3>1 DEF Delivery!Next
    <2>3. CASE s # "finished"
      BY <1>2, <2>1, <2>3, UnseenStep
    <2> QED
      BY <2>2, <2>3
  <1>4. CASE j \notin Webhook
    <2>1. Persist(j, s)
      BY <1>4 DEF Report
    <2>2. s \in Delivery!Outcomes
      BY DEF Settled, Delivery!Outcomes
    <2>3. CASE doc' = [doc EXCEPT ![j] = s] /\ UNCHANGED refused
      <3>1. Delivery!Settles(j, s)
        BY <1>1, <1>2, <2>3 DEF Delivery!Settles, Delivery!Unanswered, JobAnswers, Settled
      <3> QED
        BY <1>1, <2>2, <3>1 DEF Delivery!Next
    <2>4. CASE Refused(j, {"running", s, "failed"})
      <3>1. {"running", s, "failed"} \in SUBSET Delivery!Unwritten(doc[j])
        BY <1>1 DEF Delivery!Unwritten, Settled
      <3>2. "finished" \in {"running", s, "failed"} => j \in JobAnswers'
        BY <1>2
      <3> QED
        BY <1>1, <1>2, <2>4, <3>1, <3>2, RefusedDelivers
    <2> QED
      BY <2>1, <2>3, <2>4 DEF Persist
  <1> QED
    BY <1>3, <1>4

\* A worker without an answer of its own stores the outcome s of a job it has begun.
LEMMA PersistDelivers ==
    ASSUME TypeOK, NEW j \in Jobs, JobOK(j), NEW s \in Settled, Persist(j, s),
           doc[j] = "running" \/ (doc[j] = "queued" /\ s = "failed"),
           j \notin refused, UNCHANGED <<received, answered>>,
           received[j] \in {"none", s}, s = "finished" => j \in answered
    PROVE  [Delivery!Next]_Delivery!vars
  <1>1. JobAnswers' = JobAnswers
    BY DEF JobAnswers
  <1>2. CASE doc' = [doc EXCEPT ![j] = s] /\ UNCHANGED refused
    <2>1. Delivery!Settles(j, s) /\ s \in Delivery!Outcomes
      BY <1>2 DEF Delivery!Settles, Delivery!Outcomes, JobAnswers, Settled
    <2> QED
      BY <2>1 DEF Delivery!Next
  <1>3. CASE Refused(j, {"running", s, "failed"})
    <2>1. {"running", s, "failed"} \in SUBSET Delivery!Unwritten(doc[j])
      BY DEF Delivery!Unwritten, Settled
    <2>2. "finished" \in {"running", s, "failed"} => j \in JobAnswers'
      BY <1>1 DEF JobAnswers
    <2> QED
      BY <1>1, <1>3, <2>1, <2>2, RefusedDelivers
  <1> QED
    BY <1>2, <1>3 DEF Persist

LEMMA JobStepDelivers ==
    ASSUME TypeOK, JobsOK, NEW j \in Jobs, JobStep(j)
    PROVE  [Delivery!Next]_Delivery!vars
  <1>0. JobOK(j) /\ OnceQueued /\ j \in Items /\ {"finished", "failed"} = Settled
    BY DEF JobsOK, Items, Settled
  <1>1. Get(j) => doc[j] = "queued" /\ received[j] = "none" /\ j \notin refused
    BY <1>0, GetQueue DEF JobOK
  <1>2. CASE Take(j)
    <2>1. Delivery!Starts(j) /\ j \notin refused
      BY <1>1, <1>2 DEF Take, Delivery!Starts
    <2> QED
      BY <2>1 DEF Delivery!Next
  <1>3. CASE TakeFails(j)
    <2>1. UNCHANGED <<received, answered>> /\ Get(j) /\ Report(j, "failed")
      BY <1>3 DEF TakeFails
    <2>2. CASE j \in Webhook
      <3>1. Delivery!Starts(j)
        BY <1>1, <2>1, <2>2 DEF Report, Delivery!Starts
      <3> QED
        BY <1>1, <2>1, <3>1 DEF Delivery!Next
    <2>3. CASE j \notin Webhook
      <3>1. Persist(j, "failed")
        BY <2>1, <2>3 DEF Report
      <3> QED
        BY <1>0, <1>1, <2>1, <3>1, PersistDelivers
    <2> QED
      BY <2>2, <2>3
  <1>4. CASE StreamEnds(j)
    BY <1>0, <1>4, StreamDelivers DEF StreamEnds, AnswerTicket
  <1>5. CASE StreamRaises(j)
    BY <1>0, <1>5, StreamDelivers DEF StreamRaises, FailTicket
  <1>6. CASE Delivered(j)
    <2>1. /\ at[j] \in Settled /\ doc[j] = "running" /\ received[j] \in {"none", at[j]}
          /\ at[j] = "finished" => j \in answered
          /\ j \notin refused /\ Persist(j, at[j]) /\ UNCHANGED <<received, answered>>
      BY <1>0, <1>6 DEF Delivered, JobOK, Settled
    <2> QED
      BY <1>0, <2>1, PersistDelivers
  <1>7. CASE DeliverRaises(j)
    <2>1. /\ doc[j] = "running" /\ received[j] = "none" /\ j \notin refused
          /\ Persist(j, "failed") /\ UNCHANGED <<received, answered>>
      BY <1>0, <1>7 DEF DeliverRaises, JobOK, Settled
    <2> QED
      BY <1>0, <2>1, PersistDelivers
  <1>8. CASE TakeRefused(j)
    <2>1. UNCHANGED <<received, answered>> /\ Get(j) /\ JobAnswers' = JobAnswers
          /\ Refused(j, {"queued", "running", "failed"})
      BY <1>8 DEF TakeRefused, JobAnswers
    <2>2. {"queued", "running", "failed"} \in SUBSET Delivery!Unwritten(doc[j])
      BY <1>1, <2>1 DEF Delivery!Unwritten
    <2> QED
      BY <1>1, <2>1, <2>2, RefusedDelivers
  <1> QED
    BY <1>2, <1>3, <1>4, <1>5, <1>6, <1>7, <1>8 DEF JobStep

LEMMA NextDelivers == TypeOK /\ JobsOK /\ [Next]_vars => [Delivery!Next]_Delivery!vars
  <1> SUFFICES ASSUME TypeOK, JobsOK, [Next]_vars PROVE [Delivery!Next]_Delivery!vars
    OBVIOUS
  <1>0. \A j \in Jobs : j \in refused => at[j] = "idle" /\ doc[j] # "none"
    BY DEF JobsOK, JobOK
  <1>1. ASSUME NEW j \in Jobs, Submit(j) PROVE [Delivery!Next]_Delivery!vars
    <2>1. Delivery!Accepts(j) /\ j \notin refused
      BY <1>0, <1>1 DEF Submit, Delivery!Accepts, history
    <2> QED
      BY <2>1 DEF Delivery!Next
  <1>2. ASSUME NEW j \in Jobs, Post(j) PROVE [Delivery!Next]_Delivery!vars
    <2>1. /\ at[j] \in Settled /\ doc[j] = "running" /\ j \notin refused
          /\ at[j] = IF j \in answered THEN "finished" ELSE "failed"
      BY <1>2 DEF Post, JobsOK, JobOK, Settled
    <2>2. Delivery!Tells(j)
      BY <1>2, <2>1 DEF Post, Delivery!Tells, stored, history
    <2> QED
      BY <2>1, <2>2 DEF Delivery!Next
  <1>3. ASSUME NEW x \in Direct, TicketRequest(x) \/ TicketOver(x)
        PROVE  [Delivery!Next]_Delivery!vars
    BY <1>3, NoJobAnswers, UnseenStep DEF TicketRequest, TicketOver, AnswerTicket, FailTicket
  <1>4. CASE UNCHANGED <<doc, received, answered, refused>>
    BY <1>4, UnseenStep DEF JobAnswers
  <1>5. ASSUME NEW j \in Jobs, SubmitRefused(j) PROVE [Delivery!Next]_Delivery!vars
    <2>1. /\ doc[j] = "none" /\ j \notin refused /\ Refused(j, {"queued"})
          /\ UNCHANGED received /\ JobAnswers' = JobAnswers
      BY <1>0, <1>5 DEF SubmitRefused, JobAnswers
    <2>2. {"queued"} \in SUBSET Delivery!Unwritten(doc[j])
      BY <2>1 DEF Delivery!Unwritten
    <2> QED
      BY <2>1, <2>2, RefusedDelivers
  <1> QED
    BY <1>1, <1>2, <1>3, <1>4, <1>5, JobStepDelivers
       DEF Next, CancelRun, Approve, Reject, HookPauses, WorkerLeaves, BeginStop, EndStop,
           Crash, Startup, vars, stored, memory, history

\* The document, the receiver and the agent, through failures of the engine, of deliver() and
\* of the writes of the document, crashes and stops, for any number of jobs: run_event(),
\* _worker() and mark_failed() keep JobDelivery's promise.
THEOREM DeliveryImplemented == Spec => ImplementsDelivery
  <1>1. Init => Delivery!Init
    BY DEF Init, Delivery!Init
  <1>2. IInv /\ [Next]_vars => [Delivery!Next]_Delivery!vars
    BY NextDelivers DEF IInv
  <1> QED
    BY <1>1, <1>2, Invariance, PTL DEF Spec, ImplementsDelivery, Delivery!Spec

\* What the promise comes to: no outcome that a step has left stored, or told, is ever taken
\* back; the two are the same, unless the storage refused the outcome that was told, in
\* which case the document may say failed; and a finished job has been answered.
THEOREM OutcomesAreFinal == Spec => Delivery!OutcomeIsFinal /\ []Delivery!OneOutcome
  <1> DEFINE Kept == \A j \in Jobs : /\ doc[j] \in Delivery!Outcomes => doc'[j] = doc[j]
                                     /\ received[j] # "none" => received'[j] = received[j]
  <1>1. IInv => Delivery!OneOutcome
    BY DEF IInv, JobsOK, JobOK, TypeOK, Settled, Delivery!OneOutcome, Delivery!Outcomes
  <1>2. TypeOK /\ [Delivery!Next]_Delivery!vars => [Kept]_Delivery!vars
    <2> SUFFICES ASSUME TypeOK, Delivery!Next, NEW j \in Jobs
                 PROVE  /\ doc[j] \in Delivery!Outcomes => doc'[j] = doc[j]
                        /\ received[j] # "none" => received'[j] = received[j]
      OBVIOUS
    <2>1. PICK k \in Jobs :
            \/ Delivery!Accepts(k) \/ Delivery!Starts(k) \/ Delivery!Answers(k)
            \/ Delivery!Tells(k)
            \/ \E outcome \in Delivery!Outcomes : Delivery!Settles(k, outcome)
            \/ Delivery!Loses(k)
      BY DEF Delivery!Next
    <2> QED
      BY <2>1 DEF TypeOK, Delivery!Accepts, Delivery!Starts, Delivery!Answers, Delivery!Tells,
                  Delivery!Settles, Delivery!Unanswered, Delivery!Outcomes, Delivery!Loses,
                  Delivery!Unwritten
  <1>3. IInv /\ [Next]_vars => [Kept]_Delivery!vars
    BY <1>2, NextDelivers DEF IInv
  <1> QED
    BY <1>1, <1>3, Invariance, PTL DEF Spec, Delivery!OutcomeIsFinal
=============================================================================
