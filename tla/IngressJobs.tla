---------------------------- MODULE IngressJobs ----------------------------
(***************************************************************************)
(* Work that does not come from a chat: events of other systems, which     *)
(* become jobs in the queue of IngressRunner (ingress_runner.py,           *)
(* layers/ingress/queue.py), and tickets that a client sends and streams   *)
(* (POST /api/ticket).  Both go through run_ticket_stream(), which creates *)
(* an InvestigationRun without a chat; the operators act on it through     *)
(* api/routers/runs.py, and the PreToolUse hook may pause it.              *)
(*                                                                         *)
(* The queue and the workers are in memory; job, run and ticket documents  *)
(* are in storage.  An action is a stretch of code of the event loop: a    *)
(* worker suspends while it waits for an item, for the engine and for the  *)
(* receiver of the result.  The storage may refuse any write of a job      *)
(* document; the failure of another write is a failure of the stream.      *)
(***************************************************************************)
EXTENDS RunStatus, FiniteSets, Naturals, Sequences

CONSTANTS Jobs,        \* identifiers of jobs; bounds how many are submitted
          Direct,      \* tickets streamed to a client
          Webhook,     \* jobs whose route reports by webhook, the others by store_only
          TicketOf,    \* ticket_id (the external_id of an event) of each piece of work
          Workers,     \* queue_workers, at least one
          Stop,        \* the None that stop() puts into the queue
          NoWork,
          MaxFaults    \* bound on crashes of the service and refused job documents

Work    == Jobs \cup Direct
Tickets == {TicketOf[x] : x \in Work}

ASSUME ConstantsAssumption ==
    /\ IsFiniteSet(Jobs)
    /\ Jobs \cap Direct = {}
    /\ Webhook \subseteq Jobs
    /\ DOMAIN TicketOf = Work
    /\ Workers \in Nat \ {0}
    /\ Stop \notin Jobs
    /\ NoWork \notin Work
    /\ MaxFaults \in Nat

VARIABLES
    \* in storage
    doc,        \* status of the job document
    run,        \* status of the InvestigationRun of each piece of work
    ticketRun,  \* run_id of the ticket document: the work that began last
    ticketDone, \* the work whose reply the ticket document holds, once "finished"
    \* in the memory of the service
    queue,      \* items of the asyncio.Queue
    at,         \* where run_ticket_stream() or run_event() is suspended
    left,       \* workers that have taken their None
    up,         \* "up", "stopping" (in stop()), "down"
    \* outside
    received,   \* status that the receiver of the webhook has got
    \* observation only
    answered,   \* work whose stream the engine has ended
    late,       \* work whose run an operator has approved after its stream
    shared,     \* tickets begun last while another stream worked on them
    refused,    \* jobs whose document, or its index entry, the storage refused to write
    crashes

stored  == <<doc, run, ticketRun, ticketDone>>
memory  == <<queue, at, left>>
history == <<answered, late, shared, refused, crashes>>
vars    == <<stored, memory, up, received, history>>

Settled == {"finished", "failed"}

Stages ==
    {"idle",     \* no code runs for it
     "agent"}    \* in `async for chunk in self._run_stream()`
    \cup Settled \* in handler.deliver(), with that status in the payload

TypeOK ==
    /\ doc \in [Jobs -> {"none", "queued", "running"} \cup Settled]
    /\ run \in [Work -> Statuses]
    /\ ticketRun \in [Tickets -> Work \cup {NoWork}]
    /\ ticketDone \in [Tickets -> Work \cup {NoWork}]
    /\ queue \in Seq(Jobs \cup {Stop})
    /\ at \in [Work -> Stages]
    /\ left \in 0..Workers
    /\ up \in {"up", "stopping", "down"}
    /\ received \in [Jobs -> {"none"} \cup Settled]
    /\ answered \subseteq Work
    /\ late \subseteq Work
    /\ shared \subseteq Tickets
    /\ refused \subseteq Jobs
    /\ crashes \in 0..MaxFaults

Init ==
    /\ doc = [j \in Jobs |-> "none"]
    /\ run = [x \in Work |-> "none"]
    /\ ticketRun = [e \in Tickets |-> NoWork]
    /\ ticketDone = [e \in Tickets |-> NoWork]
    /\ queue = <<>>
    /\ at = [x \in Work |-> "idle"]
    /\ left = 0
    /\ up = "up"
    /\ received = [j \in Jobs |-> "none"]
    /\ answered = {}
    /\ late = {}
    /\ shared = {}
    /\ refused = {}
    /\ crashes = 0
-----------------------------------------------------------------------------
(***************************************************************************)
(* run_ticket_stream().                                                    *)
(***************************************************************************)

Busy == {j \in Jobs : at[j] # "idle"}

\* A fault: the old reply stays in the ticket document.
BeginStreamMutant(x) ==
    /\ run' = [run EXCEPT ![x] = "running"]
    /\ ticketRun' = [ticketRun EXCEPT ![TicketOf[x]] = x]
    /\ UNCHANGED <<ticketDone, shared>>

\* The run is begun and started, and the ticket document written anew.
BeginStream(x) ==
    /\ run' = [run EXCEPT ![x] = "running"]
    /\ ticketRun' = [ticketRun EXCEPT ![TicketOf[x]] = x]
    /\ ticketDone' = [ticketDone EXCEPT ![TicketOf[x]] = NoWork]
    /\ shared' = IF \E y \in Work : at[y] = "agent" /\ TicketOf[y] = TicketOf[x]
                 THEN shared \cup {TicketOf[x]} ELSE shared \ {TicketOf[x]}

\* A fault: the run of the ticket is forced into its final status.
EndStreamMutant(x, to) ==
    /\ run' = [run EXCEPT ![x] = to]
    /\ UNCHANGED <<ticketRun, shared>>

\* The finally: the run is moved to its final status if it can be.
EndStream(x, to) ==
    /\ run' = [run EXCEPT ![x] = Moved(@, to)]
    /\ UNCHANGED <<ticketRun, shared>>

\* The engine ends the stream: the reply is written into the ticket document.
AnswerTicket(x) ==
    /\ EndStream(x, "completed")
    /\ ticketDone' = [ticketDone EXCEPT ![TicketOf[x]] = x]
    /\ answered' = answered \cup {x}

\* A fault: the run is moved only when the stream ends.
FailTicketMutant(x) == UNCHANGED <<run, ticketRun, ticketDone, shared, answered>>

\* The engine raises: the ticket document is left as it is.
FailTicket(x) ==
    /\ EndStream(x, "failed")
    /\ UNCHANGED <<ticketDone, answered>>
-----------------------------------------------------------------------------
(***************************************************************************)
(* The queue, its workers and run_event().                                 *)
(***************************************************************************)

\* The storage refuses to write the document of job j, when it says one of `known`, or
\* its index entry.  A worker calls mark_failed(), which stores "failed", over whatever the
\* document says, or is refused too.
Refused(j, known) ==
    /\ crashes + Cardinality(refused) < MaxFaults
    /\ \E s \in known : doc' = [doc EXCEPT ![j] = s]
    /\ refused' = refused \cup {j}

\* A worker has the outcome s of a running job and stores it.
Persist(j, s) ==
    \/ doc' = [doc EXCEPT ![j] = s] /\ UNCHANGED refused
    \/ Refused(j, {"running", s, "failed"})

\* submit(): LLM and project are there; the document is written, the item put.  The
\* HTTP server takes no requests while it stops.
Submit(j) ==
    /\ up = "up"
    /\ doc[j] = "none"
    /\ doc' = [doc EXCEPT ![j] = "queued"]
    /\ queue' = Append(queue, j)
    /\ UNCHANGED <<run, ticketRun, ticketDone, at, left, up, received, history>>

\* submit() raises when the index entry is refused: a document and no item.
SubmitRefused(j) ==
    /\ up = "up"
    /\ doc[j] = "none"
    /\ Refused(j, {"queued"})
    /\ UNCHANGED <<run, ticketRun, ticketDone, memory, up, received,
                   answered, late, shared, crashes>>

\* A fault: the item is looked at and stays in the queue.
GetMutant(item) ==
    /\ queue # <<>>
    /\ Head(queue) = item
    /\ Cardinality(Busy) + left < Workers
    /\ UNCHANGED queue

\* Some worker waits in queue.get() and gets the item.
Get(item) ==
    /\ queue # <<>>
    /\ Head(queue) = item
    /\ Cardinality(Busy) + left < Workers
    /\ queue' = Tail(queue)

\* A fault: the outcome of a job without webhook is not stored.
ReportMutant(j, s) ==
    /\ at' = [at EXCEPT ![j] = IF j \in Webhook THEN s ELSE "idle"]
    /\ doc' = [doc EXCEPT ![j] = "running"]
    /\ UNCHANGED refused

\* run_event() has the outcome: store_only stores it at once, a webhook is called first.
Report(j, s) ==
    IF j \in Webhook
    THEN /\ at' = [at EXCEPT ![j] = s]
         /\ doc' = [doc EXCEPT ![j] = "running"]
         /\ UNCHANGED refused
    ELSE /\ at' = [at EXCEPT ![j] = "idle"]
         /\ Persist(j, s)

\* A worker takes a job: the document says running, and the stream begins.
Take(j) ==
    /\ Get(j)
    /\ doc' = [doc EXCEPT ![j] = "running"]
    /\ at' = [at EXCEPT ![j] = "agent"]
    /\ BeginStream(j)
    /\ UNCHANGED <<left, up, received, answered, late, refused, crashes>>

\* A worker takes a job, and the document that says so is refused: no run.
TakeRefused(j) ==
    /\ Get(j)
    /\ Refused(j, {"queued", "running", "failed"})
    /\ UNCHANGED <<run, ticketRun, ticketDone, at, left, up, received,
                   answered, late, shared, crashes>>

\* A worker takes a job, and its project or the LLM configuration is gone: no run.
TakeFails(j) ==
    /\ Get(j)
    /\ Report(j, "failed")
    /\ UNCHANGED <<run, ticketRun, ticketDone, left, up, received,
                   answered, late, shared, crashes>>

StreamEnds(j) ==
    /\ at[j] = "agent"
    /\ AnswerTicket(j)
    /\ Report(j, "finished")
    /\ UNCHANGED <<queue, left, up, received, late, crashes>>

\* A fault: the status keeps its default.
StreamRaisesMutant(j) ==
    /\ at[j] = "agent"
    /\ FailTicket(j)
    /\ Report(j, "finished")
    /\ UNCHANGED <<queue, left, up, received, late, crashes>>

StreamRaises(j) ==
    /\ at[j] = "agent"
    /\ FailTicket(j)
    /\ Report(j, "failed")
    /\ UNCHANGED <<queue, left, up, received, late, crashes>>

\* The receiver gets the POST of WebhookOutbound.deliver().
Post(j) ==
    /\ at[j] \in Settled
    /\ received[j] = "none"
    /\ received' = [received EXCEPT ![j] = at[j]]
    /\ UNCHANGED <<stored, memory, up, history>>

\* A fault: a delivery that fails makes the job a failed one.
DeliveredMutant(j) ==
    /\ at[j] \in Settled
    /\ \E s \in {at[j], "failed"} : doc' = [doc EXCEPT ![j] = s]
    /\ at' = [at EXCEPT ![j] = "idle"]
    /\ UNCHANGED <<run, ticketRun, ticketDone, queue, left, up, received, history>>

\* deliver() returns, ok or not: a response, or an httpx.HTTPError whether or not the
\* receiver got the call.  The result is stored, or refused: then the worker stores "failed"
\* over it, whatever the receiver was told.
Delivered(j) ==
    /\ at[j] \in Settled
    /\ Persist(j, at[j])
    /\ at' = [at EXCEPT ![j] = "idle"]
    /\ UNCHANGED <<run, ticketRun, ticketDone, queue, left, up, received,
                   answered, late, shared, crashes>>

\* deliver() raises before it sends (an invalid URL, headers that are no object): the
\* worker calls mark_failed(), which keeps the reply of the stored document, none.
DeliverRaises(j) ==
    /\ at[j] \in Settled
    /\ received[j] = "none"
    /\ Persist(j, "failed")
    /\ at' = [at EXCEPT ![j] = "idle"]
    /\ UNCHANGED <<run, ticketRun, ticketDone, queue, left, up, received,
                   answered, late, shared, crashes>>

\* A worker takes a None and returns.
WorkerLeaves ==
    /\ Get(Stop)
    /\ left' = left + 1
    /\ UNCHANGED <<stored, at, up, received, history>>
-----------------------------------------------------------------------------
(***************************************************************************)
(* POST /api/ticket.                                                       *)
(***************************************************************************)

TicketRequest(x) ==
    /\ up = "up"
    /\ run[x] = "none"
    /\ BeginStream(x)
    /\ at' = [at EXCEPT ![x] = "agent"]
    /\ UNCHANGED <<doc, queue, left, up, received, answered, late, refused, crashes>>

\* The generator of a direct ticket returns, raises, or is closed because its client has
\* gone: then neither `except` applies and the finally finds its default, COMPLETED.
TicketOver(x) ==
    /\ at[x] = "agent"
    /\ at' = [at EXCEPT ![x] = "idle"]
    /\ \/ AnswerTicket(x)
       \/ FailTicket(x)
       \/ EndStream(x, "completed") /\ UNCHANGED <<ticketDone, answered>>
    /\ UNCHANGED <<doc, queue, left, up, received, late, refused, crashes>>
-----------------------------------------------------------------------------
(***************************************************************************)
(* Operators and the hook.                                                 *)
(***************************************************************************)

\* POST /api/runs/{id}/cancel for a run without a chat: the stream goes on.
CancelRun(x) ==
    /\ up = "up"
    /\ run[x] \in Active
    /\ run' = [run EXCEPT ![x] = Moved(@, "cancelled")]
    /\ UNCHANGED <<doc, ticketRun, ticketDone, memory, up, received, history>>

\* POST /api/runs/{id}/approve and /reject for a run without a chat.
Approve(x) ==
    /\ up = "up"
    /\ run[x] = "waiting_approval"
    /\ run' = [run EXCEPT ![x] = "running"]
    /\ late' = IF at[x] = "agent" THEN late ELSE late \cup {x}
    /\ UNCHANGED <<doc, ticketRun, ticketDone, memory, up, received,
                   answered, shared, refused, crashes>>

Reject(x) ==
    /\ up = "up"
    /\ run[x] = "waiting_approval"
    /\ run' = [run EXCEPT ![x] = "blocked"]
    /\ UNCHANGED <<doc, ticketRun, ticketDone, memory, up, received, history>>

\* The hook pauses the run of an agent that has not finished, whether or not the service
\* still listens to it.
HookPauses(x) ==
    /\ x \notin answered
    /\ run[x] = "running"
    /\ run' = [run EXCEPT ![x] = "waiting_approval"]
    /\ UNCHANGED <<doc, ticketRun, ticketDone, memory, up, received, history>>
-----------------------------------------------------------------------------
(***************************************************************************)
(* Start and stop of the service.                                          *)
(***************************************************************************)

\* IngressJobQueue.stop(), after the HTTP server has finished its requests.
BeginStop ==
    /\ up = "up"
    /\ \A x \in Direct : at[x] = "idle"
    /\ up' = "stopping"
    /\ queue' = queue \o [i \in 1..Workers |-> Stop]
    /\ UNCHANGED <<stored, at, left, received, history>>

\* gather() returns: all workers have left.
EndStop ==
    /\ up = "stopping"
    /\ left = Workers
    /\ up' = "down"
    /\ left' = 0
    /\ UNCHANGED <<stored, queue, at, received, history>>

Crash ==
    /\ up # "down"
    /\ crashes + Cardinality(refused) < MaxFaults
    /\ up' = "down"
    /\ crashes' = crashes + 1
    /\ queue' = <<>>
    /\ at' = [x \in Work |-> "idle"]
    /\ left' = 0
    /\ UNCHANGED <<stored, received, answered, late, shared, refused>>

\* startup(): fail_orphaned_runs().  Nothing looks at the job documents.
Startup ==
    /\ up = "down"
    /\ up' = "up"
    /\ run' = [x \in Work |-> Moved(run[x], "failed")]
    /\ UNCHANGED <<doc, ticketRun, ticketDone, memory, received, history>>
-----------------------------------------------------------------------------
\* Steps of the workers for a job.
JobStep(j) ==
    \/ Take(j) \/ TakeFails(j) \/ TakeRefused(j)
    \/ StreamEnds(j) \/ StreamRaises(j)
    \/ Delivered(j) \/ DeliverRaises(j)

Next ==
    \/ \E j \in Jobs : Submit(j) \/ SubmitRefused(j) \/ JobStep(j) \/ Post(j)
    \/ \E x \in Direct : TicketRequest(x) \/ TicketOver(x)
    \/ \E x \in Work : CancelRun(x) \/ Approve(x) \/ Reject(x) \/ HookPauses(x)
    \/ WorkerLeaves
    \/ BeginStop
    \/ EndStop
    \/ Crash
    \/ Startup

Spec == Init /\ [][Next]_vars

\* The loop runs ready workers, the engine bounds a stream by agent_timeout_seconds, and
\* the HTTP client a delivery by timeout_seconds.
FairSpec ==
    /\ Spec
    /\ \A j \in Jobs : WF_vars(JobStep(j))
    /\ WF_vars(WorkerLeaves)
    /\ WF_vars(EndStop)
-----------------------------------------------------------------------------
(***************************************************************************)
(* What holds.                                                             *)
(***************************************************************************)

Lifecycle == INSTANCE RunStateMachine WITH Runs <- Work, status <- run

\* Workers, operators, the hook and restarts together move each run only as the run
\* state machine allows (chat_orchestrator.py 223-238, runs.py, store.py).
ImplementsLifecycle == Lifecycle!Spec

Delivery == INSTANCE JobDelivery WITH status <- doc, told <- received,
                                      answered <- answered \cap Jobs, lost <- refused

\* For a job, the queue, the workers, the webhook and the store keep the promise of
\* JobDelivery, whatever fails or crashes in between: the engine, the receiver, the calls
\* of deliver() and the writes of the document (ingress_runner.py, registry.py, queue.py).
ImplementsDelivery == Delivery!Spec

Places(j) == {i \in DOMAIN queue : queue[i] = j}

\* Until a crash, and unless the storage refuses its document, a queued job is in the queue,
\* once, and a running job with a worker: no job is lost, doubled or worked on twice; even
\* then nothing works on a job whose document says otherwise.
JobInOnePlace ==
    \A j \in Jobs :
        /\ Cardinality(Places(j)) <= 1
        /\ Places(j) # {} => doc[j] = "queued"
        /\ at[j] # "idle" => doc[j] = "running"
        /\ crashes = 0 /\ j \notin refused =>
              /\ doc[j] = "queued" => Places(j) # {}
              /\ doc[j] = "running" => at[j] # "idle"

\* A stop waits for every accepted job (queue.py: stop(), app_factory.py: lifespan).
StopDrains ==
    (crashes = 0 /\ up = "down") =>
        \A j \in Jobs \ refused : doc[j] \in {"none"} \cup Settled

\* No accepted job is out of sight: it is in its one place, and a stop waits for it.
JobsAccounted == JobInOnePlace /\ StopDrains

\* What the receiver was told is what the stored document says, once it says it, unless the
\* storage refused that document: then mark_failed() may have stored "failed" over it.
ReceiverAgrees ==
    \A j \in Jobs : (doc[j] \in Settled /\ received[j] # "none") =>
        doc[j] = received[j] \/ (j \in refused /\ doc[j] = "failed")

\* A job is stored and reported as finished, and its run as completed, only if the engine
\* has ended its stream, whatever the operators, the hook and the delivery did meanwhile.
\* (The run of a streamed ticket is completed by its client going away, too.)
FinishedIsAnswered ==
    \A j \in Jobs :
        "finished" \in {doc[j], received[j]} \/ run[j] = "completed" => j \in answered

\* A run that is recorded as running is streamed, unless an operator has approved it
\* after its stream ended: the run API then sets it running again and nobody executes it.
RunningIsStreamed ==
    up # "down" => \A x \in Work : run[x] = "running" => at[x] = "agent" \/ x \in late

\* As long as no two streams share a ticket, the reply in its document is that of the run
\* it names.
TicketNamesItsReply ==
    \A e \in Tickets \ shared : ticketDone[e] \in {NoWork, ticketRun[e]}

\* An accepted job is finished or failed in the end, unless the service crashes or the
\* storage refuses its document.
JobsSettle ==
    \A j \in Jobs : doc[j] = "queued" ~>
                        (doc[j] \in Settled \/ crashes > 0 \/ j \in refused)
=============================================================================
