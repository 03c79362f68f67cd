---------------------------- MODULE JobDelivery ----------------------------
(***************************************************************************)
(* What DeepTicket promises about a job it has accepted, seen from outside *)
(* by those who read its document, who receive its webhook, and who follow *)
(* the agent: it is taken once, gets one outcome, is a finished one only   *)
(* with an answer of the agent, and its document and its receiver are not  *)
(* told different things, unless the document itself is lost: then it says *)
(* "failed" at worst, and nothing more is done for the job.  IngressJobs   *)
(* is shown to implement this.                                             *)
(***************************************************************************)

CONSTANT Jobs       \* identifiers of jobs

VARIABLES status,   \* status[j]: the status in the job document
          told,     \* told[j]: the outcome that the receiver of the webhook has got
          answered, \* jobs for which the agent has given its answer
          lost      \* jobs whose document could not be written

vars == <<status, told, answered, lost>>

Outcomes == {"finished", "failed"}

TypeOK ==
    /\ status \in [Jobs -> {"none", "queued", "running"} \cup Outcomes]
    /\ told \in [Jobs -> {"none"} \cup Outcomes]
    /\ answered \subseteq Jobs
    /\ lost \subseteq Jobs

Init ==
    /\ status = [j \in Jobs |-> "none"]
    /\ told = [j \in Jobs |-> "none"]
    /\ answered = {}
    /\ lost = {}

Accepts(j) ==
    /\ status[j] = "none"
    /\ status' = [status EXCEPT ![j] = "queued"]
    /\ UNCHANGED <<told, answered, lost>>

Starts(j) ==
    /\ status[j] = "queued"
    /\ status' = [status EXCEPT ![j] = "running"]
    /\ UNCHANGED <<told, answered, lost>>

Unanswered(j) == status[j] = "running" /\ told[j] = "none" /\ j \notin answered

\* The agent answers a job that is at work and not yet reported.
Answers(j) ==
    /\ Unanswered(j)
    /\ answered' = answered \cup {j}
    /\ UNCHANGED <<status, told, lost>>

\* The receiver is told once, before the outcome is stored, and that the job is finished
\* exactly if it has been answered.
Tells(j) ==
    /\ status[j] = "running"
    /\ told[j] = "none"
    /\ told' = [told EXCEPT ![j] = IF j \in answered THEN "finished" ELSE "failed"]
    /\ UNCHANGED <<status, answered, lost>>

\* The outcome is stored: what the receiver was told, if anything.  An answer may be stored
\* as it comes; and one may be lost, and the job fail, if the receiver knows nothing of it.
Settles(j, outcome) ==
    /\ status[j] = "running" \/ (status[j] = "queued" /\ outcome = "failed")
    /\ told[j] \in {"none", outcome}
    /\ status' = [status EXCEPT ![j] = outcome]
    /\ \/ /\ outcome = "finished" => j \in answered
          /\ UNCHANGED answered
       \/ /\ Unanswered(j) /\ outcome = "finished"
          /\ answered' = answered \cup {j}
    /\ UNCHANGED <<told, lost>>

\* Statuses of a document that could not be written, by what it said before.
Unwritten(s) == CASE s = "none"    -> {"queued"}
                  [] s = "queued"  -> {"queued", "running", "failed"}
                  [] s = "running" -> {"running", "finished", "failed"}
                  [] OTHER         -> {}

\* The document cannot be written as it should be, an answer that comes with it included:
\* it does not say finished without one, but may say failed whatever was told.
Loses(j) ==
    /\ lost' = lost \cup {j}
    /\ \E s \in Unwritten(status[j]) : /\ status' = [status EXCEPT ![j] = s]
                                       /\ s = "finished" => j \in answered'
    /\ \/ UNCHANGED answered
       \/ Unanswered(j) /\ answered' = answered \cup {j}
    /\ UNCHANGED told

Next ==
    \E j \in Jobs \ lost :
        \/ Accepts(j) \/ Starts(j) \/ Answers(j) \/ Tells(j)
        \/ \E outcome \in Outcomes : Settles(j, outcome)
        \/ Loses(j)

Spec == Init /\ [][Next]_vars
-----------------------------------------------------------------------------
\* Neither what the document says in the end nor what the receiver was told is taken back.
OutcomeIsFinal ==
    [][\A j \in Jobs : /\ status[j] \in Outcomes => status'[j] = status[j]
                       /\ told[j] # "none" => told'[j] = told[j]]_vars

\* Nothing is told of a job, and no outcome stored, that has not been accepted; what both
\* say is the same, unless the document was lost and says failed; and finished means
\* answered.
OneOutcome ==
    \A j \in Jobs :
        /\ status[j] \in {"none", "queued"} => told[j] = "none" /\ j \notin answered
        /\ status[j] \in Outcomes /\ told[j] # "none" =>
              status[j] = told[j] \/ (j \in lost /\ status[j] = "failed")
        /\ "finished" \in {status[j], told[j]} => j \in answered
=============================================================================
