-------------------------- MODULE RunStateMachine --------------------------
(***************************************************************************)
(* What DeepTicket promises about the life of an InvestigationRun, seen    *)
(* from outside: a run is created once, follows the transition table, and  *)
(* stays for ever in the terminal status it reaches.  ChatRuns and         *)
(* IngressJobs, whose steps move a run as a whole, are shown to implement  *)
(* this module.  RunDocs, where saves of two processes may overlap, says   *)
(* with LegalMove which of its steps follow the table.                     *)
(***************************************************************************)
EXTENDS RunStatus

CONSTANT Runs       \* identifiers of InvestigationRuns

VARIABLE status     \* status[r]: the stored status of run r

TypeOK == status \in [Runs -> Statuses]

Init == status = [r \in Runs |-> "none"]

\* create_run(), or begin_investigation_run(): created and started at once, and failed
\* at once when the chat has been deleted meanwhile.
Begins(from, to) == from = "none" /\ to \in {"created", "running", "failed"}

LegalMove(from, to) == from = to \/ Begins(from, to) \/ CanTransition(from, to)

\* One step of the system may move several runs: the recovery at startup does.
Next ==
    /\ status' \in [Runs -> Statuses]
    /\ \A r \in Runs : LegalMove(status[r], status'[r])

Spec == Init /\ [][Next]_status
-----------------------------------------------------------------------------
\* A terminal status is final: nothing resurrects or re-labels a finished run
\* (transitions.py: "终态 ... 不可再转出").
TerminalIsFinal ==
    [][\A r \in Runs : status[r] \in Terminal => status'[r] = status[r]]_status

\* A run that waits for an operator cannot be reported as completed: it first has
\* to run again (transitions.py: waiting_approval -> completed is not in the table).
PausedNeverCompletes ==
    [][\A r \in Runs : status[r] = "waiting_approval" => status'[r] # "completed"]_status
=============================================================================
