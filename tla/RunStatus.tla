----------------------------- MODULE RunStatus -----------------------------
(***************************************************************************)
(* The statuses of an InvestigationRun and the table of transitions that   *)
(* InvestigationRunStore.transition() consults before it saves a run       *)
(* (investigation/models.py, investigation/transitions.py).  The status    *)
(* "none" stands for a run that has not been created.                      *)
(***************************************************************************)

\* RunStatus, plus "none".
Statuses == {"none", "created", "queued", "running", "waiting_approval",
             "completed", "failed", "blocked", "cancelled"}

\* TERMINAL_RUN_STATUSES.
Terminal == {"completed", "failed", "blocked", "cancelled"}

\* A run that exists and may still change: InvestigationRun.is_terminal() negated.
Active == {"created", "queued", "running", "waiting_approval"}

\* ALLOWED_RUN_TRANSITIONS.
AllowedTransitions ==
    ({"created"} \X {"queued", "running", "cancelled"})
      \cup ({"queued"} \X {"running", "cancelled"})
      \cup ({"running"} \X {"waiting_approval", "completed", "failed",
                            "blocked", "cancelled"})
      \cup ({"waiting_approval"} \X {"running", "failed", "blocked", "cancelled"})

\* validate_transition(): neither of its two raises happens.
CanTransition(from, to) ==
    /\ from \notin Terminal
    /\ <<from, to>> \in AllowedTransitions

\* A transition whose RunTransitionError the caller catches and logs.
Moved(from, to) == IF CanTransition(from, to) THEN to ELSE from
=============================================================================
