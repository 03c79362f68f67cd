--------------------------- MODULE MCIngressJobs ---------------------------
(***************************************************************************)
(* IngressJobs on a small instance: two jobs and a direct ticket, where    *)
(* job j1 and the direct ticket d are about the same ticket.               *)
(***************************************************************************)
EXTENDS IngressJobs, TLC

CONSTANTS j1, j2, d, e, f

TwoTickets == (j1 :> e) @@ (j2 :> f) @@ (d :> e)
=============================================================================
