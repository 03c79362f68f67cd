-------------------------- MODULE MCToolGovernance --------------------------
(***************************************************************************)
(* ToolGovernance on a small instance: the tool t1 needs approval, the     *)
(* tool t2 too, the tool t3 is denied, the tool t4 allowed; two agents.    *)
(***************************************************************************)
EXTENDS ToolGovernance, TLC

CONSTANTS t1, t2, t3, t4

AllTools == {t1, t2, t3, t4}

AllPolicy == [t \in AllTools |-> CASE t \in {t1, t2} -> "require_approval"
                                    [] t = t3 -> "deny"
                                    [] t = t4 -> "allow"]

\* Agents are interchangeable.
Symmetry == Permutations(Agents)
=============================================================================
