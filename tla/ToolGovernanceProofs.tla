------------------------ MODULE ToolGovernanceProofs ------------------------
(***************************************************************************)
(* What ToolGovernance guarantees for any agents, tools, policy and number *)
(* of requests.                                                            *)
(***************************************************************************)
EXTENDS ToolGovernance, FiniteSetTheorems, WellFoundedInduction, TLAPS

\* Requests and grants exist only for tools that need approval, and hooks work for such
\* tools; a uuid that is not used has no answer.
Traced ==
    /\ \A i \in Requested : Policy[tool[i]] = "require_approval"
    /\ \A t \in grants : Policy[t] = "require_approval"
    /\ \A a \in Agents : pc[a] # "idle" => /\ a \in agents
                                          /\ call[a] \in Tools
                                          /\ Policy[call[a]] = "require_approval"
    /\ \A i \in Ids \ Requested : answer[i] = "pending"

\* Hooks that have read the grant of tool t and not yet used it.
Holders(t) == {a \in Agents : pc[a] = "consume" /\ call[a] = t}

\* How many executions of tool t are still to come from the approvals so far.
Claim(t) == IF t \in grants THEN Cardinality(agents) ELSE Cardinality(Holders(t))

UsesBounded ==
    \A t \in Tools : uses[t] + Claim(t) <= Cardinality(agents) * Cardinality(Approved(t))

GovInv == TypeOK /\ Traced /\ DeniedNeverRuns /\ UsesBounded

LEMMA RequestsFinite ==
    ASSUME NEW S \in SUBSET Ids PROVE IsFiniteSet(S) /\ Cardinality(S) \in Nat
  <1>1. IsFiniteSet(Ids)
    BY FS_Interval, ConstantsAssumption DEF Ids
  <1> QED
    BY <1>1, FS_Subset, FS_CardinalityType

LEMMA HeldIsCardinality ==
    ASSUME NEW G, NEW t PROVE Cardinality(G \cap {t}) = IF t \in G THEN 1 ELSE 0
  <1>1. CASE t \in G
    <2>1. G \cap {t} = {t}
      BY <1>1
    <2> QED
      BY <1>1, <2>1, FS_Singleton
  <1>2. CASE t \notin G
    <2>1. G \cap {t} = {}
      BY <1>2
    <2> QED
      BY <1>2, <2>1, FS_EmptySet
  <1> QED
    BY <1>1, <1>2

LEMMA ApprovedFinite ==
    ASSUME NEW t PROVE IsFiniteSet(Approved(t)) /\ Cardinality(Approved(t)) \in Nat
  <1>1. Approved(t) \in SUBSET Ids
    BY DEF Approved, Requested
  <1> QED
    BY <1>1, RequestsFinite

LEMMA AgentsFinite ==
    ASSUME NEW S \in SUBSET Agents PROVE IsFiniteSet(S) /\ Cardinality(S) \in Nat
  BY ConstantsAssumption, FS_Subset, FS_CardinalityType

\* The run has a conversation, and hooks work for its conversations only.
LEMMA AgentsCounted ==
    ASSUME TypeOK, Traced, NEW t
    PROVE  /\ Cardinality(agents) \in Nat /\ 1 <= Cardinality(agents)
           /\ Cardinality(Holders(t)) \in Nat /\ Cardinality(Holders(t)) <= Cardinality(agents)
           /\ Claim(t) \in Nat
  <1>1. agents \in SUBSET Agents /\ stream \in agents /\ Holders(t) \subseteq agents
    BY DEF TypeOK, Traced, Holders
  <1>2. /\ IsFiniteSet(agents) /\ Cardinality(agents) \in Nat
        /\ Cardinality(Holders(t)) \in Nat /\ Cardinality(Holders(t)) <= Cardinality(agents)
    BY <1>1, AgentsFinite, FS_Subset
  <1>3. {stream} \subseteq agents /\ Cardinality({stream}) = 1
    BY <1>1, FS_Singleton
  <1>4. 1 <= Cardinality(agents)
    BY <1>2, <1>3, FS_Subset
  <1> QED
    BY <1>2, <1>4 DEF Claim

LEMMA Times ==
    ASSUME NEW n \in Nat, NEW x \in Nat
    PROVE  /\ n * x \in Nat
           /\ n * (x + 1) = n * x + n
           /\ (n + 1) * x = n * x + x
           /\ 1 <= n /\ n <= n * x => 1 <= x
  <1>1. n * x \in Nat /\ n * (x + 1) = n * x + n /\ (n + 1) * x = n * x + x
    OBVIOUS
  <1>2. x = 0 => n * x = 0
    OBVIOUS
  <1> QED
    BY <1>1, <1>2

LEMMA TypeStep == TypeOK /\ Traced /\ [Next]_vars => TypeOK'
  <1> SUFFICES ASSUME TypeOK, Traced, [Next]_vars PROVE TypeOK'
    OBVIOUS
  <1> USE DEF TypeOK
  <1>1. ASSUME NEW to \in Statuses PROVE Moved(status, to) \in Statuses
    BY DEF Moved
  <1>2. {"waiting_approval", "running", "blocked", "completed", "cancelled", "failed"}
          \subseteq Statuses
    BY DEF Statuses
  <1>3. ASSUME NEW a \in Agents, NEW t \in Tools, CallTool(a, t) PROVE TypeOK'
    BY <1>3 DEF CallTool, Asks
  <1>4. ASSUME NEW a \in Agents, ConsumeGrant(a) PROVE TypeOK'
    <2>1. call[a] \in Tools
      BY <1>4 DEF ConsumeGrant, Traced
    <2>2. uses' \in [Tools -> Nat]
      BY <1>4, <2>1 DEF ConsumeGrant
    <2> QED
      BY <1>4, <2>1, <2>2 DEF ConsumeGrant, Answer
  <1>5. ASSUME NEW a \in Agents, ReadPending(a) PROVE TypeOK'
    BY <1>5 DEF ReadPending, AfterPending
  <1>6. ASSUME NEW a \in Agents, CreateRequest(a) PROVE TypeOK'
    BY <1>6 DEF CreateRequest
  <1>7. ASSUME NEW a \in Agents, MarkWaiting(a) \/ HookDies(a) PROVE TypeOK'
    BY <1>1, <1>2, <1>7 DEF MarkWaiting, HookDies, Answer
  <1>8. CASE Approve \/ Reject
    <2>1. \A i \in Found : i \in Ids /\ tool[i] \in Tools
      BY DEF Found, Pending, Requested
    <2>2. raced' \in BOOLEAN
      BY <1>8 DEF Approve, Reject, Crosses
    <2> QED
      BY <1>2, <1>8, <2>1, <2>2 DEF Approve, Reject, hook
  <1>9. CASE Resume \/ Complete \/ \E to \in {"cancelled", "failed"} : Abort(to)
    BY <1>2, <1>9 DEF Resume, Complete, Abort, hook
  <1>10. CASE UNCHANGED vars
    BY <1>10 DEF vars, hook
  <1> QED
    BY <1>3, <1>4, <1>5, <1>6, <1>7, <1>8, <1>9, <1>10 DEF Next, Hook

LEMMA TracedStep ==
    TypeOK /\ Traced /\ DeniedNeverRuns /\ [Next]_vars => (Traced /\ DeniedNeverRuns)'
  <1> SUFFICES ASSUME TypeOK, Traced, DeniedNeverRuns, [Next]_vars
               PROVE  (Traced /\ DeniedNeverRuns)'
    OBVIOUS
  <1> USE DEF Traced, DeniedNeverRuns, TypeOK
  <1>1. ASSUME NEW a \in Agents, NEW t \in Tools, CallTool(a, t)
        PROVE  (Traced /\ DeniedNeverRuns)'
    BY <1>1 DEF CallTool, Asks, Requested
  <1>2. ASSUME NEW a \in Agents, ConsumeGrant(a) PROVE (Traced /\ DeniedNeverRuns)'
    <2>1. call[a] \in Tools /\ Policy[call[a]] = "require_approval"
      BY <1>2 DEF ConsumeGrant
    <2> QED
      BY <1>2, <2>1 DEF ConsumeGrant, Answer, Requested
  <1>3. ASSUME NEW a \in Agents, ReadPending(a) PROVE (Traced /\ DeniedNeverRuns)'
    BY <1>3 DEF ReadPending, Requested
  <1>4. ASSUME NEW a \in Agents, CreateRequest(a) PROVE (Traced /\ DeniedNeverRuns)'
    BY <1>4, ConstantsAssumption DEF CreateRequest, Requested
  <1>5. ASSUME NEW a \in Agents, MarkWaiting(a) \/ HookDies(a)
        PROVE  (Traced /\ DeniedNeverRuns)'
    BY <1>5 DEF MarkWaiting, HookDies, Answer, Requested
  <1>6. CASE Approve \/ Reject
    BY <1>6 DEF Approve, Reject, hook, Found, Pending, Requested
  <1>7. CASE Resume \/ Complete \/ \E to \in {"cancelled", "failed"} : Abort(to)
    BY <1>7 DEF Resume, Complete, Abort, hook, Requested
  <1>8. CASE UNCHANGED vars
    BY <1>8 DEF vars, hook, Requested
  <1> QED
    BY <1>1, <1>2, <1>3, <1>4, <1>5, <1>6, <1>7, <1>8 DEF Next, Hook

\* A step that approves nothing, opens no conversation and lets no hook but those of a
\* grant that is there read it.
LEMMA UsesKept ==
    ASSUME TypeOK, Traced, UsesBounded, agents' = agents, NEW t \in Tools,
           uses'[t] = uses[t], Approved(t)' = Approved(t), t \in grants' <=> t \in grants,
           t \in grants \/ Holders(t)' \subseteq Holders(t)
    PROVE  uses'[t] + Claim(t)' <= Cardinality(agents') * Cardinality(Approved(t)')
  <1>1. uses[t] + Claim(t) <= Cardinality(agents) * Cardinality(Approved(t))
    BY DEF UsesBounded
  <1>2. uses[t] \in Nat
    BY DEF TypeOK
  <1>3. CASE t \in grants
    BY <1>1, <1>3 DEF Claim
  <1>4. CASE t \notin grants
    <2>1. Holders(t) \in SUBSET Agents /\ Holders(t)' \in SUBSET Agents
      BY DEF Holders
    <2>2. /\ Cardinality(Holders(t)') <= Cardinality(Holders(t))
          /\ Cardinality(Holders(t)') \in Nat /\ Cardinality(Holders(t)) \in Nat
      BY <1>4, <2>1, AgentsFinite, FS_Subset
    <2>3. /\ Claim(t) = Cardinality(Holders(t)) /\ Claim(t)' = Cardinality(Holders(t)')
      BY <1>4 DEF Claim
    <2>4. Cardinality(agents) * Cardinality(Approved(t)) \in Nat
      BY AgentsCounted, ApprovedFinite, Times
    <2> QED
      BY <1>1, <1>2, <2>2, <2>3, <2>4
  <1> QED
    BY <1>3, <1>4

LEMMA UsesStep == TypeOK /\ Traced /\ UsesBounded /\ [Next]_vars => UsesBounded'
  <1> SUFFICES ASSUME TypeOK, Traced, UsesBounded, [Next]_vars, NEW t \in Tools
               PROVE  uses'[t] + Claim(t)' <= Cardinality(agents') * Cardinality(Approved(t)')
    BY DEF UsesBounded
  <1> DEFINE n == Cardinality(agents)
             x == Cardinality(Approved(t))
             Bounded == uses'[t] + Claim(t)' <= Cardinality(agents') * Cardinality(Approved(t)')
  <1>0. /\ n \in Nat /\ 1 <= n /\ x \in Nat /\ n * x \in Nat
        /\ uses \in [Tools -> Nat] /\ uses[t] \in Nat /\ Claim(t) \in Nat
        /\ uses[t] + Claim(t) <= n * x
        /\ pc \in [Agents -> {"idle", "consume", "pending", "create", "mark"}]
        /\ call \in [Agents -> Tools \cup {NoTool}]
    BY AgentsCounted, ApprovedFinite, Times DEF TypeOK, UsesBounded
  <1>1. ASSUME UNCHANGED <<tool, answer>> PROVE Approved(t)' = Approved(t)
    BY <1>1 DEF Approved, Requested
  <1> SUFFICES Bounded
    OBVIOUS
  <1>2. ASSUME NEW a \in Agents, NEW u \in Tools, CallTool(a, u) PROVE Bounded
    <2>1. t \in grants \/ Holders(t)' \subseteq Holders(t)
      <3>1. CASE u \in grants
        BY <1>0, <1>2, <3>1 DEF CallTool, Asks, Holders
      <3>2. CASE u \notin grants
        BY <1>0, <1>2, <3>2 DEF CallTool, Asks, Holders
      <3> QED
        BY <3>1, <3>2
    <2>2. UNCHANGED <<tool, answer, grants, agents, uses>>
      BY <1>2 DEF CallTool
    <2> QED
      BY <1>1, <2>1, <2>2, UsesKept
  <1>3. ASSUME NEW a \in Agents, ConsumeGrant(a) PROVE Bounded
    <2>1. /\ pc[a] = "consume" /\ call[a] \in Tools
          /\ grants' = grants \ {call[a]} /\ uses' = [uses EXCEPT ![call[a]] = @ + 1]
          /\ pc' = [pc EXCEPT ![a] = "idle"] /\ call' = [call EXCEPT ![a] = NoTool]
          /\ UNCHANGED <<tool, answer, agents>>
      BY <1>3 DEF ConsumeGrant, Answer, Traced
    <2>2. Holders(t)' = Holders(t) \ {a}
      BY <1>0, <2>1 DEF Holders
    <2>3. CASE t # call[a]
      <3>1. uses'[t] = uses[t] /\ (t \in grants' <=> t \in grants)
        BY <1>0, <2>1, <2>3
      <3> QED
        BY <1>1, <2>1, <2>2, <3>1, UsesKept
    <2>4. CASE t = call[a]
      <3>1. uses'[t] = uses[t] + 1 /\ t \notin grants' /\ a \in Holders(t)
        BY <1>0, <2>1, <2>4 DEF Holders
      <3>2. Holders(t) \in SUBSET Agents
        BY DEF Holders
      <3>3. /\ Cardinality(Holders(t)') = Cardinality(Holders(t)) - 1
            /\ Cardinality(Holders(t)) \in Nat
        BY <2>2, <3>1, <3>2, AgentsFinite, FS_RemoveElement
      <3>4. Cardinality(Holders(t)) <= Claim(t)
        BY <3>3, AgentsCounted DEF Claim
      <3>5. Claim(t)' = Cardinality(Holders(t)')
        BY <3>1 DEF Claim
      <3>6. uses'[t] + Claim(t)' <= n * x
        BY <1>0, <3>1, <3>3, <3>4, <3>5
      <3> QED
        BY <1>1, <2>1, <3>6
    <2> QED
      BY <2>3, <2>4
  <1>4. ASSUME NEW a \in Agents, ReadPending(a) \/ MarkWaiting(a) \/ HookDies(a) PROVE Bounded
    <2>1. Holders(t)' \subseteq Holders(t) /\ UNCHANGED <<tool, answer, grants, agents, uses>>
      BY <1>0, <1>4 DEF ReadPending, AfterPending, MarkWaiting, HookDies, Answer, Holders
    <2> QED
      BY <1>1, <2>1, UsesKept
  <1>5. ASSUME NEW a \in Agents, CreateRequest(a) PROVE Bounded
    <2>1. Holders(t)' \subseteq Holders(t) /\ UNCHANGED <<answer, grants, agents, uses>>
      BY <1>0, <1>5 DEF CreateRequest, Holders
    <2>2. PICK i \in Ids \ Requested : tool' = [tool EXCEPT ![i] = call[a]]
      BY <1>5 DEF CreateRequest
    <2>3. answer[i] = "pending" /\ \A j \in Ids \ {i} : tool'[j] = tool[j]
      BY <2>2 DEF Traced, TypeOK
    <2>4. Approved(t)' = Approved(t)
      BY <2>1, <2>2, <2>3 DEF Approved, Requested
    <2> QED
      BY <2>1, <2>4, UsesKept
  <1>6. CASE Approve
    <2>1. PICK i \in Found : /\ answer' = [answer EXCEPT ![i] = "approved"]
                             /\ grants' = grants \cup {tool[i]}
      BY <1>6 DEF Approve
    <2>2. /\ i \in Requested /\ answer[i] = "pending" /\ UNCHANGED <<tool, agents, pc, call, uses>>
          /\ answer \in [Ids -> {"pending", "approved", "rejected"}]
      BY <1>6 DEF Approve, hook, Found, Pending, TypeOK
    <2>3. CASE tool[i] = t
      <3>1. Approved(t)' = Approved(t) \cup {i} /\ i \notin Approved(t) /\ t \in grants'
        BY <2>1, <2>2, <2>3 DEF Approved, Requested
      <3>2. Cardinality(Approved(t)') = x + 1
        BY <3>1, ApprovedFinite, FS_AddElement
      <3>3. n * (x + 1) = n * x + n /\ Claim(t)' = n
        BY <1>0, <2>2, <3>1, Times DEF Claim
      <3>4. uses[t] + n <= n * x + n
        BY <1>0
      <3> QED
        BY <2>2, <3>2, <3>3, <3>4
    <2>4. CASE tool[i] # t
      <3>1. Approved(t)' = Approved(t) /\ (t \in grants' <=> t \in grants)
        BY <2>1, <2>2, <2>4 DEF Approved, Requested
      <3>2. Holders(t)' = Holders(t)
        BY <2>2 DEF Holders
      <3> QED
        BY <2>2, <3>1, <3>2, UsesKept
    <2> QED
      BY <2>3, <2>4
  <1>7. CASE Reject
    <2>1. PICK i \in Found : answer' = [answer EXCEPT ![i] = "rejected"]
      BY <1>7 DEF Reject
    <2>2. answer[i] = "pending" /\ UNCHANGED <<tool, agents, grants, pc, call, uses>>
      BY <1>7 DEF Reject, hook, Found, Pending
    <2>3. Approved(t)' = Approved(t) /\ Holders(t)' = Holders(t)
      BY <2>1, <2>2 DEF Approved, Requested, Holders, TypeOK
    <2> QED
      BY <2>2, <2>3, UsesKept
  <1>8. CASE Resume
    <2>1. /\ agents' = agents \cup {stream'} /\ stream' \in {stream} \cup (Agents \ agents)
          /\ UNCHANGED <<tool, answer, grants, pc, call, uses>>
      BY <1>8 DEF Resume, hook
    <2>2. Holders(t)' = Holders(t) /\ Approved(t)' = Approved(t)
      BY <1>1, <2>1 DEF Holders
    <2>3. CASE stream' \in agents
      <3>1. agents' = agents
        BY <2>1, <2>3
      <3> QED
        BY <2>1, <2>2, <3>1, UsesKept
    <2>4. CASE stream' \notin agents
      <3>1. Cardinality(agents') = n + 1
        BY <2>1, <2>4, AgentsFinite, FS_AddElement DEF TypeOK
      <3>2. (n + 1) * x = n * x + x /\ (n <= n * x => 1 <= x)
        BY <1>0, Times
      <3>3. CASE t \in grants
        <4>1. Claim(t) = n /\ Claim(t)' = n + 1
          BY <2>1, <3>1, <3>3 DEF Claim
        <4>2. 1 <= x
          BY <1>0, <3>2, <4>1
        <4>3. uses[t] + (n + 1) <= n * x + x
          BY <1>0, <4>1, <4>2
        <4> QED
          BY <2>1, <2>2, <3>1, <3>2, <4>1, <4>3
      <3>4. CASE t \notin grants
        <4>1. Claim(t)' = Claim(t)
          BY <2>1, <2>2, <3>4 DEF Claim
        <4>2. uses[t] + Claim(t) <= n * x + x
          BY <1>0
        <4> QED
          BY <2>1, <2>2, <3>1, <3>2, <4>1, <4>2
      <3> QED
        BY <3>3, <3>4
    <2> QED
      BY <2>3, <2>4
  <1>9. CASE Complete \/ \E to \in {"cancelled", "failed"} : Abort(to)
    <2>1. UNCHANGED <<tool, answer, grants, agents, pc, call, uses>>
      BY <1>9 DEF Complete, Abort, hook
    <2>2. Holders(t)' = Holders(t)
      BY <2>1 DEF Holders
    <2> QED
      BY <1>1, <2>1, <2>2, UsesKept
  <1>10. CASE UNCHANGED vars
    <2>1. UNCHANGED <<tool, answer, grants, agents, pc, call, uses>>
      BY <1>10 DEF vars, hook
    <2>2. Holders(t)' = Holders(t)
      BY <2>1 DEF Holders
    <2> QED
      BY <1>1, <2>1, <2>2, UsesKept
  <1> HIDE DEF Bounded
  <1> QED
    BY <1>2, <1>3, <1>4, <1>5, <1>6, <1>7, <1>8, <1>9, <1>10 DEF Next, Hook

LEMMA GovInvariant == Spec => []GovInv
  <1>1. Init => GovInv
    <2> SUFFICES ASSUME Init PROVE GovInv
      OBVIOUS
    <2>1. TypeOK /\ Traced /\ DeniedNeverRuns
      BY DEF Init, TypeOK, Traced, DeniedNeverRuns, Requested, Statuses
    <2>2. ASSUME NEW t \in Tools
          PROVE  uses[t] + Claim(t) <= Cardinality(agents) * Cardinality(Approved(t))
      <3>1. Holders(t) = {} /\ t \notin grants /\ uses[t] = 0
        BY DEF Init, Holders
      <3>2. Claim(t) = 0
        BY <3>1, FS_EmptySet DEF Claim
      <3>3. Cardinality(agents) * Cardinality(Approved(t)) \in Nat
        BY <2>1, AgentsCounted, ApprovedFinite, Times
      <3> QED
        BY <3>1, <3>2, <3>3
    <2> QED
      BY <2>1, <2>2 DEF GovInv, UsesBounded
  <1>2. GovInv /\ [Next]_vars => GovInv'
    BY TypeStep, TracedStep, UsesStep DEF GovInv
  <1> QED
    BY <1>1, <1>2, PTL DEF Spec

\* Every reachable state of ToolGovernance is well typed.
THEOREM TypeCorrect == Spec => []TypeOK
  BY GovInvariant, PTL DEF GovInv

\* The tools that run are those the policy allows and those approved, as often as approved
\* for each conversation of the run: for every number of conversations whose hooks race
\* for a grant, of tools, requests and hook crashes (consume_tool_grant(),
\* issue_tool_grant(), evaluate_context()).
THEOREM ToolsRunAsDecided == Spec => []RunsAsDecided
  <1>1. GovInv => RunsAsDecided
    <2> SUFFICES ASSUME GovInv, NEW t \in Tools
                 PROVE  uses[t] + Cardinality(grants \cap {t})
                            <= Cardinality(agents) * Cardinality(Approved(t))
      BY DEF GovInv, RunsAsDecided, GrantUsedOnce
    <2>1. /\ uses[t] + Claim(t) <= Cardinality(agents) * Cardinality(Approved(t))
          /\ uses[t] \in Nat /\ Claim(t) \in Nat
      BY AgentsCounted DEF GovInv, UsesBounded, TypeOK
    <2>2. Cardinality(grants \cap {t}) = IF t \in grants THEN 1 ELSE 0
      BY HeldIsCardinality
    <2>3. Cardinality(grants \cap {t}) <= Claim(t)
      BY <2>1, <2>2, AgentsCounted DEF GovInv, Claim
    <2>4. Cardinality(agents) * Cardinality(Approved(t)) \in Nat
      BY AgentsCounted, ApprovedFinite, Times DEF GovInv
    <2> QED
      BY <2>1, <2>2, <2>3, <2>4
  <1> QED
    BY <1>1, GovInvariant, PTL
-----------------------------------------------------------------------------
(***************************************************************************)
(* A run that waits can be decided.                                        *)
(***************************************************************************)

\* A hook that is about to pause the run has a pending request to do it for, unless the
\* last such request is decided at this moment.
PausesForRequest ==
    \A a \in Agents : pc[a] = "mark" => raced \/ \E i \in Pending : tool[i] = call[a]

WaitInv == PausesForRequest /\ WaitingHasRequest

LEMMA WaitStep == TypeOK /\ Traced /\ WaitInv /\ [Next]_vars => WaitInv'
  <1> SUFFICES ASSUME TypeOK, Traced, WaitInv, [Next]_vars PROVE WaitInv'
    OBVIOUS
  <1> USE DEF WaitInv, PausesForRequest, WaitingHasRequest, TypeOK
  <1>1. ASSUME UNCHANGED <<tool, answer>>
        PROVE  Requested' = Requested /\ Pending' = Pending /\ Found' = Found
    BY <1>1 DEF Requested, Pending, Found, InWindow
  <1>2. ASSUME NEW a \in Agents, NEW t \in Tools, CallTool(a, t) PROVE WaitInv'
    BY <1>1, <1>2 DEF CallTool, Asks
  <1>3. ASSUME NEW a \in Agents, ConsumeGrant(a) PROVE WaitInv'
    BY <1>1, <1>3 DEF ConsumeGrant, Answer
  <1>4. ASSUME NEW a \in Agents, ReadPending(a) PROVE WaitInv'
    BY <1>1, <1>4 DEF ReadPending, AfterPending, Found
  <1>5. ASSUME NEW a \in Agents, CreateRequest(a) PROVE WaitInv'
    <2>1. PICK i \in Ids \ Requested : tool' = [tool EXCEPT ![i] = call[a]]
      BY <1>5 DEF CreateRequest
    <2>2. call[a] \in Tools /\ answer' = answer /\ answer[i] = "pending"
      BY <1>5, <2>1 DEF CreateRequest, Traced
    <2>3. Requested' = Requested \cup {i}
      BY <2>1, <2>2, ConstantsAssumption DEF Requested
    <2>4. /\ Pending' = Pending \cup {i} /\ tool'[i] = call[a]
          /\ \A j \in Pending : tool'[j] = tool[j]
      BY <2>1, <2>2, <2>3 DEF Pending
    <2>5. PausesForRequest'
      BY <1>5, <2>4 DEF CreateRequest
    <2>6. WaitingHasRequest'
      BY <1>5, <2>4 DEF CreateRequest
    <2> QED
      BY <2>5, <2>6
  <1>6. ASSUME NEW a \in Agents, MarkWaiting(a) \/ HookDies(a) PROVE WaitInv'
    BY <1>1, <1>6 DEF MarkWaiting, HookDies, Answer, Moved
  <1>7. CASE Approve \/ Reject
    <2>1. PICK i \in Found : /\ answer'[i] # "pending" /\ Crosses(i)
                             /\ \A j \in Ids \ {i} : answer'[j] = answer[j]
      <3>1. Found \subseteq Ids
        BY DEF Found, Pending, Requested
      <3> QED
        BY <1>7, <3>1 DEF Approve, Reject
    <2>2. UNCHANGED <<tool, pc, call>>
      BY <1>7 DEF Approve, Reject, hook
    <2>3. Requested' = Requested /\ Pending' = Pending \ {i} /\ i \in Requested
      BY <2>1, <2>2 DEF Found, Pending, Requested
    <2>4. ASSUME NEW a \in Agents, pc[a] = "mark", ~raced'
          PROVE  \E j \in Pending' : tool'[j] = call'[a]
      <3>1. /\ ~raced /\ a \in agents
        BY <2>1, <2>4 DEF Crosses, Traced
      <3>2. PICK j \in Pending : tool[j] = call[a]
        BY <2>4, <3>1
      <3>3. CASE j # i
        BY <2>2, <2>3, <3>2, <3>3
      <3>4. CASE j = i
        <4>1. PICK k \in Pending \ {i} : tool[k] = tool[i]
          BY <2>1, <2>4, <3>1, <3>2, <3>4 DEF Crosses
        <4> QED
          BY <2>2, <2>3, <3>2, <3>4, <4>1
      <3> QED
        BY <3>3, <3>4
    <2>5. PausesForRequest'
      BY <2>2, <2>4
    <2>6. WaitingHasRequest'
      BY <1>7 DEF Approve, Reject
    <2> QED
      BY <2>5, <2>6
  <1>9. CASE Resume \/ Complete \/ \E to \in {"cancelled", "failed"} : Abort(to)
    BY <1>1, <1>9 DEF Resume, Complete, Abort, hook
  <1>10. CASE UNCHANGED vars
    BY <1>1, <1>10 DEF vars, hook
  <1> QED
    BY <1>2, <1>3, <1>4, <1>5, <1>6, <1>7, <1>9, <1>10 DEF Next, Hook

\* Whatever tools call, hooks die and operators decide, a run that waits has a pending
\* request or is being resumed, unless a decision crossed its pause.
THEOREM WaitingCanBeDecided == Spec => []WaitingHasRequest
  <1>1. Init => WaitInv
    BY DEF Init, WaitInv, PausesForRequest, WaitingHasRequest
  <1>2. WaitInv => WaitingHasRequest
    BY DEF WaitInv
  <1> QED
    BY <1>1, <1>2, WaitStep, GovInvariant, PTL DEF GovInv, Spec
-----------------------------------------------------------------------------
(***************************************************************************)
(* The requests that hooks share.                                          *)
(***************************************************************************)

\* A set of requests that is not empty has a last one: the smallest of its tails begins
\* with it.
LEMMA LastRequest ==
    ASSUME NEW S \in SUBSET Ids, S # {} PROVE \E i \in S : \A j \in S : j <= i
  <1> DEFINE Tail(i) == {j \in S : i <= j}
  <1> DEFINE Tails == {Tail(i) : i \in S}
  <1>1. \A i \in Ids : i \in Int
    BY ConstantsAssumption DEF Ids
  <1>2. Tails \subseteq FiniteSubsetsOf(Ids) /\ Tails # {}
    <2>1. ASSUME NEW i \in S PROVE Tail(i) \in SUBSET Ids /\ IsFiniteSet(Tail(i))
      BY RequestsFinite
    <2> QED
      BY <2>1 DEF FiniteSubsetsOf
  <1>3. IsWellFoundedOn(StrictSubsetOrdering(Ids), FiniteSubsetsOf(Ids))
    BY FS_StrictSubsetOrderingWellFounded
  <1>4. PICK X \in Tails : \A Y \in Tails : <<Y, X>> \notin StrictSubsetOrdering(Ids)
    <2> HIDE DEF Tails
    <2> QED
      BY <1>2, <1>3, WFMin
  <1>5. PICK i \in S : X = Tail(i)
    BY <1>4
  <1>6. ASSUME NEW k \in S, ~(k <= i) PROVE FALSE
    <2>1. Tail(k) \subseteq Tail(i) /\ i \in Tail(i) /\ i \notin Tail(k)
      BY <1>1, <1>6
    <2>2. Tail(k) \in Tails /\ Tail(k) \in SUBSET Ids /\ Tail(i) \in SUBSET Ids
      OBVIOUS
    <2> HIDE DEF Tail, Tails
    <2>3. <<Tail(k), Tail(i)>> \in StrictSubsetOrdering(Ids)
      BY <2>1, <2>2 DEF StrictSubsetOrdering
    <2> QED
      BY <1>4, <1>5, <2>2, <2>3
  <1> QED
    BY <1>6

\* No more requests than the window holds are all looked at.
LEMMA FewAreInWindow ==
    ASSUME TypeOK, Cardinality(Requested) <= Window PROVE InWindow = Requested
  <1> SUFFICES ASSUME NEW i \in Requested
               PROVE  Cardinality({j \in Requested : j > i}) < Window
    BY DEF InWindow
  <1> DEFINE After == {j \in Requested : j > i}
  <1>1. Requested \in SUBSET Ids /\ i \in Ids /\ i \in Int
    BY ConstantsAssumption DEF Requested, Ids
  <1>2. After \in SUBSET Requested /\ i \notin After
    BY <1>1
  <1>3. IsFiniteSet(Requested) /\ Cardinality(Requested) \in Nat
    BY <1>1, RequestsFinite
  <1>4. /\ Cardinality(After) <= Cardinality(Requested) /\ After # Requested
        /\ Cardinality(Requested) = Cardinality(After) => Requested = After
    BY <1>2, <1>3, FS_Subset
  <1>5. Cardinality(After) \in Nat
    BY <1>1, <1>2, RequestsFinite
  <1> QED
    BY <1>3, <1>4, <1>5, ConstantsAssumption

\* The found request is the last of the pending ones in the window.
LEMMA SomeIsFound ==
    ASSUME TypeOK, Cardinality(Requested) <= Window, Pending # {} PROVE Found # {}
  <1>1. InWindow = Requested /\ Pending \in SUBSET Ids /\ Pending \cap InWindow = Pending
    BY FewAreInWindow DEF Pending, Requested
  <1>2. \E i \in Pending : \A j \in Pending : j <= i
    BY <1>1, LastRequest
  <1> QED
    BY <1>1, <1>2 DEF Found

\* Hooks that are about to make a request for the tool that has asked.
Creators == {a \in Agents : pc[a] = "create" /\ \A i \in Requested : tool[i] = call[a]}

FewAndOne == OneTool /\ Cardinality(Requested) <= Window

\* Every hook that is about to make a request has found none pending.
SharedInv ==
    FewAndOne => Cardinality(Pending) + Cardinality(Creators) <= Cardinality(agents)

LEMMA SharedCounted ==
    /\ Cardinality(Pending) \in Nat
    /\ IsFiniteSet(Creators) /\ Cardinality(Creators) \in Nat
  <1>1. Pending \in SUBSET Ids /\ Creators \in SUBSET Agents
    BY DEF Pending, Requested, Creators
  <1> QED
    BY <1>1, RequestsFinite, AgentsFinite

\* A step that makes no request and lets no hook decide to make one.
LEMMA SharedKept ==
    ASSUME TypeOK, TypeOK', SharedInv, UNCHANGED tool, Pending' \subseteq Pending,
           Creators' \subseteq Creators, agents \subseteq agents'
    PROVE  SharedInv'
  <1>1. Requested' = Requested /\ (FewAndOne' <=> FewAndOne)
    BY DEF Requested, FewAndOne, OneTool
  <1>2. /\ Pending \in SUBSET Ids /\ Pending' \in SUBSET Ids
        /\ Creators \in SUBSET Agents /\ Creators' \in SUBSET Agents
        /\ agents \in SUBSET Agents /\ agents' \in SUBSET Agents
    BY <1>1 DEF Pending, Requested, Creators, TypeOK
  <1>3. /\ Cardinality(Pending') <= Cardinality(Pending)
        /\ Cardinality(Creators') <= Cardinality(Creators)
        /\ Cardinality(agents) <= Cardinality(agents')
        /\ Cardinality(Pending) \in Nat /\ Cardinality(Pending') \in Nat
        /\ Cardinality(Creators) \in Nat /\ Cardinality(Creators') \in Nat
        /\ Cardinality(agents) \in Nat /\ Cardinality(agents') \in Nat
    BY <1>2, RequestsFinite, AgentsFinite, FS_Subset
  <1> QED
    BY <1>1, <1>3 DEF SharedInv

LEMMA SharedStep ==
    TypeOK /\ TypeOK' /\ Traced /\ SharedInv /\ [Next]_vars => SharedInv'
  <1> SUFFICES ASSUME TypeOK, TypeOK', Traced, SharedInv, [Next]_vars PROVE SharedInv'
    OBVIOUS
  <1>0. /\ pc \in [Agents -> {"idle", "consume", "pending", "create", "mark"}]
        /\ call \in [Agents -> Tools \cup {NoTool}]
    BY DEF TypeOK
  <1>1. ASSUME UNCHANGED <<tool, answer>> PROVE Requested' = Requested /\ Pending' = Pending
    BY <1>1 DEF Requested, Pending
  <1>2. ASSUME NEW a \in Agents, NEW t \in Tools, CallTool(a, t) PROVE SharedInv'
    <2>1. UNCHANGED <<tool, answer, agents>>
      BY <1>2 DEF CallTool
    <2>2. \A b \in Agents : pc'[b] = "create" => pc[b] = "create" /\ call'[b] = call[b]
      BY <1>0, <1>2 DEF CallTool, Asks
    <2>3. Creators' \subseteq Creators
      BY <1>1, <2>1, <2>2 DEF Creators
    <2> QED
      BY <1>1, <2>1, <2>3, SharedKept
  <1>3. ASSUME NEW a \in Agents, ConsumeGrant(a) \/ MarkWaiting(a) \/ HookDies(a)
        PROVE  SharedInv'
    <2>1. UNCHANGED <<tool, answer, agents>>
      BY <1>3 DEF ConsumeGrant, MarkWaiting, HookDies
    <2>2. \A b \in Agents : pc'[b] = "create" => pc[b] = "create" /\ call'[b] = call[b]
      BY <1>0, <1>3 DEF ConsumeGrant, MarkWaiting, HookDies, Answer
    <2>3. Creators' \subseteq Creators
      BY <1>1, <2>1, <2>2 DEF Creators
    <2> QED
      BY <1>1, <2>1, <2>3, SharedKept
  <1>4. ASSUME NEW a \in Agents, ReadPending(a) PROVE SharedInv'
    <2>1. /\ UNCHANGED <<tool, answer, agents, call>> /\ pc[a] = "pending"
          /\ pc' = [pc EXCEPT ![a] = AfterPending(a)]
      BY <1>4 DEF ReadPending
    <2>2. CASE a \notin Creators'
      <3>1. Creators' \subseteq Creators
        BY <1>0, <1>1, <2>1, <2>2 DEF Creators
      <3> QED
        BY <1>1, <2>1, <3>1, SharedKept
    <2>3. CASE a \in Creators'
      <3>1. \A i \in Requested : tool[i] = call[a]
        BY <1>1, <2>1, <2>3 DEF Creators
      <3>2. ~ \E i \in Found : tool[i] = call[a]
        BY <1>0, <2>1, <2>3 DEF Creators, AfterPending
      <3>3. Found = {}
        BY <3>1, <3>2 DEF Found, Pending
      <3>4. ASSUME FewAndOne' PROVE Pending' = {}
        <4>1. Cardinality(Requested) <= Window
          BY <1>1, <2>1, <3>4 DEF FewAndOne
        <4> QED
          BY <1>1, <2>1, <3>3, <4>1, SomeIsFound
      <3>5. Creators' \subseteq agents'
        BY <1>0, <2>1 DEF Creators, Traced
      <3>6. Cardinality(Creators') <= Cardinality(agents') /\ Cardinality(Creators') \in Nat
        BY <3>5, AgentsFinite, FS_Subset DEF TypeOK
      <3>7. Cardinality({}) = 0
        BY FS_EmptySet
      <3> QED
        BY <3>4, <3>6, <3>7 DEF SharedInv
    <2> QED
      BY <2>2, <2>3
  <1>5. ASSUME NEW a \in Agents, CreateRequest(a) PROVE SharedInv'
    <2>1. PICK i \in Ids \ Requested : tool' = [tool EXCEPT ![i] = call[a]]
      BY <1>5 DEF CreateRequest
    <2>2. /\ call[a] \in Tools /\ UNCHANGED <<answer, agents, call>> /\ pc[a] = "create"
          /\ pc' = [pc EXCEPT ![a] = "mark"]
      BY <1>5 DEF CreateRequest, Traced
    <2>3. /\ Requested' = Requested \cup {i} /\ tool'[i] = call[a]
          /\ \A j \in Requested : tool'[j] = tool[j]
      BY <2>1, <2>2, ConstantsAssumption DEF Requested, TypeOK
    <2>4. Pending' = Pending \cup {i} /\ i \notin Pending
      BY <2>1, <2>2, <2>3 DEF Pending, Traced
    <2> SUFFICES ASSUME FewAndOne'
                 PROVE  Cardinality(Pending') + Cardinality(Creators') <= Cardinality(agents')
      BY DEF SharedInv
    <2>5. OneTool /\ \A j \in Requested : tool[j] = call[a]
      BY <2>3 DEF FewAndOne, OneTool
    <2>6. Requested \in SUBSET Ids /\ Requested' \in SUBSET Ids /\ Pending \in SUBSET Ids
      BY <2>1, <2>3 DEF Requested, Pending
    <2>7. Cardinality(Requested) <= Window
      BY <2>3, <2>6, RequestsFinite, FS_Subset, ConstantsAssumption DEF FewAndOne
    <2>8. Cardinality(Pending) + Cardinality(Creators) <= Cardinality(agents)
      BY <2>5, <2>7 DEF SharedInv, FewAndOne
    <2>9. a \in Creators /\ Creators' \subseteq Creators \ {a}
      BY <1>0, <2>2, <2>3, <2>5 DEF Creators
    <2>10. /\ Cardinality(Creators \ {a}) = Cardinality(Creators) - 1
           /\ IsFiniteSet(Creators \ {a}) /\ Cardinality(Creators) \in Nat
      BY <2>9, SharedCounted, FS_RemoveElement
    <2>11. Cardinality(Creators') <= Cardinality(Creators) - 1 /\ Cardinality(Creators') \in Nat
      BY <2>9, <2>10, FS_Subset, FS_CardinalityType
    <2>12. Cardinality(Pending') = Cardinality(Pending) + 1 /\ Cardinality(Pending) \in Nat
      BY <2>4, <2>6, RequestsFinite, FS_AddElement
    <2>13. Cardinality(agents) \in Nat
      BY AgentsFinite DEF TypeOK
    <2> QED
      BY <2>2, <2>8, <2>10, <2>11, <2>12, <2>13
  <1>6. CASE Approve \/ Reject
    <2>1. UNCHANGED <<tool, pc, call, agents>> /\ Pending' \subseteq Pending
      BY <1>6 DEF Approve, Reject, hook, Found, Pending, Requested, TypeOK
    <2>2. Creators' \subseteq Creators
      BY <2>1 DEF Creators, Requested
    <2> QED
      BY <2>1, <2>2, SharedKept
  <1>7. CASE Resume \/ Complete \/ \E to \in {"cancelled", "failed"} : Abort(to)
    <2>1. UNCHANGED <<tool, answer, pc, call>> /\ agents \subseteq agents'
      BY <1>7 DEF Resume, Complete, Abort, hook
    <2>2. Creators' \subseteq Creators
      BY <2>1 DEF Creators, Requested
    <2> QED
      BY <1>1, <2>1, <2>2, SharedKept
  <1>8. CASE UNCHANGED vars
    <2>1. UNCHANGED <<tool, answer, pc, call, agents>>
      BY <1>8 DEF vars, hook
    <2>2. Creators' \subseteq Creators
      BY <2>1 DEF Creators, Requested
    <2> QED
      BY <1>1, <2>1, <2>2, SharedKept
  <1> QED
    BY <1>2, <1>3, <1>4, <1>5, <1>6, <1>7, <1>8 DEF Next, Hook

\* While one tool has asked, and no more often than get_pending_for_run() looks, there is
\* never more than one pending request for each conversation of the run, for any number
\* of conversations, calls and decisions.
THEOREM CallsShareRequest == Spec => []RequestsShared
  <1>1. Init => SharedInv
    <2> SUFFICES ASSUME Init PROVE SharedInv
      OBVIOUS
    <2>1. Pending = {} /\ Creators = {}
      BY DEF Init, Requested, Pending, Creators
    <2>2. agents \in SUBSET Agents
      BY DEF Init
    <2>3. Cardinality(agents) \in Nat
      BY <2>2, AgentsFinite
    <2> QED
      BY <2>1, <2>3, FS_EmptySet DEF SharedInv
  <1>2. TypeOK /\ SharedInv => RequestsShared
    <2>1. TypeOK => Cardinality(agents) \in Nat
      BY AgentsFinite DEF TypeOK
    <2> QED
      BY <2>1, SharedCounted DEF SharedInv, FewAndOne, RequestsShared
  <1> QED
    BY <1>1, <1>2, SharedStep, GovInvariant, PTL DEF GovInv, Spec
=============================================================================
