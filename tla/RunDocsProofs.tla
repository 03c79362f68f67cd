--------------------------- MODULE RunDocsProofs ---------------------------
(***************************************************************************)
(* What RunDocs guarantees for any number of hook processes, events and    *)
(* crashes.                                                                *)
(***************************************************************************)
EXTENDS RunDocs, FiniteSetTheorems, TLAPS

\* An inductive part of TypeOK and DocConsistent: every copy of the document that is
\* about to be written is consistent.
DocOK(d) ==
    /\ d.finished <=> d.status \in Terminal
    /\ d.status \notin {"none", "created", "cancelled"} => d.started

CopiesConsistent ==
    /\ DocOK(doc)
    /\ \A w \in Writers : pc[w] \in Saving => DocOK(snap[w])

\* A hook that works has found a started run, and nobody saves a copy that is not started.
CopiesStarted ==
    /\ \A h \in Hooks : pc[h] # "idle" => doc.started
    /\ \A w \in Writers : pc[w] \in Saving /\ doc.started => snap[w].started

\* Numbers drawn and not listed yet are new.
Drawn(w) == pc[w] = "index"

NumbersDistinct ==
    /\ \A e \in visible : e.seq <= counter
    /\ \A w \in Writers : Drawn(w) => /\ seq[w] <= counter
                                      /\ \A e \in visible : e.seq # seq[w]
    /\ \A v, w \in Writers : Drawn(v) /\ Drawn(w) /\ v # w => seq[v] # seq[w]

\* Every event that is listed and not counted yet has its writer about to count it, and
\* no copy counts it already.
Uncounted == {w \in Writers : pc[w] = "read"}

CountsBounded ==
    /\ IsFiniteSet(visible)
    /\ doc.count + Cardinality(Uncounted) <= Cardinality(visible)
    /\ \A w \in Writers :
         pc[w] \in Saving => snap[w].count + Cardinality(Uncounted) <= Cardinality(visible)

\* An operation that appends knows what, and in time the number.
Pending ==
    \A w \in Writers : /\ pc[w] \in {"incr", "index"} => todo[w] # <<>>
                       /\ pc[w] = "index" => seq[w] \in 1..MaxSeq

LEMMA WritersFinite == IsFiniteSet(Writers)
  <1>1. IsFiniteSet({Service})
    BY FS_Singleton
  <1> QED
    BY <1>1, FS_Union, ConstantsAssumption DEF Writers
-----------------------------------------------------------------------------
(***************************************************************************)
(* Type correctness.                                                       *)
(***************************************************************************)
Typed == TypeOK /\ Pending

LEMMA ChangedTyped ==
    ASSUME NEW d \in Docs, NEW to \in Statuses PROVE ChangedTo(d, to) \in Docs
  BY DEF ChangedTo, Docs

LEMMA CountedTyped ==
    ASSUME NEW d \in Docs PROVE [d EXCEPT !.count = @ + 1] \in Docs
  <1>1. d.count \in Nat /\ d.count + 1 \in Nat
    BY DEF Docs
  <1> QED
    BY <1>1 DEF Docs

LEMMA StatusEventsTyped ==
    ASSUME NEW to PROVE StatusEvents(to) \in Seq(EventTypes)
  BY DEF StatusEvents, EventTypes

LEMMA SavesTyped ==
    ASSUME Typed, NEW w \in Writers, NEW d \in Docs, NEW es \in Seq(EventTypes),
           Saves(w, d, es), crashes' \in 0..MaxCrashes
    PROVE  Typed'
  BY DEF Typed, TypeOK, Pending, Saves, Calls

LEMMA DiesTyped ==
    ASSUME Typed, NEW w \in Writers, crashes' \in 0..MaxCrashes,
           pc' = [pc EXCEPT ![w] = "idle"], todo' = [todo EXCEPT ![w] = <<>>],
           stale' = stale \ {w}, UNCHANGED <<doc, counter, visible, snap, seq, lost>>
    PROVE  Typed'
  <1>1. TypeOK'
    BY DEF Typed, TypeOK, Calls
  <1>2. Pending'
    BY DEF Typed, TypeOK, Pending
  <1> QED
    BY <1>1, <1>2 DEF Typed

LEMMA TypedStep == Typed /\ [Next]_vars => Typed'
  <1> SUFFICES ASSUME Typed, [Next]_vars PROVE Typed'
    OBVIOUS
  <1> USE ConstantsAssumption
  <1>0. Service \in Writers /\ Hooks \subseteq Writers
    BY DEF Writers
  <1>1. CASE CreateRun
    <2>1. [NoDoc EXCEPT !.status = "created"] \in Docs
      BY DEF NoDoc, Docs, Statuses
    <2>2. <<"run_created">> \in Seq(EventTypes)
      BY DEF EventTypes
    <2> QED
      BY <1>0, <1>1, <2>1, <2>2, SavesTyped DEF CreateRun, Typed, TypeOK
  <1>2. ASSUME NEW w \in Writers, NEW to \in Statuses, NEW es \in Seq(EventTypes),
               Transition(w, to, es), UNCHANGED crashes
        PROVE  Typed'
    <2>1. ChangedTo(doc, to) \in Docs
      BY ChangedTyped DEF Typed, TypeOK
    <2> QED
      BY <1>2, <2>1, SavesTyped DEF Transition, Typed, TypeOK
  <1>3. ASSUME NEW to \in ServiceTargets, ServiceTransition(to) PROVE Typed'
    <2>1. to \in Statuses
      BY DEF ServiceTargets, Statuses
    <2> QED
      BY <1>0, <1>2, <1>3, <2>1, StatusEventsTyped DEF ServiceTransition
  <1>4. ASSUME NEW h \in Hooks, HookTransition(h) PROVE Typed'
    <2>1. "waiting_approval" \in Statuses
      BY DEF Statuses
    <2> QED
      BY <1>0, <1>2, <1>4, <2>1, StatusEventsTyped DEF HookTransition
  <1>5. CASE Restart
    <2>1. crashes' \in 0..MaxCrashes
      BY <1>5 DEF Restart, Typed, TypeOK
    <2>2. <<>> \in Seq(EventTypes)
      OBVIOUS
    <2>3. CASE CanTransition(doc.status, "failed")
      <3>1. ChangedTo(doc, "failed") \in Docs
        BY ChangedTyped DEF Typed, TypeOK, Statuses
      <3> QED
        BY <1>0, <1>5, <2>1, <2>2, <2>3, <3>1, SavesTyped DEF Restart
    <2>4. CASE ~CanTransition(doc.status, "failed")
      BY <1>0, <1>5, <2>1, <2>4, DiesTyped DEF Restart
    <2> QED
      BY <2>3, <2>4
  <1>6. ASSUME NEW w \in Writers, AppendEvent(w) PROVE Typed'
    BY <1>6 DEF AppendEvent, Typed, TypeOK, Pending, Calls, EventTypes
  <1>7. ASSUME NEW w \in Writers, Save(w) PROVE Typed'
    BY <1>7 DEF Save, AfterSave, Saving, Typed, TypeOK, Pending, Calls
  <1>8. ASSUME NEW w \in Writers, NextSeq(w) PROVE Typed'
    BY <1>8 DEF NextSeq, Typed, TypeOK, Pending, Calls
  <1>9. ASSUME NEW w \in Writers, Index(w) PROVE Typed'
    <2>1. todo[w] \in Seq(EventTypes) /\ todo[w] # <<>> /\ pc[w] = "index"
      BY <1>9 DEF Index, Typed, TypeOK, Pending
    <2>2. Head(todo[w]) \in EventTypes /\ Tail(todo[w]) \in Seq(EventTypes)
      BY <2>1
    <2>3. seq[w] \in 1..MaxSeq
      BY <1>9 DEF Index, Typed, Pending
    <2> QED
      BY <1>9, <2>1, <2>2, <2>3 DEF Index, Typed, TypeOK, Pending, Calls
  <1>10. ASSUME NEW w \in Writers, ReadForBump(w) PROVE Typed'
    <2>1. [doc EXCEPT !.count = @ + 1] \in Docs
      BY CountedTyped DEF Typed, TypeOK
    <2> QED
      BY <1>10, <2>1 DEF ReadForBump, Typed, TypeOK, Pending, Calls
  <1>12. CASE SetConversation
    <2>1. doc \in Docs /\ <<>> \in Seq(EventTypes)
      BY DEF Typed, TypeOK
    <2> QED
      BY <1>0, <1>12, <2>1, SavesTyped DEF SetConversation, Typed, TypeOK
  <1>13. ASSUME NEW h \in Hooks, HookDies(h) PROVE Typed'
    <2>1. crashes' \in 0..MaxCrashes
      BY <1>13 DEF HookDies, Typed, TypeOK
    <2> QED
      BY <1>0, <1>13, <2>1, DiesTyped DEF HookDies
  <1>11. CASE UNCHANGED vars
    BY <1>11 DEF vars, writer, Typed, TypeOK, Pending
  <1> QED
    BY <1>1, <1>3, <1>4, <1>5, <1>6, <1>7, <1>8, <1>9, <1>10, <1>11, <1>12, <1>13 DEF Next

LEMMA InitTyped == Init => Typed
  <1> SUFFICES ASSUME Init PROVE Typed
    OBVIOUS
  <1>1. NoDoc \in Docs /\ "idle" \in Calls /\ <<>> \in Seq(EventTypes)
    BY DEF NoDoc, Docs, Statuses, Calls
  <1>2. 0 \in 0..MaxSeq /\ 0 \in 0..MaxCrashes
    BY ConstantsAssumption
  <1>3. TypeOK
    BY <1>1, <1>2 DEF Init, TypeOK
  <1>4. Pending
    BY DEF Init, Pending
  <1> QED
    BY <1>3, <1>4 DEF Typed

\* The model's variables stay in their ranges, and an append has its event and number.
THEOREM TypeCorrect == Spec => []TypeOK
  <1>1. Init => Typed
    BY InitTyped
  <1>2. Typed /\ [Next]_vars => Typed'
    BY TypedStep
  <1>3. Typed => TypeOK
    BY DEF Typed
  <1> QED
    BY <1>1, <1>2, <1>3, PTL DEF Spec
-----------------------------------------------------------------------------
(***************************************************************************)
(* The document agrees with itself, and a started run stays started.       *)
(***************************************************************************)
Copies == CopiesConsistent /\ CopiesStarted

Targets == ServiceTargets \cup {"waiting_approval"}

LEMMA ChangedOK ==
    ASSUME NEW d \in Docs, DocOK(d), NEW to \in Targets, CanTransition(d.status, to)
    PROVE  /\ DocOK(ChangedTo(d, to))
           /\ d.started => ChangedTo(d, to).started
  <1>1. d.finished = FALSE
    BY DEF CanTransition, DocOK, Docs
  <1>2. /\ ChangedTo(d, to).status = to
        /\ ChangedTo(d, to).started = (d.started \/ to = "running")
        /\ ChangedTo(d, to).finished = (d.finished \/ to \in Terminal)
    BY DEF ChangedTo, Docs
  <1>3. to \notin {"none", "created", "cancelled"} => d.started \/ to = "running"
    BY DEF CanTransition, AllowedTransitions, DocOK, Terminal, Targets, ServiceTargets
  <1> QED
    BY <1>1, <1>2, <1>3 DEF DocOK

LEMMA CopiesStep == Typed /\ Copies /\ [Next]_vars => Copies' /\ (doc.started => doc'.started)
  <1> SUFFICES ASSUME Typed, Copies, [Next]_vars
               PROVE  Copies' /\ (doc.started => doc'.started)
    OBVIOUS
  <1> USE ConstantsAssumption DEF Copies
  <1>0. /\ Service \in Writers /\ Hooks \subseteq Writers /\ Writers = Hooks \cup {Service}
        /\ doc \in Docs /\ pc \in [Writers -> Calls] /\ snap \in [Writers -> Docs]
    BY DEF Writers, Typed, TypeOK
  <1>1. ASSUME NEW w \in Writers, NEW d \in Docs, NEW es, Saves(w, d, es),
               DocOK(d), doc.started => d.started, w = Service \/ doc.started
        PROVE  Copies' /\ (doc.started => doc'.started)
    BY <1>0, <1>1 DEF Saves, Saving, CopiesConsistent, CopiesStarted
  <1>2. ASSUME NEW w \in Writers, NEW to \in Targets, NEW es, Transition(w, to, es),
               w = Service \/ doc.started
        PROVE  Copies' /\ (doc.started => doc'.started)
    <2>1. ChangedTo(doc, to) \in Docs
      BY <1>0, ChangedTyped DEF Targets, ServiceTargets, Statuses
    <2>2. DocOK(ChangedTo(doc, to)) /\ (doc.started => ChangedTo(doc, to).started)
      BY <1>0, <1>2, ChangedOK DEF Transition, CopiesConsistent
    <2> QED
      BY <1>1, <1>2, <2>1, <2>2 DEF Transition
  <1>3. CASE CreateRun
    <2>1. /\ [NoDoc EXCEPT !.status = "created"] \in Docs
          /\ DocOK([NoDoc EXCEPT !.status = "created"])
      BY DEF NoDoc, Docs, Statuses, DocOK, Terminal
    <2>2. ~ doc.started
      BY <1>3 DEF CreateRun, NoDoc
    <2> QED
      BY <1>0, <1>1, <1>3, <2>1, <2>2 DEF CreateRun
  <1>4. ASSUME NEW to \in ServiceTargets, ServiceTransition(to)
        PROVE  Copies' /\ (doc.started => doc'.started)
    BY <1>0, <1>2, <1>4 DEF ServiceTransition, Targets
  <1>5. ASSUME NEW h \in Hooks, HookTransition(h)
        PROVE  Copies' /\ (doc.started => doc'.started)
    BY <1>0, <1>2, <1>5 DEF HookTransition, EngineStarted, Targets
  <1>6. CASE Restart
    <2>1. CASE CanTransition(doc.status, "failed")
      <3>1. ChangedTo(doc, "failed") \in Docs
        BY <1>0, ChangedTyped DEF Statuses
      <3>2. DocOK(ChangedTo(doc, "failed")) /\ (doc.started => ChangedTo(doc, "failed").started)
        BY <1>0, <2>1, ChangedOK DEF Targets, ServiceTargets, CopiesConsistent
      <3> QED
        BY <1>0, <1>1, <1>6, <2>1, <3>1, <3>2 DEF Restart
    <2>2. CASE ~CanTransition(doc.status, "failed")
      BY <1>0, <1>6, <2>2 DEF Restart, Saving, CopiesConsistent, CopiesStarted
    <2> QED
      BY <2>1, <2>2
  <1>7. ASSUME NEW w \in Writers, AppendEvent(w) PROVE Copies' /\ (doc.started => doc'.started)
    BY <1>0, <1>7 DEF AppendEvent, EngineStarted, Saving, CopiesConsistent, CopiesStarted
  <1>8. ASSUME NEW w \in Writers, Save(w) PROVE Copies' /\ (doc.started => doc'.started)
    BY <1>0, <1>8 DEF Save, AfterSave, Saving, CopiesConsistent, CopiesStarted
  <1>9. ASSUME NEW w \in Writers, NextSeq(w) \/ Index(w)
        PROVE  Copies' /\ (doc.started => doc'.started)
    BY <1>0, <1>9 DEF NextSeq, Index, Saving, CopiesConsistent, CopiesStarted
  <1>10. ASSUME NEW w \in Writers, ReadForBump(w)
         PROVE  Copies' /\ (doc.started => doc'.started)
    <2>1. /\ [doc EXCEPT !.count = @ + 1].started = doc.started
          /\ [doc EXCEPT !.count = @ + 1].finished = doc.finished
          /\ [doc EXCEPT !.count = @ + 1].status = doc.status
      BY <1>0 DEF Docs
    <2>2. DocOK([doc EXCEPT !.count = @ + 1])
      BY <2>1 DEF DocOK, CopiesConsistent
    <2> QED
      BY <1>0, <1>10, <2>1, <2>2 DEF ReadForBump, Saving, CopiesConsistent, CopiesStarted
  <1>12. CASE SetConversation
    BY <1>0, <1>1, <1>12 DEF SetConversation, EngineStarted, CopiesConsistent
  <1>13. ASSUME NEW h \in Hooks, HookDies(h) PROVE Copies' /\ (doc.started => doc'.started)
    BY <1>0, <1>13 DEF HookDies, Saving, CopiesConsistent, CopiesStarted
  <1>11. CASE UNCHANGED vars
    BY <1>11 DEF vars, writer, CopiesConsistent, CopiesStarted
  <1> QED
    BY <1>3, <1>4, <1>5, <1>6, <1>7, <1>8, <1>9, <1>10, <1>11, <1>12, <1>13 DEF Next

LEMMA CopiesInvariant == Spec => [](Typed /\ Copies)
  <1>1. Init => Typed /\ Copies
    <2>1. Init => CopiesConsistent
      BY DEF Init, NoDoc, CopiesConsistent, DocOK, Terminal, Saving
    <2>2. Init => CopiesStarted
      BY DEF Init, CopiesStarted, Saving, Writers
    <2> QED
      BY <2>1, <2>2, InitTyped DEF Copies
  <1>2. (Typed /\ Copies) /\ [Next]_vars => (Typed /\ Copies)'
    BY TypedStep, CopiesStep
  <1> QED
    BY <1>1, <1>2, PTL DEF Spec

\* finished_at and started_at agree with the status, whichever writers overwrite each
\* other's documents (InvestigationRunStore._save()).
THEOREM DocumentConsistent == Spec => []DocConsistent
  <1>1. Typed /\ Copies => DocConsistent
    BY DEF Copies, CopiesConsistent, DocOK, DocConsistent
  <1> QED
    BY <1>1, CopiesInvariant, PTL

\* No stale document takes started_at from a run (bump_event_stats() of a hook).
THEOREM StartKept == Spec => StartIsKept
  <1>1. Typed /\ Copies /\ [Next]_vars => [doc.started => doc'.started]_vars
    BY CopiesStep
  <1> QED
    BY <1>1, CopiesInvariant, PTL DEF Spec, StartIsKept
-----------------------------------------------------------------------------
(***************************************************************************)
(* Sequence numbers and the event count.                                   *)
(***************************************************************************)
LEMMA NumbersStep == Typed /\ NumbersDistinct /\ SeqUnique /\ [Next]_vars
                       => (NumbersDistinct /\ SeqUnique)'
  <1> SUFFICES ASSUME Typed, NumbersDistinct, SeqUnique, [Next]_vars
               PROVE  (NumbersDistinct /\ SeqUnique)'
    OBVIOUS
  <1> USE DEF NumbersDistinct, Drawn, SeqUnique
  <1>0. /\ Service \in Writers /\ Hooks \subseteq Writers
        /\ pc \in [Writers -> Calls] /\ seq \in [Writers -> 0..MaxSeq]
        /\ counter \in Nat /\ visible \subseteq [seq : 1..MaxSeq, type : EventTypes, by : Writers]
        /\ MaxSeq \in Nat
    BY ConstantsAssumption DEF Writers, Typed, TypeOK
  <1>1. ASSUME NEW w \in Writers, NEW p \in Calls \ {"index"}, pc' = [pc EXCEPT ![w] = p],
               UNCHANGED <<counter, visible, seq>>
        PROVE  (NumbersDistinct /\ SeqUnique)'
    BY <1>0, <1>1
  <1>2. ASSUME CreateRun \/ Restart \/ (\E to \in ServiceTargets : ServiceTransition(to))
                 \/ SetConversation \/ (\E h \in Hooks : HookTransition(h) \/ HookDies(h))
                 \/ \E w \in Writers : AppendEvent(w) \/ Save(w) \/ ReadForBump(w)
        PROVE  \E w \in Writers, p \in Calls \ {"index"} :
                 pc' = [pc EXCEPT ![w] = p] /\ UNCHANGED <<counter, visible, seq>>
    <2>1. CASE CreateRun \/ Restart \/ (\E to \in ServiceTargets : ServiceTransition(to))
                 \/ SetConversation
      BY <1>0, <2>1
         DEF CreateRun, Restart, ServiceTransition, SetConversation, Transition, Saves, Calls
    <2>2. CASE \E h \in Hooks : HookTransition(h) \/ HookDies(h)
      BY <1>0, <2>2 DEF HookTransition, HookDies, Transition, Saves, Calls
    <2>3. CASE \E w \in Writers : AppendEvent(w) \/ Save(w) \/ ReadForBump(w)
      BY <1>0, <2>3 DEF AppendEvent, Save, AfterSave, ReadForBump, Calls
    <2> QED
      BY <1>2, <2>1, <2>2, <2>3
  <1>3. ASSUME NEW w \in Writers, NextSeq(w) PROVE (NumbersDistinct /\ SeqUnique)'
    <2>1. /\ visible' = visible /\ counter' = counter + 1
          /\ seq' = [seq EXCEPT ![w] = counter + 1] /\ pc' = [pc EXCEPT ![w] = "index"]
      BY <1>3 DEF NextSeq
    <2>2. \A e \in visible : e.seq \in Nat
      BY <1>0
    <2> QED
      BY <1>0, <2>1, <2>2
  <1>4. ASSUME NEW w \in Writers, Index(w) PROVE (NumbersDistinct /\ SeqUnique)'
    <2> DEFINE new == [seq |-> seq[w], type |-> Head(todo[w]), by |-> w]
    <2>1. /\ visible' = visible \cup {new} /\ new.seq = seq[w] /\ pc[w] = "index"
          /\ pc' = [pc EXCEPT ![w] = "read"] /\ UNCHANGED <<counter, seq>>
      BY <1>4 DEF Index
    <2>2. SeqUnique'
      BY <1>0, <2>1
    <2>3. NumbersDistinct'
      BY <1>0, <2>1
    <2> QED
      BY <2>2, <2>3
  <1>5. CASE UNCHANGED vars
    BY <1>5 DEF vars, writer
  <1> QED
    BY <1>1, <1>2, <1>3, <1>4, <1>5 DEF Next

LEMMA NumbersInvariant == Spec => [](Typed /\ NumbersDistinct /\ SeqUnique)
  <1>1. Init => NumbersDistinct /\ SeqUnique
    BY DEF Init, NumbersDistinct, SeqUnique, Drawn
  <1>2. Spec => []Typed
    BY CopiesInvariant, PTL
  <1> QED
    BY <1>1, <1>2, NumbersStep, PTL DEF Spec

\* Events of one run never share a number, whatever appends interleave
\* (RunEventStore.append()).
LEMMA EventNumbersUnique == Spec => []SeqUnique
  BY NumbersInvariant, PTL

\* Listed events and the events listed and not counted yet, as numbers.
LEMMA CountsTyped ==
    ASSUME CountsBounded
    PROVE  /\ IsFiniteSet(Uncounted)
           /\ Cardinality(Uncounted) \in Nat
           /\ Cardinality(visible) \in Nat
  <1>1. IsFiniteSet(Uncounted)
    BY WritersFinite, FS_Subset DEF Uncounted
  <1> QED
    BY <1>1, FS_CardinalityType DEF CountsBounded

\* A step that lists nothing and saves or prepares no higher count.
LEMMA CountsKept ==
    ASSUME CountsBounded, UNCHANGED visible, Uncounted' \subseteq Uncounted,
           doc'.count \in Nat, \A v \in Writers : snap'[v].count \in Nat,
           doc'.count + Cardinality(Uncounted) <= Cardinality(visible),
           \A v \in Writers : pc'[v] \in Saving =>
               snap'[v].count + Cardinality(Uncounted) <= Cardinality(visible)
    PROVE  CountsBounded'
  <1>1. /\ Cardinality(Uncounted') <= Cardinality(Uncounted)
        /\ IsFiniteSet(Uncounted')
    BY CountsTyped, FS_Subset
  <1>2. Cardinality(Uncounted') \in Nat
    BY <1>1, FS_CardinalityType
  <1>3. IsFiniteSet(visible') /\ visible' = visible
    BY DEF CountsBounded
  <1>4. doc'.count + Cardinality(Uncounted') <= Cardinality(visible')
    BY <1>1, <1>2, <1>3, CountsTyped
  <1>5. ASSUME NEW v \in Writers, pc'[v] \in Saving
        PROVE  snap'[v].count + Cardinality(Uncounted') <= Cardinality(visible')
    BY <1>1, <1>2, <1>3, <1>5, CountsTyped
  <1> QED
    BY <1>3, <1>4, <1>5 DEF CountsBounded

\* Writer w takes a step that reads and lists nothing; it may save its copy.
QuietStep(w) ==
    /\ pc'[w] \notin {"read"} \cup Saving
    /\ \A v \in Writers : v # w => pc'[v] = pc[v]
    /\ visible' = visible
    /\ snap' = snap
    /\ doc' = doc \/ (pc[w] \in Saving /\ doc' = snap[w])

LEMMA CountsStep == Typed /\ NumbersDistinct /\ CountsBounded /\ [Next]_vars => CountsBounded'
  <1> SUFFICES ASSUME Typed, NumbersDistinct, CountsBounded, [Next]_vars
               PROVE  CountsBounded'
    OBVIOUS
  <1>0. /\ Service \in Writers /\ Hooks \subseteq Writers
        /\ pc \in [Writers -> Calls] /\ snap \in [Writers -> Docs] /\ doc.count \in Nat
        /\ \A v \in Writers : snap[v].count \in Nat
        /\ doc \in Docs
    BY DEF Writers, Typed, TypeOK, Docs
  <1>1. ASSUME NEW w \in Writers, NEW d \in Docs, NEW es, Saves(w, d, es), d.count <= doc.count
        PROVE  CountsBounded'
    <2>1. /\ UNCHANGED <<doc, visible>> /\ pc' = [pc EXCEPT ![w] = "save"]
          /\ snap' = [snap EXCEPT ![w] = d]
      BY <1>1 DEF Saves
    <2>2. d.count \in Nat /\ d.count <= doc.count
      BY <1>1 DEF Docs
    <2>3. Uncounted' \subseteq Uncounted
      BY <1>0, <2>1 DEF Uncounted
    <2>4. /\ doc'.count \in Nat /\ doc'.count + Cardinality(Uncounted) <= Cardinality(visible)
          /\ d.count + Cardinality(Uncounted) <= Cardinality(visible)
      BY <1>0, <2>1, <2>2, CountsTyped DEF CountsBounded
    <2>5. ASSUME NEW v \in Writers
          PROVE  /\ snap'[v].count \in Nat
                 /\ pc'[v] \in Saving =>
                      snap'[v].count + Cardinality(Uncounted) <= Cardinality(visible)
      BY <1>0, <2>1, <2>2, <2>4 DEF CountsBounded, Saving
    <2> QED
      BY <2>1, <2>3, <2>4, <2>5, CountsKept
  <1>13. ASSUME NEW w \in Writers, QuietStep(w) PROVE CountsBounded'
    <2>1. Uncounted' \subseteq Uncounted
      BY <1>0, <1>13 DEF QuietStep, Uncounted
    <2>2. doc'.count \in Nat /\ doc'.count + Cardinality(Uncounted) <= Cardinality(visible)
      BY <1>0, <1>13 DEF QuietStep, CountsBounded
    <2>3. ASSUME NEW v \in Writers
          PROVE  /\ snap'[v].count \in Nat
                 /\ pc'[v] \in Saving =>
                      snap'[v].count + Cardinality(Uncounted) <= Cardinality(visible)
      BY <1>0, <1>13 DEF QuietStep, CountsBounded
    <2> QED
      BY <1>13, <2>1, <2>2, <2>3, CountsKept DEF QuietStep
  <1>2. ASSUME NEW to \in Targets
        PROVE  ChangedTo(doc, to) \in Docs /\ ChangedTo(doc, to).count <= doc.count
    <2>1. ChangedTo(doc, to).count = doc.count
      BY <1>0 DEF ChangedTo, Docs
    <2> QED
      BY <1>0, <2>1, ChangedTyped DEF Targets, ServiceTargets, Statuses
  <1>3. CASE CreateRun
    <2> DEFINE d == [NoDoc EXCEPT !.status = "created"]
    <2>1. d \in Docs /\ d.count <= doc.count
      <3>1. NoDoc \in Docs /\ NoDoc.count = 0
        BY DEF NoDoc, Docs, Statuses
      <3>2. d \in Docs /\ d.count = 0
        BY <3>1 DEF Docs, Statuses
      <3> QED
        BY <1>0, <3>2
    <2>2. Saves(Service, d, <<"run_created">>)
      BY <1>3 DEF CreateRun
    <2> HIDE DEF d
    <2> QED
      BY <1>0, <1>1, <2>1, <2>2
  <1>4. ASSUME NEW to \in ServiceTargets, ServiceTransition(to) PROVE CountsBounded'
    BY <1>0, <1>1, <1>2, <1>4 DEF ServiceTransition, Transition, Targets
  <1>5. ASSUME NEW h \in Hooks, HookTransition(h) PROVE CountsBounded'
    BY <1>0, <1>1, <1>2, <1>5 DEF HookTransition, Transition, Targets
  <1>6. CASE Restart
    <2>1. CASE CanTransition(doc.status, "failed")
      BY <1>0, <1>1, <1>2, <1>6, <2>1 DEF Restart, Targets, ServiceTargets
    <2>2. CASE ~CanTransition(doc.status, "failed")
      <3>1. QuietStep(Service)
        BY <1>0, <1>6, <2>2 DEF Restart, QuietStep, Saving
      <3> QED
        BY <1>0, <1>13, <3>1
    <2> QED
      BY <2>1, <2>2
  <1>7. ASSUME NEW w \in Writers, AppendEvent(w) \/ NextSeq(w) PROVE CountsBounded'
    <2>1. QuietStep(w)
      BY <1>0, <1>7 DEF AppendEvent, NextSeq, QuietStep, Saving
    <2> QED
      BY <1>13, <2>1
  <1>8. ASSUME NEW w \in Writers, Save(w) PROVE CountsBounded'
    <2>1. QuietStep(w)
      BY <1>0, <1>8 DEF Save, AfterSave, QuietStep, Saving
    <2> QED
      BY <1>13, <2>1
  <1>9. ASSUME NEW w \in Writers, Index(w) PROVE CountsBounded'
    <2> DEFINE new == [seq |-> seq[w], type |-> Head(todo[w]), by |-> w]
    <2>1. /\ visible' = visible \cup {new} /\ pc[w] = "index"
          /\ pc' = [pc EXCEPT ![w] = "read"] /\ UNCHANGED <<doc, snap>>
      BY <1>9 DEF Index
    <2>2. new \notin visible
      <3>1. \A e \in visible : e.seq # seq[w]
        BY <2>1 DEF NumbersDistinct, Drawn
      <3> QED
        BY <3>1
    <2>3. Uncounted' = Uncounted \cup {w}
      BY <1>0, <2>1 DEF Uncounted
    <2>4. /\ IsFiniteSet(visible') /\ Cardinality(visible') = Cardinality(visible) + 1
          /\ Cardinality(visible) \in Nat
      BY <2>1, <2>2, FS_AddElement, FS_CardinalityType DEF CountsBounded
    <2>5. IsFiniteSet(Uncounted) /\ w \notin Uncounted
      BY <2>1, WritersFinite, FS_Subset DEF Uncounted
    <2>6. /\ Cardinality(Uncounted') = Cardinality(Uncounted) + 1
          /\ Cardinality(Uncounted) \in Nat
      BY <2>3, <2>5, FS_AddElement, FS_CardinalityType
    <2>7. doc'.count + Cardinality(Uncounted') <= Cardinality(visible')
      BY <1>0, <2>1, <2>4, <2>6 DEF CountsBounded
    <2>8. ASSUME NEW v \in Writers, pc'[v] \in Saving
          PROVE  snap'[v].count + Cardinality(Uncounted') <= Cardinality(visible')
      <3>1. pc[v] \in Saving /\ snap'[v] = snap[v] /\ snap[v].count \in Nat
        BY <1>0, <2>1, <2>8 DEF Saving
      <3>2. snap[v].count + Cardinality(Uncounted) <= Cardinality(visible)
        BY <3>1 DEF CountsBounded
      <3> QED
        BY <2>4, <2>6, <3>1, <3>2
    <2> QED
      BY <2>4, <2>7, <2>8 DEF CountsBounded
  <1>10. ASSUME NEW w \in Writers, ReadForBump(w) PROVE CountsBounded'
    <2>1. /\ pc[w] = "read" /\ pc' = [pc EXCEPT ![w] = "bump"] /\ UNCHANGED <<doc, visible>>
          /\ snap' = [snap EXCEPT ![w] = [doc EXCEPT !.count = @ + 1]]
      BY <1>10 DEF ReadForBump
    <2>2. Uncounted' = Uncounted \ {w} /\ w \in Uncounted
      BY <1>0, <2>1 DEF Uncounted
    <2>3. IsFiniteSet(Uncounted)
      BY WritersFinite, FS_Subset DEF Uncounted
    <2>4. /\ Cardinality(Uncounted') = Cardinality(Uncounted) - 1
          /\ Cardinality(Uncounted) \in Nat /\ Cardinality(Uncounted') \in Nat
          /\ Cardinality(visible) \in Nat
      BY <2>2, <2>3, FS_RemoveElement, FS_CardinalityType DEF CountsBounded
    <2>5. [doc EXCEPT !.count = @ + 1].count = doc.count + 1
      BY <1>0 DEF Docs
    <2>6. snap'[w].count + Cardinality(Uncounted') <= Cardinality(visible)
      BY <1>0, <2>1, <2>4, <2>5 DEF CountsBounded
    <2>7. \A v \in Writers \ {w} : pc'[v] = pc[v] /\ snap'[v] = snap[v]
      BY <1>0, <2>1
    <2> QED
      BY <1>0, <2>1, <2>4, <2>6, <2>7 DEF CountsBounded
  <1>11. CASE UNCHANGED vars
    BY <1>11 DEF vars, writer, CountsBounded, Uncounted
  <1>12. CASE SetConversation
    BY <1>0, <1>1, <1>12 DEF SetConversation
  <1>14. ASSUME NEW h \in Hooks, HookDies(h) PROVE CountsBounded'
    <2>1. QuietStep(h)
      BY <1>0, <1>14 DEF HookDies, QuietStep, Saving
    <2> QED
      BY <1>0, <1>13, <2>1
  <1> QED
    BY <1>3, <1>4, <1>5, <1>6, <1>7, <1>8, <1>9, <1>10, <1>11, <1>12, <1>14 DEF Next

LEMMA CountsInvariant == Spec => [](Typed /\ CountsBounded)
  <1>1. Init => CountsBounded
    <2>1. Init => Uncounted = {} /\ visible = {} /\ doc.count = 0
                    /\ \A w \in Writers : pc[w] = "idle"
      BY DEF Init, Uncounted, NoDoc
    <2> QED
      BY <2>1, FS_EmptySet DEF CountsBounded, Saving
  <1> QED
    BY <1>1, CountsStep, NumbersInvariant, PTL DEF Spec

\* The event count shown for a run never exceeds the events that can be listed, however
\* many increments are lost to concurrent saves or repeated after stale reads
\* (bump_event_stats()).
LEMMA EventCountNeverOver == Spec => []CountNeverOver
  <1>1. Typed /\ CountsBounded => CountNeverOver
    <2>1. IsFiniteSet(Uncounted)
      BY WritersFinite, FS_Subset DEF Uncounted
    <2>2. Cardinality(Uncounted) \in Nat
      BY <2>1, FS_CardinalityType
    <2>3. Typed => doc.count \in Nat
      BY DEF Typed, TypeOK, Docs
    <2>4. CountsBounded => Cardinality(visible) \in Nat
      BY FS_CardinalityType DEF CountsBounded
    <2> QED
      BY <2>2, <2>3, <2>4 DEF CountsBounded, CountNeverOver
  <1> QED
    BY <1>1, CountsInvariant, PTL

\* For any number of writers, events and restarts: the listed events have different
\* numbers, and the count shown for the run never exceeds them.
THEOREM EventsAreCounted == Spec => []EventsCounted
  BY EventNumbersUnique, EventCountNeverOver, PTL DEF EventsCounted
-----------------------------------------------------------------------------
(***************************************************************************)
(* What the copies that nobody has overtaken say.                          *)
(***************************************************************************)

LEMMA SameTable ==
    \A from, to : CanTransition(from, to) => Lifecycle!CanTransition(from, to)
  BY DEF Lifecycle!CanTransition, CanTransition, Lifecycle!AllowedTransitions,
         AllowedTransitions, Lifecycle!Terminal, Terminal

\* A copy that is not stale is a legal move from the stored document, and counts one
\* event more or none.
Fresh ==
    \A w \in Writers \ stale :
        /\ pc[w] = "save" => /\ snap[w].count = doc.count
                             /\ Lifecycle!LegalMove(doc.status, snap[w].status)
        /\ pc[w] = "bump" => /\ snap[w].count = doc.count + 1
                             /\ snap[w].status = doc.status

Moves == \/ Lifecycle!LegalMove(doc.status, doc'.status)
         \/ \E w \in Writers : SavesStale(w)

LEMMA FreshStep == Typed /\ Fresh /\ [Next]_vars => Fresh' /\ Moves
  <1> SUFFICES ASSUME Typed, Fresh, [Next]_vars PROVE Fresh' /\ Moves
    OBVIOUS
  <1>0. /\ Service \in Writers /\ Hooks \subseteq Writers
        /\ pc \in [Writers -> Calls] /\ snap \in [Writers -> Docs] /\ doc \in Docs
    BY DEF Writers, Typed, TypeOK
  <1>1. ASSUME doc' = doc PROVE Moves
    BY <1>1 DEF Moves, Lifecycle!LegalMove
  <1>2. ASSUME NEW w \in Writers, NEW d, NEW es, Saves(w, d, es), d.count = doc.count,
               Lifecycle!LegalMove(doc.status, d.status)
        PROVE  Fresh' /\ Moves
    BY <1>0, <1>1, <1>2 DEF Saves, Fresh
  <1>3. ASSUME NEW w \in Writers, NEW to, NEW es, Saves(w, ChangedTo(doc, to), es),
               CanTransition(doc.status, to)
        PROVE  Fresh' /\ Moves
    <2>1. ChangedTo(doc, to).status = to /\ ChangedTo(doc, to).count = doc.count
      BY <1>0 DEF ChangedTo, Docs
    <2>2. Lifecycle!LegalMove(doc.status, to)
      BY <1>3, SameTable DEF Lifecycle!LegalMove
    <2> QED
      BY <1>2, <1>3, <2>1, <2>2
  <1>4. ASSUME NEW w \in Writers, pc'[w] \in {"idle", "incr", "index", "read"},
               \A v \in Writers \ {w} : pc'[v] = pc[v], UNCHANGED <<doc, snap>>,
               stale \ {w} \subseteq stale'
        PROVE  Fresh' /\ Moves
    BY <1>0, <1>1, <1>4 DEF Fresh
  <1>5. CASE CreateRun
    <2> DEFINE d == [NoDoc EXCEPT !.status = "created"]
    <2>1. Saves(Service, d, <<"run_created">>) /\ doc = NoDoc
      BY <1>5 DEF CreateRun
    <2>2. d.status = "created" /\ d.count = doc.count /\ doc.status = "none"
      BY <2>1 DEF NoDoc
    <2>3. Lifecycle!LegalMove(doc.status, d.status)
      BY <2>2 DEF Lifecycle!LegalMove, Lifecycle!Begins
    <2> HIDE DEF d
    <2> QED
      BY <1>0, <1>2, <2>1, <2>2, <2>3
  <1>6. ASSUME NEW to \in ServiceTargets, ServiceTransition(to) PROVE Fresh' /\ Moves
    BY <1>0, <1>3, <1>6 DEF ServiceTransition, Transition
  <1>7. ASSUME NEW h \in Hooks, HookTransition(h) PROVE Fresh' /\ Moves
    BY <1>0, <1>3, <1>7 DEF HookTransition, Transition
  <1>8. CASE SetConversation
    BY <1>0, <1>2, <1>8 DEF SetConversation, Lifecycle!LegalMove
  <1>9. CASE Restart
    <2>1. CASE CanTransition(doc.status, "failed")
      BY <1>0, <1>3, <1>9, <2>1 DEF Restart
    <2>2. CASE ~CanTransition(doc.status, "failed")
      BY <1>0, <1>4, <1>9, <2>2 DEF Restart
    <2> QED
      BY <2>1, <2>2
  <1>10. ASSUME NEW h \in Hooks, HookDies(h) PROVE Fresh' /\ Moves
    BY <1>0, <1>4, <1>10 DEF HookDies
  <1>11. ASSUME NEW w \in Writers, AppendEvent(w) \/ NextSeq(w) \/ Index(w)
         PROVE  Fresh' /\ Moves
    BY <1>0, <1>4, <1>11 DEF AppendEvent, NextSeq, Index
  <1>12. ASSUME NEW w \in Writers, Save(w) PROVE Fresh' /\ Moves
    <2>1. /\ pc[w] \in Saving /\ doc' = snap[w] /\ snap' = snap
          /\ pc'[w] \notin Saving /\ \A v \in Writers \ {w} : pc'[v] = pc[v]
          /\ \A v \in Writers \ {w} : pc[v] \in Saving => v \in stale'
      BY <1>0, <1>12 DEF Save, AfterSave, Saving
    <2>2. Fresh'
      BY <2>1 DEF Fresh, Saving
    <2>3. CASE w \in stale
      BY <2>1, <2>2, <2>3 DEF Moves, SavesStale
    <2>4. CASE w \notin stale
      <3>1. w \in Writers \ stale /\ pc[w] \in {"save", "bump"}
        BY <2>1, <2>4 DEF Saving
      <3>2. Lifecycle!LegalMove(doc.status, doc.status)
        BY DEF Lifecycle!LegalMove
      <3>3. Lifecycle!LegalMove(doc.status, snap[w].status)
        BY <3>1, <3>2 DEF Fresh
      <3> QED
        BY <2>1, <2>2, <3>3 DEF Moves
    <2> QED
      BY <2>2, <2>3, <2>4
  <1>13. ASSUME NEW w \in Writers, ReadForBump(w) PROVE Fresh' /\ Moves
    <2>1. /\ pc' = [pc EXCEPT ![w] = "bump"] /\ doc' = doc /\ stale' = stale \ {w}
          /\ snap' = [snap EXCEPT ![w] = [doc EXCEPT !.count = @ + 1]]
      BY <1>13 DEF ReadForBump
    <2>2. /\ [doc EXCEPT !.count = @ + 1].count = doc.count + 1
          /\ [doc EXCEPT !.count = @ + 1].status = doc.status
      BY <1>0 DEF Docs
    <2>3. Fresh'
      BY <1>0, <2>1, <2>2 DEF Fresh
    <2> QED
      BY <1>1, <2>1, <2>3
  <1>14. CASE UNCHANGED vars
    BY <1>1, <1>14 DEF vars, writer, Fresh
  <1> QED
    BY <1>5, <1>6, <1>7, <1>8, <1>9, <1>10, <1>11, <1>12, <1>13, <1>14 DEF Next

LEMMA FreshInvariant == Spec => [](Typed /\ Fresh)
  <1>1. Init => Fresh
    BY DEF Init, Fresh
  <1>2. Spec => []Typed
    BY CopiesInvariant, PTL
  <1> QED
    BY <1>1, <1>2, FreshStep, PTL DEF Spec

\* Whatever the service and the hooks write and wherever they crash, the stored status
\* leaves the transition table only by a save that undoes the change of another process
\* (transition(), bump_event_stats(), set_oh_conversation_id(), fail_orphaned_runs()).
THEOREM StatusMovesLegally == Spec => MovesLegally
  <1>1. Typed /\ Fresh /\ [Next]_vars => [Moves]_vars
    BY FreshStep
  <1> QED
    BY <1>1, FreshInvariant, PTL DEF Spec, MovesLegally, Moves
-----------------------------------------------------------------------------
(***************************************************************************)
(* What the count and the list can miss.                                   *)
(***************************************************************************)
Drawing == {w \in Writers : pc[w] = "index"}

LEMMA WritersCounted ==
    ASSUME CountsBounded, NEW S, S \subseteq Writers, NEW T, T \subseteq Writers
    PROVE  /\ Cardinality(S) \in Nat
           /\ \A w \in Writers : S \ {w} \subseteq T => Cardinality(S) <= Cardinality(T) + 1
           /\ \A w \in S : T = S \ {w} => Cardinality(T) = Cardinality(S) - 1
           /\ S \subseteq T => Cardinality(S) <= Cardinality(T)
           /\ \A w \in Writers \ S : T = S \cup {w} => Cardinality(T) = Cardinality(S) + 1
  <1>1. IsFiniteSet(S) /\ IsFiniteSet(T)
    BY WritersFinite, FS_Subset
  <1>2. Cardinality(S) \in Nat /\ Cardinality(T) \in Nat
    BY <1>1, FS_CardinalityType
  <1>3. ASSUME NEW w \in Writers, S \ {w} \subseteq T
        PROVE  Cardinality(S) <= Cardinality(T) + 1
    <2>1. S \subseteq T \cup {w}
      BY <1>3
    <2>2. IsFiniteSet(T \cup {w}) /\ Cardinality(T \cup {w}) <= Cardinality(T) + 1
      BY <1>1, <1>2, FS_AddElement
    <2>3. Cardinality(S) <= Cardinality(T \cup {w}) /\ Cardinality(T \cup {w}) \in Nat
      BY <2>1, <2>2, FS_Subset, FS_CardinalityType
    <2> QED
      BY <1>2, <2>2, <2>3
  <1> QED
    BY <1>1, <1>2, <1>3, FS_Subset, FS_AddElement, FS_RemoveElement

\* A step that lists nothing and draws nothing: writers leave the sets only by a save
\* that counts, or by a crash.
LEMMA MissingKept ==
    ASSUME Typed, CountsBounded, CountKept, NumbersListed, NEW w \in Writers,
           UNCHANGED <<counter, visible, lost>>, crashes' \in Nat, doc'.count \in Nat,
           \A v \in Writers \ {w} : pc'[v] = pc[v],
           \/ /\ doc' = doc /\ crashes' = crashes + 1
           \/ /\ doc' = doc /\ crashes' = crashes
              /\ w \in Counting => w \in Counting'
              /\ w \in Drawing => w \in Drawing'
    PROVE  (CountKept /\ NumbersListed)'
  <1> DEFINE C == Cardinality(Counting)
             CN == Cardinality(Counting')
             D == Cardinality(Drawing)
             DN == Cardinality(Drawing')
             V == Cardinality(visible)
  <1>1. /\ Counting \subseteq Writers /\ Counting' \subseteq Writers
        /\ Drawing \subseteq Writers /\ Drawing' \subseteq Writers
    BY DEF Counting, Drawing
  <1>2. Counting \ {w} \subseteq Counting' /\ Drawing \ {w} \subseteq Drawing'
    BY DEF Counting, Drawing
  <1>3. /\ C \in Nat /\ CN \in Nat /\ D \in Nat /\ DN \in Nat /\ V \in Nat
        /\ C <= CN + 1 /\ D <= DN + 1
        /\ Counting \subseteq Counting' => C <= CN
        /\ Drawing \subseteq Drawing' => D <= DN
    BY <1>1, <1>2, WritersCounted, CountsTyped
  <1>4. /\ counter \in Nat /\ crashes \in Nat /\ doc.count \in Nat
    BY ConstantsAssumption DEF Typed, TypeOK, Docs
  <1>5. /\ lost \/ V <= doc.count + C + crashes
        /\ counter <= V + D + crashes
    BY DEF CountKept, NumbersListed, Drawing
  <1>6. /\ Cardinality(visible') = V
        /\ {v \in Writers : pc[v] = "index"}' = Drawing'
    BY DEF Drawing
  <1>7. \/ doc' = doc /\ crashes' = crashes + 1
        \/ doc' = doc /\ crashes' = crashes /\ C <= CN /\ D <= DN
    BY <1>2, <1>3
  <1> HIDE DEF C, CN, D, DN, V
  <1>8. counter' <= V + DN + crashes'
    <2>1. counter' = counter /\ counter <= V + D + crashes
      BY <1>5
    <2>2. CASE crashes' = crashes + 1
      BY <1>3, <1>4, <2>1, <2>2
    <2>3. CASE crashes' = crashes /\ D <= DN
      BY <1>3, <1>4, <2>1, <2>3
    <2> QED
      BY <1>7, <2>2, <2>3
  <1>9. V <= doc.count + C + crashes => V <= doc'.count + CN + crashes'
    BY <1>3, <1>4, <1>7
  <1>10. lost' \/ V <= doc'.count + CN + crashes'
    <2>1. lost' = lost
      OBVIOUS
    <2> QED
      BY <1>5, <1>9, <2>1
  <1> QED
    BY <1>6, <1>8, <1>10 DEF CountKept, NumbersListed, CN, DN, Drawing

LEMMA MissingStep ==
    Typed /\ Typed' /\ CountsBounded /\ NumbersDistinct /\ Fresh
      /\ CountKept /\ NumbersListed /\ [Next]_vars
        => (CountKept /\ NumbersListed)'
  <1> SUFFICES ASSUME Typed, Typed', CountsBounded, NumbersDistinct, Fresh,
                      CountKept, NumbersListed, [Next]_vars
               PROVE  (CountKept /\ NumbersListed)'
    OBVIOUS
  <1>0. /\ Service \in Writers /\ Hooks \subseteq Writers
        /\ pc \in [Writers -> Calls] /\ snap \in [Writers -> Docs]
        /\ doc \in Docs /\ doc.count \in Nat /\ doc'.count \in Nat
        /\ counter \in Nat /\ crashes \in Nat /\ crashes' \in Nat
        /\ visible \subseteq [seq : 1..MaxSeq, type : EventTypes, by : Writers]
    BY ConstantsAssumption DEF Writers, Typed, TypeOK, Docs
  <1> USE DEF Counting, Drawing
  <1>1. ASSUME NEW w \in Writers, NEW d, NEW es, Saves(w, d, es),
               \/ pc[w] = "idle" /\ UNCHANGED crashes
               \/ crashes' = crashes + 1
        PROVE  (CountKept /\ NumbersListed)'
    BY <1>0, <1>1, MissingKept DEF Saves
  <1>2. CASE CreateRun \/ SetConversation
    BY <1>0, <1>1, <1>2 DEF CreateRun, SetConversation
  <1>3. ASSUME NEW to \in ServiceTargets, ServiceTransition(to)
        PROVE  (CountKept /\ NumbersListed)'
    BY <1>0, <1>1, <1>3 DEF ServiceTransition, Transition
  <1>4. ASSUME NEW h \in Hooks, HookTransition(h) PROVE (CountKept /\ NumbersListed)'
    BY <1>0, <1>1, <1>4 DEF HookTransition, Transition
  <1>5. CASE Restart
    <2>1. CASE CanTransition(doc.status, "failed")
      BY <1>0, <1>1, <1>5, <2>1 DEF Restart
    <2>2. CASE ~CanTransition(doc.status, "failed")
      BY <1>0, <1>5, <2>2, MissingKept DEF Restart
    <2> QED
      BY <2>1, <2>2
  <1>6. ASSUME NEW h \in Hooks, HookDies(h) PROVE (CountKept /\ NumbersListed)'
    BY <1>0, <1>6, MissingKept DEF HookDies
  <1>7. ASSUME NEW w \in Writers, AppendEvent(w) \/ ReadForBump(w)
        PROVE  (CountKept /\ NumbersListed)'
    BY <1>0, <1>7, MissingKept DEF AppendEvent, ReadForBump
  <1>8. ASSUME NEW w \in Writers, Save(w) PROVE (CountKept /\ NumbersListed)'
    <2>1. /\ pc[w] \in {"save", "bump"} /\ doc' = snap[w]
          /\ pc' = [pc EXCEPT ![w] = AfterSave(todo[w])]
          /\ pc'[w] \in {"idle", "incr"}
          /\ lost' = (lost \/ w \in stale) /\ UNCHANGED <<counter, visible, crashes>>
      BY <1>0, <1>8 DEF Save, AfterSave, Saving
    <2>2. Counting' = Counting \ {w} /\ Drawing' = Drawing
      BY <1>0, <2>1
    <2>3. NumbersListed'
      BY <2>1, <2>2 DEF NumbersListed
    <2>4. CASE lost \/ w \in stale
      BY <2>1, <2>3, <2>4 DEF CountKept
    <2>5. CASE ~lost /\ w \notin stale /\ pc[w] = "save"
      <3>1. doc'.count = doc.count /\ Counting' = Counting
        BY <2>1, <2>2, <2>5 DEF Fresh
      <3> QED
        BY <2>1, <2>3, <3>1 DEF CountKept
    <2>6. CASE ~lost /\ w \notin stale /\ pc[w] = "bump"
      <3>1. doc'.count = doc.count + 1 /\ w \in Counting
        BY <2>1, <2>6 DEF Fresh
      <3>2. /\ Counting \subseteq Writers /\ Counting' \subseteq Writers
        OBVIOUS
      <3>3. /\ Cardinality(Counting') = Cardinality(Counting) - 1
            /\ Cardinality(Counting) \in Nat /\ Cardinality(visible) \in Nat
        BY <2>2, <3>1, <3>2, WritersCounted, CountsTyped
      <3>4. Cardinality(visible) <= doc.count + Cardinality(Counting) + crashes
        BY <2>6 DEF CountKept
      <3>5. Cardinality(visible') <= doc'.count + Cardinality(Counting') + crashes'
        BY <1>0, <2>1, <3>1, <3>3, <3>4
      <3> QED
        BY <2>3, <3>5 DEF CountKept
    <2> QED
      BY <2>1, <2>3, <2>4, <2>5, <2>6
  <1>9. ASSUME NEW w \in Writers, NextSeq(w) PROVE (CountKept /\ NumbersListed)'
    <2>1. /\ pc[w] = "incr" /\ pc' = [pc EXCEPT ![w] = "index"] /\ counter' = counter + 1
          /\ UNCHANGED <<doc, visible, lost, crashes>>
      BY <1>9 DEF NextSeq
    <2>2. Counting' = Counting /\ Drawing' = Drawing \cup {w} /\ w \notin Drawing
      BY <1>0, <2>1
    <2>3. CountKept'
      BY <2>1, <2>2 DEF CountKept
    <2>4. Drawing \subseteq Writers /\ Drawing' \subseteq Writers
      OBVIOUS
    <2>5. /\ Cardinality(Drawing') = Cardinality(Drawing) + 1
          /\ Cardinality(Drawing) \in Nat /\ Cardinality(visible) \in Nat
      BY <2>2, <2>4, WritersCounted, CountsTyped
    <2>6. counter <= Cardinality(visible) + Cardinality(Drawing) + crashes
      BY DEF NumbersListed
    <2>7. counter' <= Cardinality(visible') + Cardinality(Drawing') + crashes'
      BY <1>0, <2>1, <2>5, <2>6
    <2> QED
      BY <2>3, <2>7 DEF NumbersListed
  <1>10. ASSUME NEW w \in Writers, Index(w) PROVE (CountKept /\ NumbersListed)'
    <2> DEFINE new == [seq |-> seq[w], type |-> Head(todo[w]), by |-> w]
    <2>1. /\ visible' = visible \cup {new} /\ pc[w] = "index"
          /\ pc' = [pc EXCEPT ![w] = "read"] /\ UNCHANGED <<doc, counter, lost, crashes>>
      BY <1>10 DEF Index
    <2>2. new \notin visible
      <3>1. \A e \in visible : e.seq # seq[w]
        BY <2>1 DEF NumbersDistinct, Drawn
      <3> QED
        BY <3>1
    <2>3. Cardinality(visible') = Cardinality(visible) + 1 /\ Cardinality(visible) \in Nat
      BY <2>1, <2>2, FS_AddElement, FS_CardinalityType DEF CountsBounded
    <2>4. /\ Counting' = Counting \cup {w} /\ w \in Writers \ Counting
          /\ Drawing' = Drawing \ {w} /\ w \in Drawing
      BY <1>0, <2>1
    <2>5. /\ Drawing \subseteq Writers /\ Drawing' \subseteq Writers
          /\ Counting \subseteq Writers /\ Counting' \subseteq Writers
      OBVIOUS
    <2>6. /\ Cardinality(Drawing') = Cardinality(Drawing) - 1 /\ Cardinality(Drawing) \in Nat
          /\ Cardinality(Counting') = Cardinality(Counting) + 1 /\ Cardinality(Counting) \in Nat
      BY <2>4, <2>5, WritersCounted
    <2>7. /\ lost \/ Cardinality(visible) <= doc.count + Cardinality(Counting) + crashes
          /\ counter <= Cardinality(visible) + Cardinality(Drawing) + crashes
      BY DEF CountKept, NumbersListed
    <2>8. /\ lost' \/ Cardinality(visible') <= doc'.count + Cardinality(Counting') + crashes'
          /\ counter' <= Cardinality(visible') + Cardinality(Drawing') + crashes'
      BY <1>0, <2>1, <2>3, <2>6, <2>7
    <2> QED
      BY <2>8 DEF CountKept, NumbersListed
  <1>11. CASE UNCHANGED vars
    BY <1>11 DEF vars, writer, CountKept, NumbersListed
  <1> QED
    BY <1>2, <1>3, <1>4, <1>5, <1>6, <1>7, <1>8, <1>9, <1>10, <1>11 DEF Next

LEMMA MissingInvariant == Spec => [](CountKept /\ NumbersListed)
  <1>1. Init => CountKept /\ NumbersListed
    <2>1. Init => /\ visible = {} /\ doc.count = 0 /\ counter = 0 /\ crashes = 0
                  /\ Counting = {} /\ {w \in Writers : pc[w] = "index"} = {}
      BY DEF Init, NoDoc, Counting
    <2> QED
      BY <2>1, FS_EmptySet DEF CountKept, NumbersListed
  <1> QED
    BY <1>1, MissingStep, CountsInvariant, NumbersInvariant, FreshInvariant, PTL DEF Spec

\* Until a save undoes the change of another process, event_count lacks no more than the
\* events about to be counted and one for each crash of a writer (bump_event_stats()).
THEOREM CountIsKept == Spec => []CountKept
  BY MissingInvariant, PTL

\* Every number drawn is listed or about to be, but for one for each crash of a writer
\* (RunEventStore.append()).
THEOREM NumbersAreListed == Spec => []NumbersListed
  BY MissingInvariant, PTL
=============================================================================
