------------------------- MODULE AdministrationProofs -------------------------
(***************************************************************************)
(* Proofs about what administrators do: ProjectAccess, for any users,      *)
(* names, projects and faults, and LiveSettings, for any LLMs, servers,    *)
(* tools, rules, requests and turns.                                       *)
(***************************************************************************)
EXTENDS LiveSettings, ProjectAccess, TLAPS

(***************************************************************************)
(* Writes and their order.                                                 *)
(***************************************************************************)
Kinds == {"user", "name", "config", "index", "check", "members", "grant", "revoke", "up"}

\* What a write of each kind consists of.
LEMMA WriteFields ==
    ASSUME NEW w \in Writes
    PROVE  /\ w.kind \in Kinds
           /\ w.kind \in {"user", "name"} => w.uid \in Uids /\ w.name \in Names
           /\ w.kind = "config" => w.project \in Projects /\ w.to \in Configs
           /\ w.kind = "index" => w.project \in Projects /\ w.listed \in BOOLEAN
           /\ w.kind = "members" => w.project \in Projects /\ w.uids \in SUBSET Uids
           /\ w.kind \in {"grant", "revoke"} =>
                 /\ w.project \in Projects /\ w.uid \in Uids
                 /\ w \in [kind : {"grant", "revoke"}, project : Projects, uid : Uids]
  BY DEF Writes, Kinds

LEMMA GrantFields ==
    \A u, p : /\ Grant(u, p).kind = "grant"
              /\ Grant(u, p).uid = u
              /\ Grant(u, p).project = p
  BY DEF Grant

LEMMA RevokeFields ==
    \A u, p : /\ Revoke(u, p).kind = "revoke"
              /\ Revoke(u, p).uid = u
              /\ Revoke(u, p).project = p
  BY DEF Revoke

LEMMA ListedFields ==
    \A p, b : /\ Listed(p, b).kind = "index"
              /\ Listed(p, b).project = p
              /\ Listed(p, b).listed = b
  BY DEF Listed

LEMMA RankValues ==
    /\ Rank["user"] = 1 /\ Rank["name"] = 2 /\ Rank["config"] = 3 /\ Rank["index"] = 4
    /\ Rank["check"] = 5 /\ Rank["members"] = 6 /\ Rank["grant"] = 7
    /\ Rank["revoke"] = 8 /\ Rank["up"] = 9
  BY DEF Rank

\* A write is made when none of an earlier kind is left.
LEMMA DoneFirst ==
    ASSUME NEW w, Done(w), NEW x \in todo
    PROVE  /\ w.kind \in {"members", "grant", "revoke"} => x.kind \notin {"name", "check"}
           /\ w.kind = "name" => x.kind # "user"
           /\ w.kind \in {"grant", "revoke"} => x.kind # "members"
           /\ w.kind \in {"index", "up"} => x.kind # "config"
           /\ w.kind = "up" => x.kind # "index"
  <1>1. Rank[w.kind] <= Rank[x.kind]
    BY DEF Done
  <1> QED
    BY <1>1, RankValues
-----------------------------------------------------------------------------
(***************************************************************************)
(* What the handlers begin.                                                *)
(***************************************************************************)

\* A change of the configuration of a project, with the entry in the index that fits.
CatalogWrites(p, to) ==
    {[kind |-> "config", project |-> p, to |-> to], Listed(p, to # "none")}

\* The handlers that change a configuration; the default project is never deleted.
CatalogStep ==
    \E p \in Projects, to \in Configs :
        (p = Default => to # "none") /\ Begins(CatalogWrites(p, to))

LEMMA CatalogHandlers ==
    ASSUME TypeOK, NEW p \in Projects,
           \/ \E to \in Configs :
                 SaveProject(p, to) \/ PatchMeta(p, to) \/ PatchKnowledge(p, to)
           \/ PatchOther(p)
           \/ DeleteProject(p)
    PROVE  CatalogStep
  <1>1. ASSUME NEW to \in Configs, to # "none", Begins(Saved(p, to)) PROVE CatalogStep
    <2>1. Saved(p, to) = CatalogWrites(p, to)
      BY <1>1 DEF Saved, CatalogWrites
    <2> QED
      BY <1>1, <2>1 DEF CatalogStep
  <1>2. ASSUME NEW to \in Configs,
               SaveProject(p, to) \/ PatchMeta(p, to) \/ PatchKnowledge(p, to)
        PROVE  CatalogStep
    <2>1. CASE SaveProject(p, to)
      BY <1>1, <2>1 DEF SaveProject
    <2>2. CASE PatchMeta(p, to)
      <3>1. Patched(p, to) \in Configs /\ Patched(p, to) # "none"
        BY <2>2 DEF PatchMeta, Patched, Configs
      <3> QED
        BY <1>1, <2>2, <3>1 DEF PatchMeta
    <2>3. CASE PatchKnowledge(p, to)
      BY <1>1, <2>3 DEF PatchKnowledge
    <2> QED
      BY <1>2, <2>1, <2>2, <2>3
  <1>3. CASE PatchOther(p)
    <2> DEFINE to == IF config[p] = "none" THEN "on" ELSE config[p]
    <2>1. to \in Configs /\ to # "none"
      BY DEF TypeOK, Configs
    <2>2. Begins(Saved(p, to))
      BY <1>3 DEF PatchOther
    <2> HIDE DEF to
    <2> QED
      BY <1>1, <2>1, <2>2
  <1>4. CASE DeleteProject(p)
    <2>1. CatalogWrites(p, "none") =
             {[kind |-> "config", project |-> p, to |-> "none"], Listed(p, FALSE)}
      BY DEF CatalogWrites
    <2> QED
      BY <1>4, <2>1 DEF DeleteProject, CatalogStep, Configs
  <1> QED
    BY <1>2, <1>3, <1>4

\* The fields of what a change of the configuration writes.
LEMMA CatalogFields ==
    ASSUME NEW p \in Projects, NEW to \in Configs, NEW w \in CatalogWrites(p, to)
    PROVE  /\ w \in Writes
           /\ w.kind \in {"config", "index"}
           /\ w.project = p
           /\ w.kind = "config" => w.to = to
           /\ w.kind = "index" => w.listed = (to # "none") /\ w = Listed(p, to # "none")
  <1>1. CASE w = [kind |-> "config", project |-> p, to |-> to]
    BY <1>1 DEF Writes
  <1>2. CASE w = Listed(p, to # "none")
    <2>1. w \in [kind : {"index"}, project : Projects, listed : BOOLEAN]
      BY <1>2 DEF Listed
    <2> QED
      BY <1>2, <2>1, ListedFields DEF Writes
  <1> QED
    BY <1>1, <1>2 DEF CatalogWrites

\* The fields of what a change of the members writes.
LEMMA MembersFields ==
    ASSUME TypeOK, NEW p \in Projects, NEW next \in SUBSET Uids,
           NEW w \in SetMembers(p, next)
    PROVE  /\ w \in Writes
           /\ w.kind \in {"members", "grant", "revoke"}
           /\ w.project = p
           /\ w.kind = "members" => w.uids = next
           /\ w.kind = "grant" => w.uid \in next
           /\ w.kind = "revoke" => w.uid \in members[p] \ next
  <1>1. CASE w = [kind |-> "members", project |-> p, uids |-> next]
    BY <1>1 DEF Writes
  <1>2. ASSUME NEW u \in next, w = Grant(u, p) PROVE w \in Writes
    BY <1>2 DEF Grant, Writes
  <1>3. ASSUME NEW u \in members[p] \ next, w = Revoke(u, p) PROVE w \in Writes
    <2>1. u \in Uids
      BY DEF TypeOK
    <2> QED
      BY <1>3, <2>1 DEF Revoke, Writes
  <1> QED
    BY <1>1, <1>2, <1>3, GrantFields, RevokeFields DEF SetMembers

LEMMA NewUserFields ==
    ASSUME NEW u \in Uids, NEW n \in Names, NEW w \in NewUser(u, n)
    PROVE  w \in Writes /\ w.kind \in {"user", "name"} /\ w.uid = u /\ w.name = n
  BY DEF NewUser, Writes

\* What is written so that a user has the default project.
LEMMA DefaultFields ==
    ASSUME TypeOK, NEW u \in Uids, NEW w \in EnsureDefaultAccess(u)
    PROVE  /\ w \in Writes
           /\ w.kind \in {"members", "grant"}
           /\ w.project = Default
           /\ w.kind = "members" => w.uids = members[Default] \cup {u}
           /\ w.kind = "grant" => w.uid \in members[Default] \cup {u}
  <1>1. Default \in Projects /\ members[Default] \subseteq Uids
    BY ConstantsAssumption DEF TypeOK
  <1>2. CASE u \in members[Default]
    <2>1. w = Grant(u, Default)
      BY <1>2 DEF EnsureDefaultAccess
    <2>2. w \in Writes
      BY <1>1, <2>1 DEF Grant, Writes
    <2> QED
      BY <1>2, <2>1, <2>2, GrantFields
  <1>3. CASE u \notin members[Default]
    <2>1. w \in SetMembers(Default, members[Default] \cup {u})
      BY <1>3 DEF EnsureDefaultAccess
    <2>2. members[Default] \cup {u} \in SUBSET Uids
      BY <1>1
    <2> QED
      BY <1>1, <2>1, <2>2, MembersFields
  <1> QED
    BY <1>2, <1>3

\* What start-up writes.
LEMMA StartFields ==
    ASSUME TypeOK, NEW u \in Uids, Start(u), NEW w \in todo'
    PROVE  \/ w = Listed(Default, TRUE) /\ w \in Writes
           \/ w.kind \in {"check", "up"} /\ w \in Writes
           \/ /\ names[Bootstrap] = NoUser /\ users[u] = NoName
              /\ w \in NewUser(u, Bootstrap) \cup EnsureDefaultAccess(u)
           \/ /\ names[Bootstrap] = u /\ users[u] # NoName
              /\ w \in EnsureDefaultAccess(u)
  <1>1. CASE w = Listed(Default, TRUE)
    BY <1>1, ConstantsAssumption DEF Listed, Writes
  <1>2. CASE w = [kind |-> "check"] \/ w = [kind |-> "up"]
    <2>1. w \in [kind : {"check", "up"}]
      BY <1>2
    <2> QED
      BY <1>2, <2>1 DEF Writes
  <1>3. CASE names[Bootstrap] = NoUser
    BY <1>1, <1>2, <1>3 DEF Start
  <1>4. CASE names[Bootstrap] = u /\ u # NoUser
    <2>1. CASE users[u] # NoName
      BY <1>1, <1>2, <1>4, <2>1 DEF Start
    <2>2. CASE users[u] = NoName
      BY <1>1, <1>2, <1>4, <2>2 DEF Start
    <2> QED
      BY <2>1, <2>2
  <1>5. names[Bootstrap] = NoUser \/ (names[Bootstrap] = u /\ u # NoUser)
    BY ConstantsAssumption DEF Start
  <1> QED
    BY <1>3, <1>4, <1>5
-----------------------------------------------------------------------------
(***************************************************************************)
(* Types.                                                                  *)
(***************************************************************************)
LEMMA InitType == Init => TypeOK
  <1> SUFFICES ASSUME Init PROVE TypeOK
    OBVIOUS
  <1>1. faults \in 0..MaxFaults
    BY ConstantsAssumption DEF Init
  <1> QED
    BY <1>1 DEF Init, TypeOK, Configs

LEMMA BeginsType == ASSUME TypeOK, NEW ws \in SUBSET Writes, Begins(ws) PROVE TypeOK'
  BY DEF Begins, TypeOK, accounts, catalog, access, history

LEMMA HandlerType == TypeOK /\ HandlerStep => TypeOK'
  <1> SUFFICES ASSUME TypeOK, HandlerStep PROVE TypeOK'
    OBVIOUS
  <1>1. ASSUME NEW u \in Uids, NEW n \in Names, Register(u, n) PROVE TypeOK'
    <2>1. NewUser(u, n) \cup EnsureDefaultAccess(u) \subseteq Writes
      BY NewUserFields, DefaultFields
    <2> QED
      BY <1>1, <2>1, BeginsType DEF Register
  <1>2. CASE CatalogStep
    <2>1. PICK p \in Projects, to \in Configs : Begins(CatalogWrites(p, to))
      BY <1>2 DEF CatalogStep
    <2>2. CatalogWrites(p, to) \subseteq Writes
      BY CatalogFields
    <2> QED
      BY <2>1, <2>2, BeginsType
  <1>3. ASSUME NEW p \in Projects, NEW next \in SUBSET Uids, PutMembers(p, next)
        PROVE  TypeOK'
    <2>1. SetMembers(p, next) \subseteq Writes
      BY MembersFields
    <2> QED
      BY <1>3, <2>1, BeginsType DEF PutMembers
  <1>4. ASSUME NEW n \in Names, Login(n) PROVE TypeOK'
    BY <1>4 DEF Login, TypeOK, catalog, access, history
  <1> QED
    BY <1>1, <1>2, <1>3, <1>4, CatalogHandlers DEF HandlerStep

LEMMA WriteType == ASSUME TypeOK, NEW w \in todo, WriteStep(w) PROVE TypeOK'
  <1>1. w \in Writes /\ todo' \subseteq Writes
    BY DEF TypeOK, WriteStep, WriteUser, WriteName, WriteMembers, WriteGrant, WriteRevoke,
           WriteConfig, WriteIndex, Done
  <1>2. CASE WriteUser(w)
    BY <1>1, <1>2, WriteFields DEF WriteUser, TypeOK, catalog, access, history
  <1>3. CASE WriteName(w)
    BY <1>1, <1>3, WriteFields DEF WriteName, TypeOK, catalog, access, history
  <1>4. CASE WriteMembers(w)
    BY <1>1, <1>4, WriteFields DEF WriteMembers, TypeOK, accounts, catalog
  <1>5. CASE WriteGrant(w)
    <2>1. w.uid \in Uids /\ w.project \in Projects
      BY <1>1, <1>5, WriteFields DEF WriteGrant
    <2>2. projectsOf' \in [Uids -> SUBSET Projects]
      BY <1>5, <2>1 DEF WriteGrant, TypeOK
    <2> QED
      BY <1>1, <1>5, <2>2 DEF WriteGrant, TypeOK, accounts, catalog
  <1>6. CASE WriteRevoke(w)
    BY <1>1, <1>6, WriteFields DEF WriteRevoke, TypeOK, accounts, catalog, history
  <1>7. CASE WriteConfig(w)
    BY <1>1, <1>7, WriteFields DEF WriteConfig, TypeOK, accounts, access
  <1>8. CASE WriteIndex(w)
    BY <1>1, <1>8, WriteFields DEF WriteIndex, TypeOK, accounts, access
  <1> QED
    BY <1>2, <1>3, <1>4, <1>5, <1>6, <1>7, <1>8 DEF WriteStep

LEMMA NextType == TypeOK /\ [Next]_vars => TypeOK'
  <1> SUFFICES ASSUME TypeOK, [Next]_vars PROVE TypeOK'
    OBVIOUS
  <1>1. ASSUME NEW u \in Uids, TokenEnds(u) PROVE TypeOK'
    BY <1>1 DEF TokenEnds, TypeOK, catalog, access, history
  <1>2. ASSUME NEW u \in Uids, Start(u) PROVE TypeOK'
    <2>1. todo' \subseteq Writes
      BY <1>2, StartFields, NewUserFields, DefaultFields, ConstantsAssumption
    <2> QED
      BY <1>2, <2>1 DEF Start, TypeOK, accounts, catalog, access, history
  <1>3. ASSUME NEW w \in todo, Checks(w) \/ CheckFails(w) \/ ComesUp(w) PROVE TypeOK'
    BY <1>3 DEF Checks, CheckFails, ComesUp, Done, TypeOK, accounts, catalog, access, history
  <1>4. CASE Fault
    <2>1. faults' \in 0..MaxFaults
      BY <1>4, ConstantsAssumption DEF Fault, TypeOK
    <2>2. lost' \subseteq [kind : {"grant", "revoke"}, project : Projects, uid : Uids]
      BY <1>4, WriteFields DEF Fault, TypeOK, Pending
    <2>3. torn' \subseteq Projects
      BY <1>4, WriteFields DEF Fault, TypeOK, Pending
    <2>4. up' \in BOOLEAN
      BY <1>4 DEF Fault, TypeOK
    <2> QED
      BY <1>4, <2>1, <2>2, <2>3, <2>4 DEF Fault, TypeOK, accounts, catalog, access
  <1>5. CASE UNCHANGED vars
    BY <1>5 DEF vars, TypeOK, accounts, catalog, access, history
  <1> QED
    BY <1>1, <1>2, <1>3, <1>4, <1>5, HandlerType, WriteType DEF Next

\* Every reachable state is well typed.
THEOREM TypeCorrect == Spec => []TypeOK
  BY InitType, NextType, PTL DEF Spec
-----------------------------------------------------------------------------
(***************************************************************************)
(* The inductive invariants: what is left to be written, for the index,    *)
(* the members and the names.                                              *)
(***************************************************************************)

\* No write is left that would put the project into the index or take it out.
IndexSettled(p) == \A w \in todo : w.kind = "index" => w.project # p

ConfigDue(p) == \E w \in todo : w.kind = "config" /\ w.project = p

\* A configuration is never written without its index entry, and the index agrees with
\* what is stored before the first of the two writes and after the second.
CatalogOK ==
    /\ \A w, x \in todo : w.kind = "config" /\ x.kind = "config" => w = x
    /\ \A w, x \in todo : w.kind = "config" /\ x.kind = "index" =>
          x = Listed(w.project, w.to # "none")
    /\ \A w \in todo : w.kind = "config" => Listed(w.project, w.to # "none") \in todo
    /\ \A w \in todo : w.kind = "index" =>
          /\ w.project = Default => w.listed
          /\ w.project # Default /\ ~ConfigDue(w.project) =>
                (w.listed <=> config[w.project] # "none")
    /\ \A p \in Projects \ (torn \cup {Default}) : IndexSettled(p) \/ ConfigDue(p) =>
          (config[p] # "none" <=> p \in index)
    /\ up => Default \in index
    /\ \A w \in todo : w.kind = "up" => Default \in index \/ ~IndexSettled(Default)

\* The members and the users' projects differ by lost writes only.
LostSuffices ==
    \A u \in Uids, p \in Projects :
        /\ u \in members[p] /\ p \notin projectsOf[u] => Grant(u, p) \in lost
        /\ p \in projectsOf[u] /\ u \notin members[p] => Revoke(u, p) \in lost

\* A list of members that is to be written comes with the grants and revokes it needs; once
\* it is written, each of them is for a user who is a member, or is not.  Until start-up has
\* checked the default project, nothing of this has been written.
AccessOK ==
    /\ MembersHaveAccess
    /\ \A w, x \in todo : w.kind = "members" /\ x.kind = "members" => w = x
    /\ \A w \in todo : w.kind = "members" =>
          /\ \A u \in w.uids : Grant(u, w.project) \in todo
          /\ \A u \in members[w.project] \ w.uids : Revoke(u, w.project) \in todo
    /\ \A w \in todo : w.kind = "grant" =>
          /\ \A x \in todo : x.kind = "members" => x.project = w.project /\ w.uid \in x.uids
          /\ (\A x \in todo : x.kind # "members") => w.uid \in members[w.project]
    /\ \A w \in todo : w.kind = "revoke" =>
          /\ \A x \in todo : x.kind = "members" => x.project = w.project /\ w.uid \notin x.uids
          /\ (\A x \in todo : x.kind # "members") => w.uid \notin members[w.project]
    /\ (\E w \in todo : w.kind = "check") => LostSuffices

HasName(u)  == \E n \in Names : names[n] = u
GetsName(u) == \E w \in todo : w.kind = "name" /\ w.uid = u

\* A name that is to be written is free, and its user is new; who is to become a member has
\* a name before.
NamesOK ==
    /\ NamesFindUsers
    /\ \A w, x \in todo : w.kind \in {"user", "name"} /\ x.kind \in {"user", "name"} =>
          /\ w.uid = x.uid /\ w.name = x.name
          /\ w.kind = x.kind => w = x
    /\ \A w \in todo : w.kind = "user" => \E x \in todo : x.kind = "name"
    /\ \A w \in todo : w.kind = "name" =>
          /\ names[w.name] = NoUser
          /\ ~HasName(w.uid)
          /\ (\A x \in todo : x.kind # "user") => users[w.uid] = w.name
    /\ \A w \in todo : w.kind = "members" => \A u \in w.uids : HasName(u) \/ GetsName(u)
    /\ \A w \in todo : w.kind = "grant" => HasName(w.uid) \/ GetsName(w.uid)
-----------------------------------------------------------------------------
(***************************************************************************)
(* The index.                                                              *)
(***************************************************************************)
LEMMA InitCatalog == Init => CatalogOK
  BY DEF Init, CatalogOK

\* A step that leaves the catalog and what is left to be written for it alone.
LEMMA SameCatalog ==
    ASSUME CatalogOK, UNCHANGED <<config, index, torn, up>>,
           \A w : w.kind \in {"config", "index", "up"} => (w \in todo' <=> w \in todo)
    PROVE  CatalogOK'
  <1>1. \A p : IndexSettled(p)' <=> IndexSettled(p)
    BY DEF IndexSettled
  <1>2. \A p : ConfigDue(p)' <=> ConfigDue(p)
    BY DEF ConfigDue
  <1>3. \A p, b : Listed(p, b) \in todo' <=> Listed(p, b) \in todo
    BY ListedFields
  <1> QED
    BY <1>1, <1>2, <1>3 DEF CatalogOK

\* The writes of a begun change of the catalog agree, and the index is as before.
LEMMA BeginsCatalog == TypeOK /\ CatalogOK /\ CatalogStep => CatalogOK'
  <1> SUFFICES ASSUME TypeOK, CatalogOK, NEW p \in Projects, NEW to \in Configs,
                      p = Default => to # "none", Begins(CatalogWrites(p, to))
               PROVE  CatalogOK'
    BY DEF CatalogStep
  <1>1. todo = {} /\ todo' = CatalogWrites(p, to)
        /\ UNCHANGED <<config, index, torn, up>>
    BY DEF Begins, catalog, history
  <1>2. \A w \in todo' : /\ w.kind \in {"config", "index"} /\ w.project = p
                         /\ w.kind = "index" => w.listed = (to # "none")
                                                /\ w = Listed(p, to # "none")
                         /\ w.kind = "config" => w.to = to
    BY <1>1, CatalogFields
  <1>3. \A w, x \in todo' : w.kind = "config" /\ x.kind = "config" => w = x
    BY <1>1, ListedFields DEF CatalogWrites
  <1>4. Listed(p, to # "none") \in todo'
    BY <1>1 DEF CatalogWrites
  <1>5. ConfigDue(p)'
    BY <1>1 DEF ConfigDue, CatalogWrites
  <1>6. \A q \in Projects \ (torn' \cup {Default}) :
           IndexSettled(q)' \/ ConfigDue(q)' => (config'[q] # "none" <=> q \in index')
    BY <1>1 DEF CatalogOK, IndexSettled
  <1>7. \A w, x \in todo' : w.kind = "config" /\ x.kind = "index" =>
           x = Listed(w.project, w.to # "none")
    BY <1>2
  <1>8. \A w \in todo' : w.kind = "config" => Listed(w.project, w.to # "none") \in todo'
    BY <1>2, <1>4
  <1>9. \A w \in todo' : w.kind = "index" =>
           /\ w.project = Default => w.listed
           /\ ConfigDue(w.project)'
    BY <1>2, <1>5
  <1>10. \A w \in todo' : w.kind # "up"
    BY <1>2
  <1> QED
    BY <1>1, <1>3, <1>6, <1>7, <1>8, <1>9, <1>10 DEF CatalogOK

LEMMA StartCatalog ==
    ASSUME TypeOK, CatalogOK, NEW u \in Uids, Start(u) PROVE CatalogOK'
  <1>1. /\ todo = {} /\ ~up /\ ~up' /\ UNCHANGED <<config, index, torn>>
        /\ Listed(Default, TRUE) \in todo'
    BY DEF Start, catalog, history
  <1>2. \A w \in todo' : /\ w.kind # "config"
                         /\ w.kind = "index" => w = Listed(Default, TRUE)
    <2> SUFFICES ASSUME NEW w \in todo'
                 PROVE  w.kind # "config" /\ (w.kind = "index" => w = Listed(Default, TRUE))
      OBVIOUS
    <2>1. CASE w = Listed(Default, TRUE)
      BY <2>1, ListedFields
    <2>2. CASE w.kind \in {"check", "up"}
      BY <2>2
    <2>3. CASE w \in NewUser(u, Bootstrap)
      BY <2>3, NewUserFields, ConstantsAssumption
    <2>4. CASE w \in EnsureDefaultAccess(u)
      BY <2>4, DefaultFields
    <2> QED
      BY <2>1, <2>2, <2>3, <2>4, StartFields
  <1>3. ~IndexSettled(Default)'
    <2> DEFINE d == Listed(Default, TRUE)
    <2>1. d.kind = "index" /\ d.project = Default /\ d \in todo'
      BY <1>1, ListedFields
    <2> HIDE DEF d
    <2> QED
      BY <2>1 DEF IndexSettled
  <1>4. \A q \in Projects \ (torn' \cup {Default}) :
           IndexSettled(q)' \/ ConfigDue(q)' => (config'[q] # "none" <=> q \in index')
    BY <1>1 DEF CatalogOK, IndexSettled
  <1>5. \A w \in todo' : w.kind = "index" => w.project = Default /\ w.listed
    BY <1>2, ListedFields, ZenonT(40)
  <1> QED
    BY <1>1, <1>2, <1>3, <1>4, <1>5 DEF CatalogOK

LEMMA ConfigCatalog ==
    ASSUME TypeOK, CatalogOK, NEW w \in todo, WriteConfig(w) PROVE CatalogOK'
  <1> DEFINE p == w.project
  <1>1. /\ w.kind = "config" /\ p \in Projects /\ w.to \in Configs
        /\ config' = [config EXCEPT ![p] = w.to] /\ torn' = torn \ {p}
        /\ todo' = todo \ {w} /\ UNCHANGED <<index, up>>
    BY WriteFields DEF WriteConfig, Done, TypeOK
  <1>2. \A x \in todo' : x.kind # "config"
    BY <1>1 DEF CatalogOK
  <1>3. \A x \in todo' : x.kind = "index" => x = Listed(p, w.to # "none")
    BY <1>1 DEF CatalogOK
  <1>4. Listed(p, w.to # "none") \in todo'
    BY <1>1, ListedFields DEF CatalogOK
  <1>5. \A x \in todo' : x.kind = "index" =>
           /\ x.project = Default => x.listed
           /\ x.project # Default => (x.listed <=> config'[x.project] # "none")
    <2> SUFFICES ASSUME NEW x \in todo', x.kind = "index"
                 PROVE  /\ x.project = Default => x.listed
                        /\ x.project # Default => (x.listed <=> config'[x.project] # "none")
      OBVIOUS
    <2>1. config'[p] = w.to
      BY <1>1 DEF TypeOK
    <2>2. x.project = p /\ x.listed = (w.to # "none")
      BY <1>3, ListedFields
    <2>3. x.project = Default => x.listed
      BY <1>1 DEF CatalogOK
    <2> QED
      BY <2>1, <2>2, <2>3
  <1>6. ASSUME NEW q \in Projects \ (torn' \cup {Default}), IndexSettled(q)' \/ ConfigDue(q)'
        PROVE  config'[q] # "none" <=> q \in index'
    <2>1. ~ConfigDue(q)'
      BY <1>2 DEF ConfigDue
    <2>2. q # p
      BY <1>4, <1>6, <2>1, ListedFields DEF IndexSettled
    <2>3. config'[q] = config[q] /\ q \notin torn
      BY <1>1, <2>2 DEF TypeOK
    <2>4. IndexSettled(q)
      BY <1>1, <1>6, <2>1 DEF IndexSettled
    <2> QED
      BY <1>1, <2>3, <2>4 DEF CatalogOK
  <1>7. \A x \in todo' : x.kind = "up" => Default \in index' \/ ~IndexSettled(Default)'
    BY <1>1 DEF CatalogOK, IndexSettled
  <1> QED
    BY <1>1, <1>2, <1>5, <1>6, <1>7 DEF CatalogOK

LEMMA IndexCatalog ==
    ASSUME TypeOK, CatalogOK, NEW w \in todo, WriteIndex(w) PROVE CatalogOK'
  <1> DEFINE p == w.project
  <1>1. /\ w.kind = "index" /\ p \in Projects /\ w.listed \in BOOLEAN
        /\ index' = IF w.listed THEN index \cup {p} ELSE index \ {p}
        /\ torn' = torn \ {p}
        /\ todo' = todo \ {w} /\ UNCHANGED <<config, up>>
    BY WriteFields DEF WriteIndex, Done, TypeOK
  <1>2. \A x \in todo : x.kind # "config"
    BY <1>1, DoneFirst DEF WriteIndex
  <1>3. /\ p = Default => w.listed
        /\ p # Default => (w.listed <=> config[p] # "none")
    BY <1>1, <1>2 DEF CatalogOK, ConfigDue
  <1>4. Default \in index => Default \in index'
    BY <1>1, <1>3
  <1>5. ASSUME NEW q \in Projects \ (torn' \cup {Default}), IndexSettled(q)' \/ ConfigDue(q)'
        PROVE  config'[q] # "none" <=> q \in index'
    <2>1. CASE q = p
      BY <1>1, <1>3, <1>5, <2>1
    <2>2. CASE q # p
      <3>1. q \notin torn /\ (q \in index' <=> q \in index)
        BY <1>1, <2>2
      <3>2. IndexSettled(q)
        BY <1>1, <1>2, <1>5, <2>2 DEF IndexSettled, ConfigDue
      <3> QED
        BY <1>1, <3>1, <3>2 DEF CatalogOK
    <2> QED
      BY <2>1, <2>2
  <1>6. ASSUME NEW x \in todo', x.kind = "up"
        PROVE  Default \in index' \/ ~IndexSettled(Default)'
    <2>1. CASE p = Default
      BY <1>1, <1>3, <2>1
    <2>2. CASE p # Default
      <3>1. IndexSettled(Default)' => IndexSettled(Default)
        BY <1>1, <2>2 DEF IndexSettled
      <3> QED
        BY <1>1, <1>4, <1>6, <3>1 DEF CatalogOK
    <2> QED
      BY <2>1, <2>2
  <1>7. \A x \in todo' : x.kind = "index" =>
           /\ x.project = Default => x.listed
           /\ x.project # Default => (x.listed <=> config'[x.project] # "none")
    BY <1>1, <1>2 DEF CatalogOK, ConfigDue
  <1> QED
    BY <1>1, <1>2, <1>4, <1>5, <1>6, <1>7 DEF CatalogOK

LEMMA FaultCatalog == TypeOK /\ CatalogOK /\ Fault => CatalogOK'
  <1> SUFFICES ASSUME TypeOK, CatalogOK, Fault PROVE CatalogOK'
    OBVIOUS
  <1>0. todo' = {} /\ config' = config /\ index' = index /\ (up' = FALSE \/ up' = up)
    BY DEF Fault, catalog
  <1>1. torn' = IF Pending({"config"}) = {}
                THEN torn \cup {w.project : w \in Pending({"index"})} ELSE torn
    BY DEF Fault
  <1>2. ASSUME NEW q \in Projects \ (torn' \cup {Default})
        PROVE  config[q] # "none" <=> q \in index
    <2>1. q \notin torn
      BY <1>1, <1>2
    <2>2. CASE Pending({"config"}) = {}
      <3>1. IndexSettled(q)
        BY <1>1, <1>2, <2>2 DEF IndexSettled, Pending
      <3> QED
        BY <1>2, <2>1, <3>1 DEF CatalogOK
    <2>3. ASSUME NEW w \in todo, w.kind = "config" PROVE config[q] # "none" <=> q \in index
      <3>1. IndexSettled(q) \/ ConfigDue(q)
        BY <2>3, ListedFields DEF CatalogOK, IndexSettled, ConfigDue
      <3> QED
        BY <1>2, <2>1, <3>1 DEF CatalogOK
    <2> QED
      BY <2>2, <2>3 DEF Pending
  <1>3. up => Default \in index
    BY DEF CatalogOK
  <1>4. up' => Default \in index'
    BY <1>0, <1>3
  <1>5. \A q \in Projects \ (torn' \cup {Default}) : config'[q] # "none" <=> q \in index'
    BY <1>0, <1>2
  <1> QED
    BY <1>0, <1>4, <1>5 DEF CatalogOK

LEMMA NextCatalog == TypeOK /\ CatalogOK /\ [Next]_vars => CatalogOK'
  <1> SUFFICES ASSUME TypeOK, CatalogOK, [Next]_vars PROVE CatalogOK'
    OBVIOUS
  <1>1. ASSUME NEW u \in Uids, NEW n \in Names, Register(u, n) PROVE CatalogOK'
    <2>1. /\ todo = {} /\ todo' = NewUser(u, n) \cup EnsureDefaultAccess(u)
          /\ UNCHANGED <<config, index, torn, up>>
      BY <1>1 DEF Register, Begins, catalog, history
    <2>2. \A w \in todo' : w.kind \notin {"config", "index", "up"}
      BY <2>1, NewUserFields, DefaultFields
    <2> QED
      BY <2>1, <2>2, SameCatalog
  <1>2. ASSUME NEW p \in Projects, NEW next \in SUBSET Uids, PutMembers(p, next)
        PROVE  CatalogOK'
    <2>1. /\ todo = {} /\ todo' = SetMembers(p, next)
          /\ UNCHANGED <<config, index, torn, up>>
      BY <1>2 DEF PutMembers, Begins, catalog, history
    <2>2. \A w \in todo' : w.kind \notin {"config", "index", "up"}
      BY <2>1, MembersFields
    <2> QED
      BY <2>1, <2>2, SameCatalog
  <1>3. ASSUME NEW n \in Names, Login(n) PROVE CatalogOK'
    BY <1>3, SameCatalog DEF Login, catalog, history
  <1>4. ASSUME NEW u \in Uids, TokenEnds(u) PROVE CatalogOK'
    BY <1>4, SameCatalog DEF TokenEnds, catalog, history
  <1>5. ASSUME NEW w \in todo,
               \/ WriteUser(w) \/ WriteName(w) \/ WriteMembers(w) \/ WriteGrant(w)
               \/ WriteRevoke(w) \/ Checks(w)
        PROVE  CatalogOK'
    <2>1. /\ w.kind \in {"user", "name", "members", "grant", "revoke", "check"}
          /\ todo' = todo \ {w} /\ UNCHANGED <<config, index, torn, up>>
      BY <1>5 DEF WriteUser, WriteName, WriteMembers, WriteGrant, WriteRevoke, Checks, Done,
                  catalog, history
    <2> QED
      BY <2>1, SameCatalog
  <1>6. ASSUME NEW w \in todo, CheckFails(w) PROVE CatalogOK'
    <2>1. \A x \in todo : x.kind \notin {"config", "index"}
      BY <1>6, RankValues DEF CheckFails
    <2>2. todo' = {} /\ UNCHANGED <<config, index, torn, up>>
      BY <1>6 DEF CheckFails, catalog, history
    <2> QED
      BY <2>1, <2>2 DEF CatalogOK, IndexSettled
  <1>7. ASSUME NEW w \in todo, ComesUp(w) PROVE CatalogOK'
    <2>1. /\ w.kind = "up" /\ up' /\ todo' = todo \ {w}
          /\ UNCHANGED <<config, index, torn>>
      BY <1>7 DEF ComesUp, Done, catalog, history
    <2>2. \A x \in todo : x.kind \notin {"config", "index"}
      BY <1>7, <2>1, DoneFirst DEF ComesUp
    <2>3. Default \in index
      BY <2>1, <2>2 DEF CatalogOK, IndexSettled
    <2> QED
      BY <2>1, <2>2, <2>3 DEF CatalogOK, IndexSettled
  <1>8. CASE UNCHANGED vars
    BY <1>8, SameCatalog DEF vars, catalog, history
  <1> QED
    BY <1>1, <1>2, <1>3, <1>4, <1>5, <1>6, <1>7, <1>8, CatalogHandlers, BeginsCatalog,
       StartCatalog, ConfigCatalog, IndexCatalog, FaultCatalog
       DEF Next, HandlerStep, WriteStep
-----------------------------------------------------------------------------
(***************************************************************************)
(* Members and access.                                                     *)
(***************************************************************************)

\* MembersHaveAccess with the writes that are left.
Matched ==
    \A u \in Uids, p \in Projects :
        /\ u \in members[p] /\ p \notin projectsOf[u] => Grant(u, p) \in lost \cup todo
        /\ p \in projectsOf[u] /\ u \notin members[p] => Revoke(u, p) \in lost \cup todo

LEMMA MatchedIs == MembersHaveAccess <=> Matched
  <1>1. \A u, p : Grant(u, p) \in (lost \cup Pending({"grant"}))
                   <=> Grant(u, p) \in (lost \cup todo)
    BY GrantFields DEF Pending
  <1>2. \A u, p : Revoke(u, p) \in (lost \cup Pending({"revoke"}))
                   <=> Revoke(u, p) \in (lost \cup todo)
    BY RevokeFields DEF Pending
  <1> QED
    BY <1>1, <1>2, Zenon DEF MembersHaveAccess, Matched

LEMMA MatchedNext == MembersHaveAccess' <=> Matched'
  <1>1. \A u, p : Grant(u, p) \in (lost \cup Pending({"grant"}))'
                   <=> Grant(u, p) \in (lost \cup todo)'
    BY GrantFields DEF Pending
  <1>2. \A u, p : Revoke(u, p) \in (lost \cup Pending({"revoke"}))'
                   <=> Revoke(u, p) \in (lost \cup todo)'
    BY RevokeFields DEF Pending
  <1> QED
    BY <1>1, <1>2, Zenon DEF MembersHaveAccess, Matched

LEMMA InitAccess == Init => AccessOK
  <1> SUFFICES ASSUME Init PROVE AccessOK
    OBVIOUS
  <1>1. Matched
    BY DEF Init, Matched
  <1> QED
    BY <1>1, MatchedIs DEF Init, AccessOK

\* A step that leaves members and access and what is left to be written for them alone.
LEMMA SameAccess ==
    ASSUME AccessOK, UNCHANGED <<members, projectsOf, lost>>,
           \A w : w.kind \in {"members", "grant", "revoke"} => (w \in todo' <=> w \in todo),
           todo = {} \/ todo' \subseteq todo
    PROVE  AccessOK'
  <1>1. /\ \A u, p : (Grant(u, p) \in todo') <=> (Grant(u, p) \in todo)
        /\ \A u, p : (Revoke(u, p) \in todo') <=> (Revoke(u, p) \in todo)
    BY GrantFields, RevokeFields
  <1>2. Matched
    BY MatchedIs DEF AccessOK
  <1>3. Matched'
    BY <1>1, <1>2 DEF Matched
  <1>4. (\E w \in todo' : w.kind = "check") => LostSuffices'
    <2>1. CASE todo = {}
      BY <1>2, <2>1 DEF Matched, LostSuffices
    <2>2. CASE todo' \subseteq todo
      BY <2>2 DEF AccessOK, LostSuffices
    <2> QED
      BY <2>1, <2>2
  <1>5. \A w : w \in todo' /\ w.kind \in {"members", "grant", "revoke"} => w \in todo
    OBVIOUS
  <1>6. \A w : w \in todo /\ w.kind = "members" => w \in todo'
    OBVIOUS
  <1>7. \A w \in todo' : w.kind = "members" =>
           /\ \A u \in w.uids : Grant(u, w.project) \in todo'
           /\ \A u \in members'[w.project] \ w.uids : Revoke(u, w.project) \in todo'
    BY <1>1, <1>5 DEF AccessOK
  <1>8. \A w \in todo' : w.kind = "grant" =>
          /\ \A x \in todo' : x.kind = "members" => x.project = w.project /\ w.uid \in x.uids
          /\ (\A x \in todo' : x.kind # "members") => w.uid \in members'[w.project]
    BY <1>5, <1>6 DEF AccessOK
  <1>9. \A w \in todo' : w.kind = "revoke" =>
          /\ \A x \in todo' : x.kind = "members" => x.project = w.project /\ w.uid \notin x.uids
          /\ (\A x \in todo' : x.kind # "members") => w.uid \notin members'[w.project]
    BY <1>5, <1>6 DEF AccessOK
  <1>10. \A w, x \in todo' : w.kind = "members" /\ x.kind = "members" => w = x
    BY <1>5 DEF AccessOK
  <1> QED
    BY <1>3, <1>4, <1>7, <1>8, <1>9, <1>10, MatchedNext DEF AccessOK

\* A begun change of the members.
LEMMA BeginsAccess ==
    ASSUME TypeOK, AccessOK, todo = {}, UNCHANGED <<members, projectsOf, lost>>,
           NEW p \in Projects, NEW next \in SUBSET Uids,
           \A w : w.kind \in {"members", "grant", "revoke"} =>
                    (w \in todo' <=> w \in SetMembers(p, next))
    PROVE  AccessOK'
  <1>1. \A w \in todo' : w.kind \in {"members", "grant", "revoke"} =>
           /\ w.project = p
           /\ w.kind = "members" => w.uids = next
           /\ w.kind = "grant" => w.uid \in next
           /\ w.kind = "revoke" => w.uid \in members[p] \ next
    BY MembersFields
  <1>2. \A u \in next : Grant(u, p) \in todo'
    BY GrantFields DEF SetMembers
  <1>3. \A u \in members[p] \ next : Revoke(u, p) \in todo'
    BY RevokeFields DEF SetMembers
  <1>4. \A w, x \in todo' : w.kind = "members" /\ x.kind = "members" => w = x
    BY GrantFields, RevokeFields DEF SetMembers
  <1>5. \E w \in todo' : w.kind = "members"
    <2> DEFINE w == [kind |-> "members", project |-> p, uids |-> next]
    <2>1. w.kind = "members" /\ w \in SetMembers(p, next)
      BY DEF SetMembers
    <2> HIDE DEF w
    <2> QED
      BY <2>1
  <1>6. Matched' /\ LostSuffices'
    BY MatchedIs DEF Matched, LostSuffices, AccessOK
  <1> QED
    BY <1>1, <1>2, <1>3, <1>4, <1>5, <1>6, MatchedNext DEF AccessOK

LEMMA DefaultAccess ==
    ASSUME TypeOK, AccessOK, todo = {}, UNCHANGED <<members, projectsOf, lost>>, NEW u \in Uids,
           \A w : w.kind \in {"members", "grant", "revoke"} =>
                    (w \in todo' <=> w \in EnsureDefaultAccess(u))
    PROVE  AccessOK'
  <1>0. Default \in Projects /\ members[Default] \cup {u} \in SUBSET Uids
    BY ConstantsAssumption DEF TypeOK
  <1>1. CASE u \in members[Default]
    <2>1. \A w \in todo' : w.kind \in {"members", "grant", "revoke"} => w = Grant(u, Default)
      BY <1>1 DEF EnsureDefaultAccess
    <2>2. Matched' /\ LostSuffices'
      BY MatchedIs DEF Matched, LostSuffices, AccessOK
    <2> QED
      BY <1>1, <2>1, <2>2, GrantFields, MatchedNext DEF AccessOK
  <1>2. CASE u \notin members[Default]
    BY <1>0, <1>2, BeginsAccess DEF EnsureDefaultAccess
  <1> QED
    BY <1>1, <1>2

LEMMA MembersAccess ==
    ASSUME TypeOK, AccessOK, NEW w \in todo, WriteMembers(w) PROVE AccessOK'
  <1> DEFINE q == w.project
  <1>1. /\ w.kind = "members" /\ q \in Projects /\ w.uids \in SUBSET Uids
        /\ members' = [members EXCEPT ![q] = w.uids] /\ projectsOf' = projectsOf
        /\ todo' = todo \ {w}
        /\ lost' = {l \in lost : l.project = q => l.kind = "revoke" /\ l.uid \notin w.uids}
    BY WriteFields DEF WriteMembers, Done, TypeOK
  <1>2. \A x \in todo' : x.kind \notin {"members", "check"}
    BY <1>1, DoneFirst DEF AccessOK, WriteMembers
  <1>3. members'[q] = w.uids /\ \A p \in Projects : p # q => members'[p] = members[p]
    BY <1>1 DEF TypeOK
  <1>4. \A x \in todo : x.kind # "members" => x \in todo'
    BY <1>1
  <1>5. ASSUME NEW u \in Uids, NEW p \in Projects, u \in members'[p], p \notin projectsOf'[u]
        PROVE  Grant(u, p) \in lost' \cup todo'
    <2>1. CASE p = q
      BY <1>1, <1>3, <1>4, <1>5, <2>1, GrantFields DEF AccessOK
    <2>2. CASE p # q
      <3>1. Grant(u, p) \in lost \cup todo
        BY <1>1, <1>3, <1>5, <2>2, MatchedIs DEF Matched, AccessOK
      <3> QED
        BY <1>1, <1>4, <2>2, <3>1, GrantFields
    <2> QED
      BY <2>1, <2>2
  <1>6. ASSUME NEW u \in Uids, NEW p \in Projects, p \in projectsOf'[u], u \notin members'[p]
        PROVE  Revoke(u, p) \in lost' \cup todo'
    <2>1. CASE p = q /\ u \in members[p]
      BY <1>1, <1>3, <1>4, <1>6, <2>1, RevokeFields DEF AccessOK
    <2>2. CASE p # q \/ u \notin members[p]
      <3>1. Revoke(u, p) \in lost \cup todo
        BY <1>1, <1>3, <1>6, <2>2, MatchedIs DEF Matched, AccessOK
      <3>2. p = q => u \notin w.uids
        BY <1>3, <1>6
      <3> QED
        BY <1>1, <1>4, <3>1, <3>2, RevokeFields
    <2> QED
      BY <2>1, <2>2
  <1>7. Matched'
    BY <1>5, <1>6 DEF Matched
  <1>8. \A x \in todo' : /\ x.kind = "grant" => x.uid \in members'[x.project]
                         /\ x.kind = "revoke" => x.uid \notin members'[x.project]
    BY <1>1, <1>3 DEF AccessOK
  <1> QED
    BY <1>2, <1>7, <1>8, MatchedNext DEF AccessOK

LEMMA GrantAccess ==
    ASSUME TypeOK, AccessOK, NEW w \in todo, WriteGrant(w) PROVE AccessOK'
  <1>1. /\ w.kind = "grant" /\ w.project \in Projects /\ w.uid \in Uids
        /\ projectsOf' = [projectsOf EXCEPT ![w.uid] = projectsOf[w.uid] \cup {w.project}]
        /\ members' = members /\ todo' = todo \ {w} /\ lost' = lost \ {w}
    BY WriteFields DEF WriteGrant, Done, TypeOK
  <1>2. \A x \in todo : x.kind \notin {"members", "check"}
    BY <1>1, DoneFirst DEF WriteGrant
  <1>3. w.uid \in members[w.project]
    BY <1>1, <1>2 DEF AccessOK
  <1>4. ASSUME NEW u \in Uids, NEW p \in Projects, u \in members'[p], p \notin projectsOf'[u]
        PROVE  Grant(u, p) \in lost' \cup todo'
    <2>1. p \notin projectsOf[u] /\ ~(u = w.uid /\ p = w.project)
      BY <1>1, <1>4 DEF TypeOK
    <2>2. Grant(u, p) \in lost \cup todo
      BY <1>1, <1>4, <2>1, MatchedIs DEF Matched, AccessOK
    <2> QED
      BY <1>1, <2>1, <2>2, GrantFields
  <1>5. ASSUME NEW u \in Uids, NEW p \in Projects, p \in projectsOf'[u], u \notin members'[p]
        PROVE  Revoke(u, p) \in lost' \cup todo'
    <2>1. p \in projectsOf[u]
      BY <1>1, <1>3, <1>5 DEF TypeOK
    <2>2. Revoke(u, p) \in lost \cup todo
      BY <1>1, <1>5, <2>1, MatchedIs DEF Matched, AccessOK
    <2> QED
      BY <1>1, <2>2, RevokeFields
  <1>6. Matched'
    BY <1>4, <1>5 DEF Matched
  <1> QED
    BY <1>1, <1>2, <1>6, MatchedNext DEF AccessOK

LEMMA RevokeAccess ==
    ASSUME TypeOK, AccessOK, NEW w \in todo, WriteRevoke(w) PROVE AccessOK'
  <1>1. /\ w.kind = "revoke" /\ w.project \in Projects /\ w.uid \in Uids
        /\ projectsOf' = [projectsOf EXCEPT ![w.uid] = projectsOf[w.uid] \ {w.project}]
        /\ members' = members /\ todo' = todo \ {w} /\ lost' = lost
    BY WriteFields DEF WriteRevoke, Done, TypeOK, history
  <1>2. \A x \in todo : x.kind \notin {"members", "check"}
    BY <1>1, DoneFirst DEF WriteRevoke
  <1>3. w.uid \notin members[w.project]
    BY <1>1, <1>2 DEF AccessOK
  <1>4. ASSUME NEW u \in Uids, NEW p \in Projects, u \in members'[p], p \notin projectsOf'[u]
        PROVE  Grant(u, p) \in lost' \cup todo'
    <2>1. p \notin projectsOf[u]
      BY <1>1, <1>3, <1>4 DEF TypeOK
    <2>2. Grant(u, p) \in lost \cup todo
      BY <1>1, <1>4, <2>1, MatchedIs DEF Matched, AccessOK
    <2> QED
      BY <1>1, <2>2, GrantFields
  <1>5. ASSUME NEW u \in Uids, NEW p \in Projects, p \in projectsOf'[u], u \notin members'[p]
        PROVE  Revoke(u, p) \in lost' \cup todo'
    <2>1. p \in projectsOf[u] /\ ~(u = w.uid /\ p = w.project)
      BY <1>1, <1>5 DEF TypeOK
    <2>2. Revoke(u, p) \in lost \cup todo
      BY <1>1, <1>5, <2>1, MatchedIs DEF Matched, AccessOK
    <2> QED
      BY <1>1, <2>1, <2>2, RevokeFields
  <1>6. Matched'
    BY <1>4, <1>5 DEF Matched
  <1> QED
    BY <1>1, <1>2, <1>6, MatchedNext DEF AccessOK

\* Every write a fault loses whose absence shows is recorded as lost.
LEMMA FaultAccess == TypeOK /\ AccessOK /\ Fault => AccessOK'
  <1> SUFFICES ASSUME TypeOK, AccessOK, Fault PROVE AccessOK'
    OBVIOUS
  <1>1. /\ todo' = {} /\ members' = members /\ projectsOf' = projectsOf
        /\ lost' = lost \cup {w \in Pending({"grant", "revoke"}) : Differs(w)}
    BY DEF Fault, access
  <1>2. ASSUME NEW u \in Uids, NEW p \in Projects
        PROVE  /\ u \in members[p] /\ p \notin projectsOf[u] => Grant(u, p) \in lost'
               /\ p \in projectsOf[u] /\ u \notin members[p] => Revoke(u, p) \in lost'
    <2>1. ASSUME u \in members[p], p \notin projectsOf[u] PROVE Grant(u, p) \in lost'
      <3>1. Grant(u, p) \in lost \cup todo
        BY <2>1, MatchedIs DEF Matched, AccessOK
      <3>2. Differs(Grant(u, p))
        BY <2>1, GrantFields DEF Differs
      <3> QED
        BY <1>1, <3>1, <3>2, GrantFields DEF Pending
    <2>2. ASSUME p \in projectsOf[u], u \notin members[p] PROVE Revoke(u, p) \in lost'
      <3>1. Revoke(u, p) \in lost \cup todo
        BY <2>2, MatchedIs DEF Matched, AccessOK
      <3>2. Differs(Revoke(u, p))
        BY <2>2, RevokeFields DEF Differs
      <3> QED
        BY <1>1, <3>1, <3>2, RevokeFields DEF Pending
    <2> QED
      BY <2>1, <2>2
  <1>3. Matched'
    BY <1>1, <1>2 DEF Matched
  <1> QED
    BY <1>1, <1>3, MatchedNext DEF AccessOK

LEMMA NextAccess == TypeOK /\ AccessOK /\ [Next]_vars => AccessOK'
  <1> SUFFICES ASSUME TypeOK, AccessOK, [Next]_vars PROVE AccessOK'
    OBVIOUS
  <1>1. ASSUME NEW u \in Uids, NEW n \in Names, Register(u, n) PROVE AccessOK'
    <2>1. /\ todo = {} /\ todo' = NewUser(u, n) \cup EnsureDefaultAccess(u)
          /\ UNCHANGED <<members, projectsOf, lost>>
      BY <1>1 DEF Register, Begins, access, history
    <2>2. \A w : w.kind \in {"members", "grant", "revoke"} =>
                    (w \in todo' <=> w \in EnsureDefaultAccess(u))
      BY <2>1, NewUserFields
    <2> QED
      BY <2>1, <2>2, DefaultAccess
  <1>2. CASE CatalogStep
    <2>1. PICK p \in Projects, to \in Configs : Begins(CatalogWrites(p, to))
      BY <1>2 DEF CatalogStep
    <2>2. /\ todo = {} /\ todo' = CatalogWrites(p, to)
          /\ UNCHANGED <<members, projectsOf, lost>>
      BY <2>1 DEF Begins, access, history
    <2>3. \A w : w.kind \in {"members", "grant", "revoke"} => (w \in todo' <=> w \in todo)
      BY <2>2, CatalogFields
    <2> QED
      BY <2>2, <2>3, SameAccess
  <1>3. ASSUME NEW p \in Projects, NEW next \in SUBSET Uids, PutMembers(p, next)
        PROVE  AccessOK'
    BY <1>3, BeginsAccess DEF PutMembers, Begins, access, history
  <1>4. ASSUME NEW n \in Names, Login(n) PROVE AccessOK'
    BY <1>4, SameAccess DEF Login, access, history
  <1>5. ASSUME NEW u \in Uids, TokenEnds(u) PROVE AccessOK'
    BY <1>5, SameAccess DEF TokenEnds, access, history
  <1>6. ASSUME NEW u \in Uids, Start(u) PROVE AccessOK'
    <2>1. todo = {} /\ UNCHANGED <<members, projectsOf, lost>>
      BY <1>6 DEF Start, access, history
    <2>2. CASE \A w \in todo' : w.kind \notin {"members", "grant", "revoke"}
      BY <2>1, <2>2, SameAccess
    <2>3. CASE EnsureDefaultAccess(u) \subseteq todo'
      <3>1. \A w : w.kind \in {"members", "grant", "revoke"} =>
                     (w \in todo' <=> w \in EnsureDefaultAccess(u))
        <4> SUFFICES ASSUME NEW w \in todo', w.kind \in {"members", "grant", "revoke"}
                     PROVE  w \in EnsureDefaultAccess(u)
          BY <2>3
        <4>1. w # Listed(Default, TRUE) /\ w.kind \notin {"check", "up"}
          BY ListedFields
        <4>2. w \notin NewUser(u, Bootstrap)
          BY NewUserFields, ConstantsAssumption
        <4> QED
          BY <1>6, <4>1, <4>2, StartFields
      <3> QED
        BY <2>1, <3>1, DefaultAccess
    <2>4. \/ EnsureDefaultAccess(u) \subseteq todo'
          \/ todo' = {Listed(Default, TRUE), [kind |-> "check"], [kind |-> "up"]}
      <3>1. CASE names[Bootstrap] = NoUser
        BY <1>6, <3>1 DEF Start
      <3>2. CASE names[Bootstrap] # NoUser /\ users[u] # NoName
        BY <1>6, <3>2 DEF Start
      <3>3. CASE names[Bootstrap] # NoUser /\ users[u] = NoName
        BY <1>6, <3>3 DEF Start
      <3> QED
        BY <3>1, <3>2, <3>3
    <2>5. ASSUME NEW w \in {Listed(Default, TRUE), [kind |-> "check"], [kind |-> "up"]}
          PROVE  w.kind \notin {"members", "grant", "revoke"}
      <3>1. CASE w = Listed(Default, TRUE)
        BY <3>1, ListedFields
      <3>2. CASE w = [kind |-> "check"]
        BY <3>2
      <3>3. CASE w = [kind |-> "up"]
        BY <3>3
      <3> QED
        BY <3>1, <3>2, <3>3
    <2> QED
      BY <2>2, <2>3, <2>4, <2>5
  <1>7. ASSUME NEW w \in todo,
               \/ WriteUser(w) \/ WriteName(w) \/ WriteConfig(w) \/ WriteIndex(w)
               \/ Checks(w) \/ ComesUp(w)
        PROVE  AccessOK'
    <2>1. /\ w.kind \in {"user", "name", "config", "index", "check", "up"}
          /\ todo' = todo \ {w} /\ UNCHANGED <<members, projectsOf, lost>>
      BY <1>7 DEF WriteUser, WriteName, WriteConfig, WriteIndex, Checks, ComesUp, Done,
                  access, history
    <2> QED
      BY <2>1, SameAccess
  <1>8. ASSUME NEW w \in todo, CheckFails(w) PROVE AccessOK'
    <2>1. /\ \E x \in todo : x.kind = "check"
          /\ todo' = {} /\ UNCHANGED <<members, projectsOf, lost>>
      BY <1>8 DEF CheckFails, access, history
    <2>2. Matched'
      BY <2>1 DEF AccessOK, LostSuffices, Matched
    <2> QED
      BY <2>1, <2>2, MatchedNext DEF AccessOK
  <1>9. CASE UNCHANGED vars
    BY <1>9, SameAccess DEF vars, access, history
  <1> QED
    BY <1>1, <1>2, <1>3, <1>4, <1>5, <1>6, <1>7, <1>8, <1>9, CatalogHandlers, MembersAccess,
       GrantAccess, RevokeAccess, FaultAccess DEF Next, HandlerStep, WriteStep
-----------------------------------------------------------------------------
(***************************************************************************)
(* Names.                                                                  *)
(***************************************************************************)
LEMMA InitNames == Init => NamesOK
  BY ConstantsAssumption DEF Init, NamesOK, NamesFindUsers

\* The two parts of NamesFindUsers.
NamesTrue == \A n \in Names : names[n] # NoUser => users[names[n]] = n

Powerless(u) == u \notin sessions /\ projectsOf[u] = {} /\ \A p \in Projects : u \notin members[p]

LEMMA NamesParts ==
    NamesFindUsers <=> NamesTrue /\ \A u \in Uids : HasName(u) \/ Powerless(u)
  BY DEF NamesFindUsers, NamesTrue, Powerless, HasName

LEMMA NamesPartsNext ==
    NamesFindUsers' <=> NamesTrue' /\ \A u \in Uids : HasName(u)' \/ Powerless(u)'
  BY DEF NamesFindUsers, NamesTrue, Powerless, HasName

\* Somebody who is a member, has access or a session has a name.
LEMMA MembersNamed ==
    ASSUME TypeOK, NamesOK
    PROVE  \A p \in Projects : \A u \in members[p] : HasName(u)
  BY NamesParts DEF NamesOK, Powerless, TypeOK

\* A step that leaves users, names and access alone and begins no write for them.
LEMMA SameNames ==
    ASSUME NamesOK, UNCHANGED <<users, names, sessions, members, projectsOf>>,
           \A w \in todo' : w.kind \in {"user", "name", "members", "grant"} => w \in todo,
           \A w \in todo : w.kind \in {"user", "name"} => w \in todo' \/ todo' = {}
    PROVE  NamesOK'
  <1>1. NamesFindUsers'
    BY DEF NamesOK, NamesFindUsers
  <1>2. \A u : HasName(u)' <=> HasName(u)
    BY DEF HasName
  <1>3. \A u : todo' # {} /\ GetsName(u) => GetsName(u)'
    BY DEF GetsName
  <1>4. \A w, x \in todo' : w.kind \in {"user", "name"} /\ x.kind \in {"user", "name"} =>
          /\ w.uid = x.uid /\ w.name = x.name
          /\ w.kind = x.kind => w = x
    BY DEF NamesOK
  <1>5. \A w \in todo' : w.kind = "user" => \E x \in todo' : x.kind = "name"
    BY DEF NamesOK
  <1>6. \A w \in todo' : w.kind = "name" =>
          /\ names'[w.name] = NoUser
          /\ ~HasName(w.uid)'
          /\ (\A x \in todo' : x.kind # "user") => users'[w.uid] = w.name
    BY <1>2 DEF NamesOK
  <1>7. \A w \in todo' : w.kind = "members" => \A u \in w.uids : HasName(u)' \/ GetsName(u)'
    BY <1>2, <1>3 DEF NamesOK
  <1>8. \A w \in todo' : w.kind = "grant" => HasName(w.uid)' \/ GetsName(w.uid)'
    BY <1>2, <1>3 DEF NamesOK
  <1> QED
    BY <1>1, <1>4, <1>5, <1>6, <1>7, <1>8 DEF NamesOK

\* A begun registration: the user is new, the name free, and the members were named before.
LEMMA NewUserNames ==
    ASSUME TypeOK, NamesOK, UNCHANGED <<users, names, sessions, members, projectsOf>>,
           NEW u \in Uids, NEW n \in Names, names[n] = NoUser, users[u] = NoName,
           NewUser(u, n) \subseteq todo',
           \A w \in todo' : /\ w.kind \in {"user", "name"} => w \in NewUser(u, n)
                            /\ w.kind \in {"members", "grant"} => w \in EnsureDefaultAccess(u)
    PROVE  NamesOK'
  <1>1. NamesFindUsers'
    BY DEF NamesOK, NamesFindUsers
  <1>2. \A v : HasName(v)' <=> HasName(v)
    BY DEF HasName
  <1>3. ~HasName(u)
    <2> SUFFICES ASSUME NEW k \in Names, names[k] = u PROVE FALSE
      BY DEF HasName
    <2>1. users[u] = k
      BY NamesParts, ConstantsAssumption DEF NamesOK, NamesTrue
    <2> QED
      BY <2>1, ConstantsAssumption
  <1>4. \A w \in todo' : w.kind \in {"user", "name"} =>
           w = [kind |-> w.kind, uid |-> u, name |-> n]
    BY DEF NewUser
  <1>5. /\ [kind |-> "user", uid |-> u, name |-> n] \in todo'
        /\ [kind |-> "name", uid |-> u, name |-> n] \in todo'
    BY DEF NewUser
  <1>6. GetsName(u)'
    <2> DEFINE w == [kind |-> "name", uid |-> u, name |-> n]
    <2>1. w \in todo' /\ w.kind = "name" /\ w.uid = u
      BY <1>5
    <2> HIDE DEF w
    <2> QED
      BY <2>1 DEF GetsName
  <1>7. (\E x \in todo' : x.kind = "name") /\ (\E x \in todo' : x.kind = "user")
    <2> DEFINE w(k) == [kind |-> k, uid |-> u, name |-> n]
    <2>1. w("name") \in todo' /\ w("name").kind = "name"
      BY <1>5
    <2>2. w("user") \in todo' /\ w("user").kind = "user"
      BY <1>5
    <2> HIDE DEF w
    <2> QED
      BY <2>1, <2>2
  <1>8. \A v \in members[Default] \cup {u} : HasName(v)' \/ GetsName(v)'
    BY <1>2, <1>6, MembersNamed, ConstantsAssumption
  <1>9. \A w \in todo' : /\ w.kind = "members" => \A v \in w.uids : HasName(v)' \/ GetsName(v)'
                         /\ w.kind = "grant" => HasName(w.uid)' \/ GetsName(w.uid)'
    BY <1>8, DefaultFields
  <1>10. \A w, x \in todo' : w.kind \in {"user", "name"} /\ x.kind \in {"user", "name"} =>
          /\ w.uid = x.uid /\ w.name = x.name
          /\ w.kind = x.kind => w = x
    BY <1>4
  <1>11. \A w \in todo' : w.kind = "name" => names'[w.name] = NoUser /\ ~HasName(w.uid)'
    BY <1>2, <1>3, <1>4
  <1> QED
    BY <1>1, <1>7, <1>9, <1>10, <1>11 DEF NamesOK

\* A begun change of members who all have names.
LEMMA MembersNames ==
    ASSUME TypeOK, NamesOK, UNCHANGED <<users, names, sessions, members, projectsOf>>,
           \A w \in todo' : /\ w.kind \notin {"user", "name"}
                            /\ w.kind = "members" => \A u \in w.uids : HasName(u)
                            /\ w.kind = "grant" => HasName(w.uid)
    PROVE  NamesOK'
  <1>1. NamesFindUsers'
    BY DEF NamesOK, NamesFindUsers
  <1>2. \A u : HasName(u)' <=> HasName(u)
    BY DEF HasName
  <1> QED
    BY <1>1, <1>2 DEF NamesOK

LEMMA UserNames ==
    ASSUME TypeOK, NamesOK, NEW w \in todo, WriteUser(w) PROVE NamesOK'
  <1>1. /\ w.kind = "user" /\ w.uid \in Uids /\ w.name \in Names
        /\ users' = [users EXCEPT ![w.uid] = w.name] /\ todo' = todo \ {w}
        /\ UNCHANGED <<names, sessions, members, projectsOf>>
    BY WriteFields DEF WriteUser, Done, TypeOK, access
  <1>2. \A u : HasName(u)' <=> HasName(u)
    BY <1>1 DEF HasName
  <1>3. \A u : GetsName(u)' <=> GetsName(u)
    BY <1>1 DEF GetsName
  <1>4. PICK x \in todo : x.kind = "name"
    BY <1>1 DEF NamesOK
  <1>5. x.uid = w.uid /\ x.name = w.name /\ ~HasName(w.uid)
    BY <1>1, <1>4 DEF NamesOK
  <1>6. NamesTrue'
    <2> SUFFICES ASSUME NEW n \in Names, names[n] # NoUser PROVE users'[names[n]] = n
      BY <1>1 DEF NamesTrue
    <2>1. names[n] # w.uid
      BY <1>5 DEF HasName
    <2>2. names[n] \in Uids /\ users[names[n]] = n
      BY NamesParts DEF NamesOK, NamesTrue, TypeOK
    <2> QED
      BY <1>1, <2>1, <2>2 DEF TypeOK
  <1>7. \A u : Powerless(u)' <=> Powerless(u)
    BY <1>1 DEF Powerless
  <1>8. NamesFindUsers'
    BY <1>2, <1>6, <1>7, NamesParts, NamesPartsNext DEF NamesOK
  <1>9. \A y \in todo' : y.kind = "name" => users'[y.uid] = y.name
    BY <1>1, <1>4, <1>5 DEF NamesOK, TypeOK
  <1>10. \A y, z \in todo' : y.kind \in {"user", "name"} /\ z.kind \in {"user", "name"} =>
          /\ y.uid = z.uid /\ y.name = z.name
          /\ y.kind = z.kind => y = z
    BY <1>1 DEF NamesOK
  <1>11. \A y \in todo' : y.kind = "name" => names'[y.name] = NoUser /\ ~HasName(y.uid)'
    BY <1>1, <1>2 DEF NamesOK
  <1>12. x \in todo'
    BY <1>1, <1>4
  <1>13. \A y \in todo' : /\ y.kind = "members" => \A v \in y.uids : HasName(v)' \/ GetsName(v)'
                          /\ y.kind = "grant" => HasName(y.uid)' \/ GetsName(y.uid)'
    BY <1>1, <1>2, <1>3 DEF NamesOK
  <1> QED
    BY <1>4, <1>8, <1>9, <1>10, <1>11, <1>12, <1>13 DEF NamesOK

LEMMA NameNames ==
    ASSUME TypeOK, NamesOK, NEW w \in todo, WriteName(w) PROVE NamesOK'
  <1>1. /\ w.kind = "name" /\ w.uid \in Uids /\ w.name \in Names
        /\ names' = [names EXCEPT ![w.name] = w.uid] /\ todo' = todo \ {w}
        /\ UNCHANGED <<users, sessions, members, projectsOf>>
    BY WriteFields DEF WriteName, Done, TypeOK, access
  <1>2. \A x \in todo : x.kind # "user"
    BY <1>1, DoneFirst DEF WriteName
  <1>3. names[w.name] = NoUser /\ users[w.uid] = w.name
    BY <1>1, <1>2 DEF NamesOK
  <1>4. \A x \in todo' : x.kind \notin {"user", "name"}
    BY <1>1, <1>2 DEF NamesOK
  <1>5. \A u \in Uids : HasName(u) => HasName(u)'
    <2> SUFFICES ASSUME NEW u \in Uids, NEW n \in Names, names[n] = u PROVE HasName(u)'
      BY DEF HasName
    <2>1. n # w.name
      BY <1>3, ConstantsAssumption
    <2>2. names'[n] = u
      BY <1>1, <2>1 DEF TypeOK
    <2> QED
      BY <2>2 DEF HasName
  <1>6. HasName(w.uid)'
    BY <1>1 DEF HasName, TypeOK
  <1>7. NamesTrue'
    BY <1>1, <1>3, NamesParts DEF NamesOK, NamesTrue, TypeOK
  <1>8. \A u : Powerless(u)' <=> Powerless(u)
    BY <1>1 DEF Powerless
  <1>9. NamesFindUsers'
    BY <1>5, <1>7, <1>8, NamesParts, NamesPartsNext DEF NamesOK
  <1>10. \A u \in Uids : GetsName(u) => HasName(u)'
    BY <1>1, <1>6 DEF GetsName, NamesOK
  <1>11. \A x \in todo : /\ x.kind = "members" => x.uids \subseteq Uids
                         /\ x.kind = "grant" => x.uid \in Uids
    BY WriteFields DEF TypeOK
  <1>12. \A x \in todo' : /\ x.kind = "members" => \A v \in x.uids : HasName(v)'
                          /\ x.kind = "grant" => HasName(x.uid)'
    BY <1>1, <1>5, <1>10, <1>11 DEF NamesOK
  <1> QED
    BY <1>4, <1>9, <1>12 DEF NamesOK

LEMMA AccessNames ==
    ASSUME TypeOK, NamesOK, NEW w \in todo, WriteMembers(w) \/ WriteGrant(w) \/ WriteRevoke(w)
    PROVE  NamesOK'
  <1>1. /\ w.kind \in {"members", "grant", "revoke"} /\ todo' = todo \ {w}
        /\ UNCHANGED <<users, names, sessions>>
    BY DEF WriteMembers, WriteGrant, WriteRevoke, Done, accounts
  <1>2. \A x \in todo : x.kind # "name"
    BY <1>1, DoneFirst DEF WriteMembers, WriteGrant, WriteRevoke
  <1>3. \A u : ~GetsName(u)
    BY <1>2 DEF GetsName
  <1>4. \A u : HasName(u)' <=> HasName(u)
    BY <1>1 DEF HasName
  <1>5. \A u \in Uids : HasName(u) \/ Powerless(u)
    BY NamesParts DEF NamesOK
  <1>6. ASSUME NEW u \in Uids, ~HasName(u) PROVE Powerless(u)'
    <2>1. Powerless(u)
      BY <1>5, <1>6
    <2>2. CASE WriteMembers(w)
      <3>1. u \notin w.uids
        BY <1>3, <1>6, <2>2 DEF WriteMembers, NamesOK
      <3>2. /\ members' = [members EXCEPT ![w.project] = w.uids]
            /\ UNCHANGED <<sessions, projectsOf>>
        BY <2>2 DEF WriteMembers, accounts
      <3> QED
        BY <2>1, <3>1, <3>2 DEF Powerless, TypeOK
    <2>3. CASE WriteGrant(w)
      <3>1. u # w.uid
        BY <1>3, <1>6, <2>3 DEF WriteGrant, NamesOK
      <3>2. /\ projectsOf' = [projectsOf EXCEPT ![w.uid] = projectsOf[w.uid] \cup {w.project}]
            /\ UNCHANGED <<sessions, members>>
        BY <2>3 DEF WriteGrant, accounts
      <3> QED
        BY <2>1, <3>1, <3>2 DEF Powerless, TypeOK
    <2>4. CASE WriteRevoke(w)
      <3>1. /\ projectsOf' = [projectsOf EXCEPT ![w.uid] = projectsOf[w.uid] \ {w.project}]
            /\ UNCHANGED <<sessions, members>>
        BY <2>4 DEF WriteRevoke, accounts
      <3> QED
        BY <2>1, <3>1 DEF Powerless, TypeOK
    <2> QED
      BY <2>2, <2>3, <2>4
  <1>7. NamesTrue'
    BY <1>1, NamesParts DEF NamesOK, NamesTrue
  <1>8. NamesFindUsers'
    BY <1>4, <1>6, <1>7, NamesPartsNext
  <1>9. \A x \in todo' : x.kind \notin {"user", "name"}
    BY <1>1, <1>2 DEF NamesOK
  <1>10. \A x \in todo' : /\ x.kind = "members" => \A v \in x.uids : HasName(v)'
                          /\ x.kind = "grant" => HasName(x.uid)'
    BY <1>1, <1>3, <1>4 DEF NamesOK
  <1> QED
    BY <1>8, <1>9, <1>10 DEF NamesOK

LEMMA StartNames ==
    ASSUME TypeOK, NamesOK, NEW u \in Uids, Start(u) PROVE NamesOK'
  <1>1. todo = {} /\ UNCHANGED <<users, names, sessions, members, projectsOf>>
    BY DEF Start, accounts, access
  <1>2. CASE names[Bootstrap] = NoUser
    <2>1. users[u] = NoName /\ NewUser(u, Bootstrap) \subseteq todo'
      BY <1>2 DEF Start
    <2>2. ASSUME NEW w \in todo'
          PROVE  /\ w.kind \in {"user", "name"} => w \in NewUser(u, Bootstrap)
                 /\ w.kind \in {"members", "grant"} => w \in EnsureDefaultAccess(u)
      <3>1. CASE w = Listed(Default, TRUE) \/ w.kind \in {"check", "up"}
        BY <3>1, ListedFields
      <3>2. CASE w \in NewUser(u, Bootstrap)
        BY <3>2, NewUserFields, ConstantsAssumption
      <3>3. CASE w \in EnsureDefaultAccess(u)
        BY <3>3, DefaultFields
      <3> QED
        BY <3>1, <3>2, <3>3, StartFields
    <2> QED
      BY <1>1, <1>2, <2>1, <2>2, NewUserNames, ConstantsAssumption
  <1>3. CASE names[Bootstrap] # NoUser
    <2>1. names[Bootstrap] = u
      BY <1>3 DEF Start
    <2>2. \A v \in members[Default] \cup {u} : HasName(v)
      BY <2>1, MembersNamed, ConstantsAssumption DEF HasName
    <2>3. ASSUME NEW w \in todo'
          PROVE  /\ w.kind \notin {"user", "name"}
                 /\ w.kind = "members" => \A v \in w.uids : HasName(v)
                 /\ w.kind = "grant" => HasName(w.uid)
      <3>1. CASE w = Listed(Default, TRUE) \/ w.kind \in {"check", "up"}
        BY <3>1, ListedFields
      <3>2. CASE w \in EnsureDefaultAccess(u)
        BY <2>2, <3>2, DefaultFields
      <3> QED
        BY <1>3, <3>1, <3>2, StartFields
    <2> QED
      BY <1>1, <2>3, MembersNames
  <1> QED
    BY <1>2, <1>3

LEMMA NextNames == TypeOK /\ NamesOK /\ [Next]_vars => NamesOK'
  <1> SUFFICES ASSUME TypeOK, NamesOK, [Next]_vars PROVE NamesOK'
    OBVIOUS
  <1>1. ASSUME NEW u \in Uids, NEW n \in Names, Register(u, n) PROVE NamesOK'
    <2>1. /\ names[n] = NoUser /\ users[u] = NoName
          /\ todo' = NewUser(u, n) \cup EnsureDefaultAccess(u)
          /\ UNCHANGED <<users, names, sessions, members, projectsOf>>
      BY <1>1 DEF Register, Begins, accounts, access
    <2>2. \A w \in todo' : /\ w.kind \in {"user", "name"} => w \in NewUser(u, n)
                           /\ w.kind \in {"members", "grant"} => w \in EnsureDefaultAccess(u)
      BY <2>1, NewUserFields, DefaultFields
    <2> QED
      BY <2>1, <2>2, NewUserNames
  <1>2. CASE CatalogStep
    <2>1. PICK p \in Projects, to \in Configs : Begins(CatalogWrites(p, to))
      BY <1>2 DEF CatalogStep
    <2>2. /\ todo = {} /\ todo' = CatalogWrites(p, to)
          /\ UNCHANGED <<users, names, sessions, members, projectsOf>>
      BY <2>1 DEF Begins, accounts, access
    <2>3. \A w \in todo' : w.kind \notin {"user", "name", "members", "grant"}
      BY <2>2, CatalogFields
    <2> QED
      BY <2>2, <2>3, SameNames
  <1>3. ASSUME NEW p \in Projects, NEW next \in SUBSET Uids, PutMembers(p, next)
        PROVE  NamesOK'
    <2>1. /\ todo' = SetMembers(p, next)
          /\ UNCHANGED <<users, names, sessions, members, projectsOf>>
      BY <1>3 DEF PutMembers, Begins, accounts, access
    <2>2. \A u \in next : HasName(u)
      BY <1>3 DEF PutMembers, HasName
    <2>3. \A w \in todo' : /\ w.kind \notin {"user", "name"}
                           /\ w.kind = "members" => \A u \in w.uids : HasName(u)
                           /\ w.kind = "grant" => HasName(w.uid)
      BY <2>1, <2>2, MembersFields
    <2> QED
      BY <2>1, <2>3, MembersNames
  <1>4. ASSUME NEW n \in Names, Login(n) PROVE NamesOK'
    <2>1. /\ todo = {} /\ todo' = {} /\ sessions' = sessions \cup {names[n]}
          /\ UNCHANGED <<users, names, members, projectsOf>>
      BY <1>4 DEF Login, access
    <2>2. NamesFindUsers'
      BY <2>1 DEF NamesOK, NamesFindUsers
    <2> QED
      BY <2>1, <2>2 DEF NamesOK
  <1>5. ASSUME NEW u \in Uids, TokenEnds(u) PROVE NamesOK'
    <2>1. /\ todo' = todo /\ sessions' = sessions \ {u}
          /\ UNCHANGED <<users, names, members, projectsOf>>
      BY <1>5 DEF TokenEnds, access
    <2>2. NamesFindUsers'
      BY <2>1 DEF NamesOK, NamesFindUsers
    <2> QED
      BY <2>1, <2>2 DEF NamesOK, HasName, GetsName
  <1>6. ASSUME NEW w \in todo,
               WriteConfig(w) \/ WriteIndex(w) \/ Checks(w) \/ ComesUp(w)
        PROVE  NamesOK'
    <2>1. /\ w.kind \in {"config", "index", "check", "up"} /\ todo' = todo \ {w}
          /\ UNCHANGED <<users, names, sessions, members, projectsOf>>
      BY <1>6 DEF WriteConfig, WriteIndex, Checks, ComesUp, Done, accounts, access
    <2> QED
      BY <2>1, SameNames
  <1>7. ASSUME todo' = {}, UNCHANGED <<users, names, sessions, members, projectsOf>>
        PROVE  NamesOK'
    BY <1>7, SameNames
  <1>8. CASE UNCHANGED vars
    BY <1>8, SameNames DEF vars, accounts, access
  <1> QED
    BY <1>1, <1>2, <1>3, <1>4, <1>5, <1>6, <1>7, <1>8, CatalogHandlers, UserNames, NameNames,
       AccessNames, StartNames
       DEF Next, HandlerStep, WriteStep, Fault, CheckFails, accounts, access
-----------------------------------------------------------------------------
(***************************************************************************)
(* Theorems.                                                               *)
(***************************************************************************)
IInv == TypeOK /\ CatalogOK /\ AccessOK /\ NamesOK

LEMMA Invariance == Spec => []IInv
  <1>1. Init => IInv
    BY InitType, InitCatalog, InitAccess, InitNames DEF IInv
  <1>2. IInv /\ [Next]_vars => IInv'
    BY NextType, NextCatalog, NextAccess, NextNames DEF IInv
  <1> QED
    BY <1>1, <1>2, PTL DEF Spec

\* However often requests are cut short, a name leads to the user it was registered for, and
\* a user whose name was not written is powerless (register(), ensure_bootstrap_user()).
THEOREM NamesLeadToUsers == Spec => []NamesFindUsers
  <1>1. IInv => NamesFindUsers
    BY DEF IInv, NamesOK
  <1> QED
    BY <1>1, Invariance, PTL

\* However projects are made, deleted and made again: the members of a project and the users
\* with access to it differ only by writes that are due or were lost (set_members()).
THEOREM AccessFollowsMembers == Spec => []MembersHaveAccess
  <1>1. IInv => MembersHaveAccess
    BY DEF IInv, AccessOK
  <1> QED
    BY <1>1, Invariance, PTL

\* The index lists the projects that exist, unless the second of the two writes is due or
\* was lost (_ensure_index_entry()); and each user is shown those he can access, unless a
\* project of the index does not validate: then list_summaries() raises for everyone.
THEOREM IndexFollowsConfigs == Spec => []IndexIsComplete
  <1>1. IInv => IndexIsComplete
    <2> SUFFICES ASSUME IInv, NEW p \in Projects \ torn,
                        \A w \in Pending({"config", "index"}) : w.project # p
                 PROVE  /\ IF p = Default THEN up => p \in index
                           ELSE config[p] # "none" <=> p \in index
                        /\ up /\ ~ListRaises =>
                              \A u \in Uids : CanAccess(u, p) => p \in ListsFor(u)
      BY DEF IndexIsComplete
    <2>1. IndexSettled(p)
      BY DEF IndexSettled, Pending
    <2>2. p # Default => (config[p] # "none" <=> p \in index)
      BY <2>1 DEF IInv, CatalogOK
    <2>3. p = Default /\ up => p \in index
      BY DEF IInv, CatalogOK
    <2>4. ASSUME up, ~ListRaises, NEW u \in Uids, CanAccess(u, p)
          PROVE  p \in ListsFor(u)
      <3>1. p \in index
        BY <2>2, <2>3, <2>4 DEF CanAccess, Effective
      <3> QED
        BY <2>4, <3>1 DEF CanAccess, ListsFor
    <2> QED
      BY <2>2, <2>3, <2>4
  <1> QED
    BY <1>1, Invariance, PTL
-----------------------------------------------------------------------------
(***************************************************************************)
(* The storage goes through the life of an AccessRegistry.                 *)
(***************************************************************************)

\* A step that the registry does not see.
LEMMA UnseenStep ==
    ASSUME UNCHANGED <<names, sessions, members, projectsOf>>
    PROVE  [Registry!Next]_Registry!vars
  BY DEF Registry!vars

LEMMA NamedIs == \A u \in Uids : u \in Registry!Named <=> HasName(u)
  BY DEF Registry!Named, HasName

\* Who has a name written before may be given a list, and access by the list.
LEMMA WriteIsRegistered ==
    ASSUME TypeOK, AccessOK, NamesOK, NEW w \in todo, WriteStep(w)
    PROVE  [Registry!Next]_Registry!vars
  <1>0. w \in Writes
    BY DEF TypeOK
  <1>1. CASE WriteName(w)
    <2>1. /\ w.kind = "name" /\ w.uid \in Uids /\ w.name \in Names
          /\ names' = [names EXCEPT ![w.name] = w.uid]
          /\ UNCHANGED <<sessions, members, projectsOf>>
      BY <1>0, <1>1, WriteFields DEF WriteName, access
    <2>2. names[w.name] = NoUser /\ ~HasName(w.uid)
      BY <2>1 DEF NamesOK
    <2>3. Registry!TakesName(w.uid, w.name)
      BY <2>1, <2>2, NamedIs DEF Registry!TakesName
    <2> QED
      BY <2>1, <2>3 DEF Registry!Next
  <1>2. CASE WriteMembers(w)
    <2>1. /\ w.kind = "members" /\ w.project \in Projects /\ w.uids \in SUBSET Uids
          /\ members' = [members EXCEPT ![w.project] = w.uids]
          /\ UNCHANGED <<names, sessions, projectsOf>>
      BY <1>0, <1>2, WriteFields DEF WriteMembers, accounts
    <2>2. \A u \in w.uids : HasName(u) \/ GetsName(u)
      BY <2>1 DEF NamesOK
    <2>3. \A u : ~GetsName(u)
      <3>1. Done(w)
        BY <1>2 DEF WriteMembers
      <3> QED
        BY <2>1, <3>1, DoneFirst DEF GetsName
    <2>4. Registry!SetsMembers(w.project, w.uids)
      BY <2>1, <2>2, <2>3, NamedIs DEF Registry!SetsMembers
    <2> QED
      BY <2>1, <2>4 DEF Registry!Next
  <1>3. CASE WriteGrant(w)
    <2>1. /\ w.kind = "grant" /\ w.project \in Projects /\ w.uid \in Uids
          /\ projectsOf' = [projectsOf EXCEPT ![w.uid] = @ \cup {w.project}]
          /\ UNCHANGED <<names, sessions, members>>
      BY <1>0, <1>3, WriteFields DEF WriteGrant, accounts
    <2>2. \A x \in todo : x.kind # "members"
      <3>1. Done(w)
        BY <1>3 DEF WriteGrant
      <3> QED
        BY <2>1, <3>1, DoneFirst
    <2>3. w.uid \in members[w.project]
      BY <2>1, <2>2 DEF AccessOK
    <2>4. Registry!GetsAccess(w.uid, w.project)
      BY <2>1, <2>3 DEF Registry!GetsAccess
    <2> QED
      BY <2>1, <2>4 DEF Registry!Next
  <1>4. CASE WriteRevoke(w)
    <2>1. /\ w.kind = "revoke" /\ w.project \in Projects /\ w.uid \in Uids
          /\ projectsOf' = [projectsOf EXCEPT ![w.uid] = @ \ {w.project}]
          /\ UNCHANGED <<names, sessions, members>>
      BY <1>0, <1>4, WriteFields DEF WriteRevoke, accounts
    <2>2. \A x \in todo : x.kind # "members"
      <3>1. Done(w)
        BY <1>4 DEF WriteRevoke
      <3> QED
        BY <2>1, <3>1, DoneFirst
    <2>3. w.uid \notin members[w.project]
      BY <2>1, <2>2 DEF AccessOK
    <2>4. Registry!LosesAccess(w.uid, w.project)
      BY <2>1, <2>3 DEF Registry!LosesAccess
    <2> QED
      BY <2>1, <2>4 DEF Registry!Next
  <1>5. CASE WriteUser(w) \/ WriteConfig(w) \/ WriteIndex(w)
    BY <1>5, UnseenStep DEF WriteUser, WriteConfig, WriteIndex, accounts, access
  <1> QED
    BY <1>1, <1>2, <1>3, <1>4, <1>5 DEF WriteStep

LEMMA NextRegistered ==
    TypeOK /\ AccessOK /\ NamesOK /\ [Next]_vars => [Registry!Next]_Registry!vars
  <1> SUFFICES ASSUME TypeOK, AccessOK, NamesOK, [Next]_vars
               PROVE  [Registry!Next]_Registry!vars
    OBVIOUS
  <1>1. ASSUME NEW n \in Names, Login(n) PROVE [Registry!Next]_Registry!vars
    <2> DEFINE u == names[n]
    <2>1. /\ u # NoUser /\ sessions' = sessions \cup {u}
          /\ UNCHANGED <<names, members, projectsOf>>
      BY <1>1 DEF Login, access
    <2>2. u \in Uids
      BY <2>1 DEF TypeOK
    <2>3. HasName(u)
      BY DEF HasName
    <2> HIDE DEF u
    <2>4. Registry!LogsIn(u)
      BY <2>1, <2>2, <2>3, NamedIs DEF Registry!LogsIn
    <2> QED
      BY <2>2, <2>4 DEF Registry!Next
  <1>2. ASSUME NEW u \in Uids, TokenEnds(u) PROVE [Registry!Next]_Registry!vars
    <2>1. Registry!LogsOut(u)
      BY <1>2 DEF TokenEnds, access, Registry!LogsOut
    <2> QED
      BY <2>1 DEF Registry!Next
  <1>3. ASSUME NEW w \in todo, WriteStep(w) PROVE [Registry!Next]_Registry!vars
    BY <1>3, WriteIsRegistered
  <1>4. ASSUME NEW ws, Begins(ws) PROVE UNCHANGED <<names, sessions, members, projectsOf>>
    BY <1>4 DEF Begins, accounts, access
  <1>5. CASE HandlerStep
    <2>1. \/ \E n \in Names : Login(n)
          \/ UNCHANGED <<names, sessions, members, projectsOf>>
      BY <1>4, <1>5 DEF HandlerStep, Register, SaveProject, PatchMeta, PatchKnowledge,
                        PatchOther, DeleteProject, PutMembers
    <2> QED
      BY <1>1, <2>1, UnseenStep
  <1>6. ASSUME NEW u \in Uids, Start(u) PROVE [Registry!Next]_Registry!vars
    BY <1>6, UnseenStep DEF Start, accounts, access
  <1>7. ASSUME NEW w \in todo, Checks(w) \/ CheckFails(w) \/ ComesUp(w)
        PROVE  [Registry!Next]_Registry!vars
    BY <1>7, UnseenStep DEF Checks, CheckFails, ComesUp, accounts, access
  <1>8. CASE Fault
    BY <1>8, UnseenStep DEF Fault, accounts, access
  <1>9. CASE UNCHANGED vars
    BY <1>9, UnseenStep DEF vars, accounts, access
  <1> QED
    BY <1>2, <1>3, <1>5, <1>6, <1>7, <1>8, <1>9 DEF Next

\* Interrupted after any of its writes, for any number of failures and crashes, each handler
\* leaves a life of an AccessRegistry behind (register(), login(), set_members(), startup()).
THEOREM RegistryImplemented == Spec => ImplementsRegistry
  <1>1. Init => Registry!Init
    BY DEF Init, Registry!Init
  <1>2. IInv /\ [Next]_vars => [Registry!Next]_Registry!vars
    BY NextRegistered DEF IInv
  <1> QED
    BY <1>1, <1>2, Invariance, PTL DEF Spec, ImplementsRegistry, Registry!Spec

\* A user has one name at most.
OneName == \A n, m \in Names : names[n] = names[m] /\ names[n] # NoUser => n = m

\* What the promise comes to: no name changes hands, nobody gains access who is not on the
\* list, nobody loses it who is, and who has no name has nothing.
THEOREM AccessIsAsListed ==
    Spec => /\ Registry!NamesAreForever
            /\ Registry!AccessFollowsList
            /\ []Registry!OneNameEach
  <1> DEFINE Forever == \A n \in Names : names[n] # NoUser => names'[n] = names[n]
             Follows == \A u \in Uids, p \in Projects :
                 /\ p \in projectsOf'[u] \ projectsOf[u] => u \in members[p]
                 /\ p \in projectsOf[u] \ projectsOf'[u] => u \notin members[p]
  <1>1. TypeOK /\ [Registry!Next]_Registry!vars
            => [Forever]_Registry!vars /\ [Follows]_Registry!vars
    <2> SUFFICES ASSUME TypeOK, Registry!Next PROVE Forever /\ Follows
      OBVIOUS
    <2>1. ASSUME NEW u \in Uids, NEW n \in Names, Registry!TakesName(u, n)
          PROVE  Forever /\ Follows
      BY <2>1 DEF Registry!TakesName, TypeOK
    <2>2. ASSUME NEW u \in Uids, NEW p \in Projects,
                 Registry!GetsAccess(u, p) \/ Registry!LosesAccess(u, p)
          PROVE  Forever /\ Follows
      BY <2>2 DEF Registry!GetsAccess, Registry!LosesAccess, TypeOK
    <2>3. CASE UNCHANGED <<names, projectsOf>>
      BY <2>3
    <2> QED
      BY <2>1, <2>2, <2>3
         DEF Registry!Next, Registry!LogsIn, Registry!LogsOut, Registry!SetsMembers
  <1>2. Init => OneName
    BY DEF Init, OneName
  <1>3. TypeOK /\ OneName /\ [Registry!Next]_Registry!vars => OneName'
    <2> SUFFICES ASSUME TypeOK, OneName, Registry!Next PROVE OneName'
      BY DEF OneName, Registry!vars
    <2>1. ASSUME NEW u \in Uids, NEW n \in Names, Registry!TakesName(u, n) PROVE OneName'
      BY <2>1 DEF Registry!TakesName, Registry!Named, OneName, TypeOK
    <2>2. CASE UNCHANGED names
      BY <2>2 DEF OneName
    <2> QED
      BY <2>1, <2>2 DEF Registry!Next, Registry!LogsIn, Registry!LogsOut, Registry!SetsMembers,
                        Registry!GetsAccess, Registry!LosesAccess
  <1>4. IInv /\ OneName => Registry!OneNameEach
    BY NamedIs DEF IInv, NamesOK, NamesFindUsers, OneName, HasName, Registry!OneNameEach
  <1>5. IInv /\ [Next]_vars => [Registry!Next]_Registry!vars
    BY NextRegistered DEF IInv
  <1>6. IInv => TypeOK
    BY DEF IInv
  <1> HIDE DEF Forever, Follows
  <1>7. Spec => [][Forever]_Registry!vars /\ [][Follows]_Registry!vars
    BY <1>1, <1>5, <1>6, Invariance, PTL DEF Spec
  <1>8. Spec => []Registry!OneNameEach
    BY <1>2, <1>3, <1>4, <1>5, <1>6, Invariance, PTL DEF Spec
  <1> QED
    BY <1>7, <1>8 DEF Forever, Follows, Registry!NamesAreForever, Registry!AccessFollowsList
-----------------------------------------------------------------------------
(***************************************************************************)
(* LiveSettings.                                                           *)
(***************************************************************************)
Tables == [Servers -> Versions \cup {NoVersion}]
Documents == [Servers -> Specs]

LEMMA EmptyTypes == NoSpecs \in Documents /\ NoServers \in Tables /\ NoSetup \in Setups
  BY SettingsAssumption DEF NoSpecs, NoServers, NoSetup, Setups, Tables, Documents, Specs

\* A merge of documents is one, and what it says of a server is in either of them.
LEMMA MergeType ==
    \A below, top \in Documents :
        /\ Merged(below, top) \in Documents
        /\ \A s \in Servers : Merged(below, top)[s].command =
               IF top[s].command # NoVersion THEN top[s].command ELSE below[s].command
  BY DEF Documents, Merged, Specs

LEMMA VersionType ==
    \A doc \in Documents, s \in Servers :
        /\ Version(doc, s) \in Versions \cup {NoVersion}
        /\ doc[s].command # NoVersion => Version(doc, s) = doc[s].command
  <1> SUFFICES ASSUME NEW doc \in Documents, NEW s \in Servers
               PROVE  /\ Version(doc, s) \in Versions \cup {NoVersion}
                      /\ doc[s].command # NoVersion => Version(doc, s) = doc[s].command
    OBVIOUS
  <1>1. YamlServers \in Documents
    BY SettingsAssumption DEF Documents
  <1>2. /\ Resolved(doc) \in Documents
        /\ Resolved(doc)[s].command = IF doc[s].command # NoVersion THEN doc[s].command
                                                            ELSE YamlServers[s].command
    BY <1>1, MergeType DEF Resolved
  <1> QED
    BY <1>2 DEF Version, Documents, Specs

LEMMA EnabledType ==
    ASSUME stored \in Documents
    PROVE  /\ EnabledServers \in Tables
           /\ \A s \in Servers : EnabledServers[s] # NoVersion =>
                  EnabledServers[s] = Version(stored, s)
  BY VersionType DEF EnabledServers, Tables

LEMMA SettingsInitType == SettingsInit => SettingsTypeOK
  <1> SUFFICES ASSUME SettingsInit PROVE SettingsTypeOK
    OBVIOUS
  <1>1. changes \in 0..MaxChanges
    BY SettingsAssumption DEF SettingsInit
  <1>2. /\ stored \in Documents /\ listed \in Tables /\ body \in [Patches -> Documents]
        /\ asked \in [Turns -> Setups] /\ got \in [Turns -> Setups]
    BY EmptyTypes DEF SettingsInit
  <1>3. put \in [Puts -> {{}} \cup {{l} : l \in Llms}]
    BY DEF SettingsInit
  <1> QED
    BY <1>1, <1>2, <1>3, SettingsAssumption DEF SettingsInit, SettingsTypeOK, Tables, Documents

\* The requests for the LLM leave the rest alone.
LEMMA PutType ==
    ASSUME SettingsTypeOK, NEW u \in Puts,
           PutSucceeds(u) \/ PutFails(u) \/ \E l \in Llms : PutLlm(u, l)
    PROVE  SettingsTypeOK'
  <1>1. CASE PutSucceeds(u)
    <2>1. shown' \in Llms
      BY <1>1 DEF PutSucceeds, SettingsTypeOK
    <2> QED
      BY <1>1, <2>1 DEF PutSucceeds, SettingsTypeOK, settings, registry, observed
  <1>2. CASE PutFails(u)
    BY <1>2 DEF PutFails, SettingsTypeOK, settings, registry
  <1>3. ASSUME NEW l \in Llms, PutLlm(u, l) PROVE SettingsTypeOK'
    <2>1. changes' \in 0..MaxChanges
      BY <1>3, SettingsAssumption DEF PutLlm, SettingsTypeOK
    <2>2. muddled' \in BOOLEAN
      BY <1>3 DEF PutLlm
    <2>3. put' \in [Puts -> {{}} \cup {{k} : k \in Llms}]
      BY <1>3 DEF PutLlm, SettingsTypeOK
    <2> QED
      BY <1>3, <2>1, <2>2, <2>3 DEF PutLlm, Invalidate, SettingsTypeOK, registry
  <1> QED
    BY <1>1, <1>2, <1>3

LEMMA TurnType ==
    ASSUME SettingsTypeOK, NEW t \in Turns, Ask(t) \/ Load(t) \/ TurnEnds(t)
    PROVE  SettingsTypeOK'
  <1>1. CASE Ask(t)
    <2> DEFINE key == [mcp |-> EnabledServers, llm |-> llm]
    <2>1. key \in Setups
      BY EnabledType DEF Setups, SettingsTypeOK, Tables, Documents
    <2>2. asked' \in [Turns -> Setups] /\ turn' \in [Turns -> {"new", "loading", "ready"}]
      BY <1>1, <2>1 DEF Ask, SettingsTypeOK
    <2>3. got' \in [Turns -> Setups]
      <3>1. CASE cache # NoCache /\ cache.key = key
        <4>1. cache.value \in Setups
          BY <3>1 DEF SettingsTypeOK
        <4> QED
          BY <1>1, <3>1, <4>1 DEF Ask, SettingsTypeOK
      <3>2. CASE ~(cache # NoCache /\ cache.key = key)
        BY <1>1, <3>2 DEF Ask, SettingsTypeOK
      <3> QED
        BY <3>1, <3>2
    <2> QED
      BY <1>1, <2>2, <2>3 DEF Ask, SettingsTypeOK, model, registry, observed
  <1>2. CASE Load(t)
    <2> DEFINE value == [mcp |-> asked[t].mcp, llm |-> llm]
    <2>1. value \in Setups /\ asked[t] \in Setups
      BY DEF Setups, SettingsTypeOK
    <2>2. got' \in [Turns -> Setups] /\ turn' \in [Turns -> {"new", "loading", "ready"}]
      BY <1>2, <2>1 DEF Load, SettingsTypeOK
    <2>3. cache' \in [key : Setups, value : Setups]
      BY <1>2, <2>1 DEF Load
    <2> QED
      BY <1>2, <2>2, <2>3 DEF Load, SettingsTypeOK, model, registry, observed
  <1>3. CASE TurnEnds(t)
    BY <1>3, EmptyTypes DEF TurnEnds, SettingsTypeOK, model, registry, observed
  <1> QED
    BY <1>1, <1>2, <1>3

\* The requests that change the servers.
StoreStep ==
    \/ \E to \in [Servers -> Specs] :
          PatchRejected(to) \/ PutProject(to) \/ \E p \in Patches : PatchMcp(p, to)
    \/ RemoveProject

\* The kinds of steps.
PutStep  == \E u \in Puts : PutSucceeds(u) \/ PutFails(u) \/ \E l \in Llms : PutLlm(u, l)
TurnStep == \E t \in Turns : Ask(t) \/ Load(t) \/ TurnEnds(t)
ListStep == \E p \in Patches, s \in Servers : Lists(p, s) \/ ListFails(p, s)

LEMMA StepKinds == SettingsNext => PutStep \/ TurnStep \/ StoreStep \/ ListStep \/ Restart
  BY DEF SettingsNext, PutStep, TurnStep, StoreStep, ListStep

\* Nothing of the servers concerns the LLM or the turns.
LEMMA ServersAlone == StoreStep \/ ListStep => UNCHANGED <<model, settings, muddled>>
  <1>1. ASSUME NEW doc, NEW on, Store(doc, on) PROVE UNCHANGED <<model, settings, muddled>>
    BY <1>1 DEF Store
  <1>2. StoreStep => UNCHANGED <<model, settings, muddled>>
    BY <1>1 DEF StoreStep, PatchRejected, PutProject, PatchMcp, RemoveProject
  <1>3. ListStep => UNCHANGED <<model, settings, muddled>>
    BY DEF ListStep, Lists, ListFails, Asked, observed
  <1> QED
    BY <1>2, <1>3

LEMMA AskedServers == \A to : ToAsk(to) \in SUBSET Servers /\ EnabledIn(to) \in SUBSET Servers
  BY DEF ToAsk, EnabledIn

LEMMA StoreType ==
    ASSUME SettingsTypeOK, NEW doc \in Documents, NEW on \in SUBSET Servers, Store(doc, on),
           recorded' \in BOOLEAN, patch' \in [Patches -> SUBSET Servers],
           body' \in [Patches -> Documents]
    PROVE  SettingsTypeOK'
  <1>1. changes' \in 0..MaxChanges
    BY SettingsAssumption DEF Store, SettingsTypeOK
  <1>2. doubtful' \subseteq Servers /\ unasked' \subseteq Servers /\ stored' \in Documents
    BY DEF Store, SettingsTypeOK
  <1> QED
    BY <1>1, <1>2 DEF Store, SettingsTypeOK, Documents, model, settings

LEMMA PatchType == ASSUME SettingsTypeOK, StoreStep PROVE SettingsTypeOK'
  <1>0. stored \in Documents /\ patch \in [Patches -> SUBSET Servers]
        /\ body \in [Patches -> Documents]
    BY DEF SettingsTypeOK, Documents
  <1>1. ASSUME NEW to \in Documents, PatchRejected(to) \/ PutProject(to) PROVE SettingsTypeOK'
    <2>1. Merged(stored, to) \in Documents
      BY <1>0, MergeType
    <2>2. PICK doc \in Documents : Store(doc, {})
      BY <1>1, <2>1 DEF PatchRejected, PutProject
    <2>3. recorded' \in BOOLEAN /\ patch' = patch /\ body' = body
      BY <1>1 DEF PatchRejected, PutProject
    <2> QED
      BY <1>0, <2>2, <2>3, StoreType
  <1>2. ASSUME NEW to \in Documents, NEW p \in Patches, PatchMcp(p, to) PROVE SettingsTypeOK'
    <2>1. Store(to, EnabledIn(to)) /\ recorded' \in BOOLEAN
      BY <1>2 DEF PatchMcp
    <2>2. patch' \in [Patches -> SUBSET Servers]
      BY <1>0, <1>2, AskedServers DEF PatchMcp
    <2>3. body' \in [Patches -> Documents]
      BY <1>0, <1>2, EmptyTypes DEF PatchMcp
    <2> QED
      BY <2>1, <2>2, <2>3, AskedServers, StoreType
  <1>3. CASE RemoveProject
    <2>1. Store(NoSpecs, {}) /\ recorded' \in BOOLEAN /\ patch' = patch /\ body' = body
      BY <1>3 DEF RemoveProject
    <2>2. NoSpecs \in Documents /\ {} \in SUBSET Servers
      BY EmptyTypes
    <2> QED
      BY <1>0, <2>1, <2>2, StoreType
  <1> QED
    BY <1>1, <1>2, <1>3 DEF StoreStep, Documents

LEMMA ListType ==
    ASSUME SettingsTypeOK, NEW p \in Patches, NEW s \in Servers, Lists(p, s) \/ ListFails(p, s)
    PROVE  SettingsTypeOK'
  <1>0. /\ patch' = [patch EXCEPT ![p] = patch[p] \ {s}]
        /\ body' = body \/ body' = [body EXCEPT ![p] = NoSpecs]
        /\ UNCHANGED <<model, settings, stored, recorded>>
    BY DEF Lists, ListFails, Asked
  <1>1. patch' \in [Patches -> SUBSET Servers] /\ body' \in [Patches -> Documents]
    <2>1. body \in [Patches -> Documents]
      BY DEF SettingsTypeOK, Documents
    <2>2. patch \in [Patches -> SUBSET Servers]
      BY DEF SettingsTypeOK
    <2> QED
      BY <1>0, <2>1, <2>2, EmptyTypes
  <1>2. CASE Lists(p, s)
    <2>1. body[p][s].command \in Versions \cup {NoVersion}
      BY DEF SettingsTypeOK, Specs
    <2>2. listed' \in Tables
      BY <1>2, <2>1 DEF Lists, SettingsTypeOK, Tables
    <2> QED
      BY <1>0, <1>1, <1>2, <2>2
         DEF Lists, SettingsTypeOK, Tables, Documents, model, settings, observed
  <1>3. CASE ListFails(p, s)
    BY <1>0, <1>1, <1>3 DEF ListFails, SettingsTypeOK, Documents, model, settings
  <1> QED
    BY <1>2, <1>3

LEMMA SettingsNextType == SettingsTypeOK /\ [SettingsNext]_settingsVars => SettingsTypeOK'
  <1> SUFFICES ASSUME SettingsTypeOK, [SettingsNext]_settingsVars PROVE SettingsTypeOK'
    OBVIOUS
  <1>1. CASE Restart
    <2>1. changes' \in 0..MaxChanges
      BY <1>1, SettingsAssumption DEF Restart, SettingsTypeOK
    <2>2. doubtful' \subseteq Servers
      BY <1>1 DEF Restart, SettingsTypeOK, Asking
    <2>3. /\ asked' \in [Turns -> Setups] /\ got' \in [Turns -> Setups]
          /\ body' \in [Patches -> Documents]
      BY <1>1, EmptyTypes DEF Restart
    <2> QED
      BY <1>1, <2>1, <2>2, <2>3 DEF Restart, SettingsTypeOK, Documents
  <1>2. CASE UNCHANGED settingsVars
    BY <1>2 DEF settingsVars, model, settings, registry, observed, SettingsTypeOK
  <1> QED
    BY <1>1, <1>2, StepKinds, PutType, TurnType, PatchType, ListType DEF PutStep, TurnStep, ListStep

\* Every reachable state is well typed.
THEOREM SettingsTypeCorrect == SettingsSpec => []SettingsTypeOK
  BY SettingsInitType, SettingsNextType, PTL DEF SettingsSpec
-----------------------------------------------------------------------------
(***************************************************************************)
(* The inductive invariant.                                                *)
(***************************************************************************)

\* An entry made under the LLM of now holds the LLM of now: Load() may store a value whose
\* LLM is not that of the key, but then the key is not of the LLM of now either, and the
\* PUT that could make it so again empties the cache.
CacheOK ==
    (cache # NoCache /\ cache.key.llm = llm) =>
        cache.value = [mcp |-> cache.key.mcp, llm |-> llm]

\* Unless a PUT has failed or met another, the one at work sets the LLM of now.
PutsOK ==
    ~muddled => \A u \in Puts : put[u] # {} =>
        /\ put[u] = {llm}
        /\ \A v \in Puts : put[v] # {} => v = u

\* A server that is not in doubt, and has been asked since its version changed, is asked at
\* most once at a time, as the version it now is; and when nobody asks, its list is that of
\* this version, or there is none.
Certain(s) == s \in Servers /\ s \notin doubtful /\ s \notin unasked

ListsOK ==
    /\ \A s : Certain(s) /\ (\A p \in Patches : s \notin patch[p]) =>
          listed[s] \in {NoVersion, Version(stored, s)}
    /\ \A p \in Patches : \A s \in patch[p] : Certain(s) =>
          /\ \A q \in Patches : s \in patch[q] => q = p
          /\ body[p][s].command \in {NoVersion, Version(stored, s)}

SettingsInv == SettingsTypeOK /\ CacheOK /\ PutsOK /\ ShownIsUsed /\ ListsOK

LEMMA InitInvariant == SettingsInit => SettingsInv
  <1> SUFFICES ASSUME SettingsInit PROVE SettingsInv
    OBVIOUS
  <1>1. CacheOK /\ PutsOK /\ ShownIsUsed /\ ListsOK
    BY DEF SettingsInit, NoServers, CacheOK, PutsOK, ShownIsUsed, ListsOK, Certain
  <1> QED
    BY <1>1, SettingsInitType DEF SettingsInv

LEMMA NextCache == SettingsTypeOK /\ CacheOK /\ [SettingsNext]_settingsVars => CacheOK'
  <1> SUFFICES ASSUME SettingsTypeOK, CacheOK, [SettingsNext]_settingsVars PROVE CacheOK'
    OBVIOUS
  <1>1. ASSUME NEW t \in Turns, Load(t) PROVE CacheOK'
    <2>1. /\ cache' = [key |-> asked[t], value |-> [mcp |-> asked[t].mcp, llm |-> llm]]
          /\ llm' = llm
      BY <1>1 DEF Load, model
    <2> QED
      BY <2>1 DEF CacheOK
  <1>2. CASE cache' = NoCache
    BY <1>2 DEF CacheOK
  <1>3. CASE UNCHANGED <<cache, llm>>
    BY <1>3 DEF CacheOK
  <1> QED
    <2>1. CASE PutStep
      BY <1>2, <1>3, <2>1 DEF PutStep, PutSucceeds, PutFails, PutLlm, Invalidate, settings
    <2>2. CASE TurnStep
      BY <1>1, <1>3, <2>2 DEF TurnStep, Ask, TurnEnds, model
    <2>3. CASE StoreStep \/ ListStep
      BY <1>3, <2>3, ServersAlone DEF model, settings
    <2>4. CASE Restart
      BY <1>2, <2>4 DEF Restart
    <2>5. CASE UNCHANGED settingsVars
      BY <1>3, <2>5 DEF settingsVars, model, settings
    <2> QED
      BY <2>1, <2>2, <2>3, <2>4, <2>5, StepKinds

LEMMA NextPuts ==
    SettingsTypeOK /\ PutsOK /\ ShownIsUsed /\ [SettingsNext]_settingsVars
        => PutsOK' /\ ShownIsUsed'
  <1> SUFFICES ASSUME SettingsTypeOK, PutsOK, ShownIsUsed, [SettingsNext]_settingsVars
               PROVE  PutsOK' /\ ShownIsUsed'
    OBVIOUS
  <1> USE DEF SettingsTypeOK, PutsOK, ShownIsUsed
  <1>1. ASSUME NEW u \in Puts, NEW l \in Llms, PutLlm(u, l) PROVE PutsOK' /\ ShownIsUsed'
    <2>1. llm' = l /\ yaml' = l /\ put' = [put EXCEPT ![u] = {l}]
      BY <1>1 DEF PutLlm
    <2>2. ~muddled' => \A v \in Puts : put[v] = {}
      BY <1>1 DEF PutLlm
    <2>3. put'[u] # {}
      BY <2>1
    <2> QED
      BY <2>1, <2>2, <2>3
  <1>2. ASSUME NEW u \in Puts, PutSucceeds(u) PROVE PutsOK' /\ ShownIsUsed'
    <2>1. /\ put[u] # {} /\ shown' \in put[u]
          /\ put' = [put EXCEPT ![u] = {}]
          /\ UNCHANGED <<yaml, llm, muddled>>
      BY <1>2 DEF PutSucceeds, observed
    <2>2. PutsOK'
      BY <2>1
    <2>3. ~muddled' => shown' = llm'
      BY <2>1
    <2> QED
      BY <2>1, <2>2, <2>3
  <1>3. ASSUME NEW u \in Puts, PutFails(u) PROVE PutsOK' /\ ShownIsUsed'
    BY <1>3 DEF PutFails
  <1>4. CASE Restart
    BY <1>4 DEF Restart
  <1>5. CASE UNCHANGED <<yaml, llm, shown, put, muddled>>
    BY <1>5
  <1> QED
    <2>1. CASE PutStep
      BY <1>1, <1>2, <1>3, <2>1 DEF PutStep
    <2>2. CASE TurnStep
      BY <1>5, <2>2 DEF TurnStep, Ask, Load, TurnEnds, model, observed
    <2>3. CASE StoreStep \/ ListStep
      BY <1>5, <2>3, ServersAlone DEF model
    <2>4. CASE UNCHANGED settingsVars
      BY <1>5, <2>4 DEF settingsVars, model, observed
    <2> QED
      BY <1>4, <2>1, <2>2, <2>3, <2>4, StepKinds

\* Whoever stores a document and asks these servers for a PATCH p, or nobody.
LEMMA StoreLists ==
    ASSUME SettingsTypeOK, ListsOK, NEW doc \in Documents, NEW on \in SUBSET Servers,
           Store(doc, on),
           \/ on = {} /\ patch' = patch /\ body' = body
           \/ \E p \in Patches :
                 /\ patch[p] = {}
                 /\ patch' = [patch EXCEPT ![p] = on]
                 /\ body' = [body EXCEPT ![p] = IF on = {} THEN NoSpecs ELSE doc]
    PROVE  ListsOK'
  <1> USE DEF SettingsTypeOK
  <1>1. /\ stored' = doc /\ listed' = listed
        /\ doubtful' = (doubtful \ on) \cup (on \cap Asking)
        /\ unasked' = (unasked \ on) \cup
                         {s \in Servers \ on : Version(doc, s) # Version(stored, s)}
    BY DEF Store
  <1>2. ASSUME NEW s, Certain(s)', s \notin on
        PROVE  Certain(s) /\ Version(stored', s) = Version(stored, s)
    BY <1>1, <1>2 DEF Certain
  <1>3. ASSUME NEW s, s \notin on, NEW q \in Patches
        PROVE  s \in patch'[q] => s \in patch[q] /\ body'[q] = body[q]
    BY <1>3
  <1>4. ASSUME NEW s, s \notin on, NEW q \in Patches
        PROVE  s \in patch[q] => s \in patch'[q]
    BY <1>4
  <1>5. ASSUME NEW s, Certain(s)', \A q \in Patches : s \notin patch'[q]
        PROVE  listed'[s] \in {NoVersion, Version(stored', s)}
    <2>1. s \notin on
      BY <1>5
    <2>2. \A q \in Patches : s \notin patch[q]
      BY <1>4, <1>5, <2>1
    <2>3. listed[s] \in {NoVersion, Version(stored, s)}
      BY <1>2, <1>5, <2>1, <2>2 DEF ListsOK
    <2> QED
      BY <1>1, <1>2, <1>5, <2>1, <2>3
  <1>6. ASSUME NEW q \in Patches, NEW s \in patch'[q], Certain(s)'
        PROVE  /\ \A r \in Patches : s \in patch'[r] => r = q
               /\ body'[q][s].command \in {NoVersion, Version(stored', s)}
    <2>1. CASE s \notin on
      <3>1. s \in patch[q] /\ body'[q] = body[q]
        BY <1>3, <2>1
      <3>2. /\ \A r \in Patches : s \in patch[r] => r = q
            /\ body[q][s].command \in {NoVersion, Version(stored, s)}
        BY <1>2, <1>6, <2>1, <3>1 DEF ListsOK
      <3> QED
        BY <1>2, <1>3, <1>6, <2>1, <3>1, <3>2
    <2>2. CASE s \in on
      <3>1. PICK p \in Patches : /\ patch[p] = {}
                                 /\ patch' = [patch EXCEPT ![p] = on]
                                 /\ body' = [body EXCEPT ![p] = doc]
        BY <2>2
      <3>2. \A r \in Patches : s \notin patch[r]
        BY <1>1, <1>6, <2>2 DEF Certain, Asking
      <3>3. q = p /\ \A r \in Patches : s \in patch'[r] => r = q
        BY <1>6, <3>1, <3>2
      <3>4. body'[q][s].command = doc[s].command
        BY <3>1, <3>3
      <3>5. s \in Servers
        BY <2>2
      <3> QED
        BY <1>1, <3>3, <3>4, <3>5, VersionType
    <2> QED
      BY <2>1, <2>2
  <1> QED
    BY <1>5, <1>6 DEF ListsOK

LEMMA NextLists == SettingsTypeOK /\ ListsOK /\ [SettingsNext]_settingsVars => ListsOK'
  <1> SUFFICES ASSUME SettingsTypeOK, ListsOK, [SettingsNext]_settingsVars PROVE ListsOK'
    OBVIOUS
  <1>0. stored \in Documents
    BY DEF SettingsTypeOK, Documents
  <1>1. CASE StoreStep
    <2>1. ASSUME NEW to \in Documents, PatchRejected(to) \/ PutProject(to) PROVE ListsOK'
      <3>1. Merged(stored, to) \in Documents
        BY <1>0, MergeType
      <3>2. PICK doc \in Documents : Store(doc, {})
        BY <2>1, <3>1 DEF PatchRejected, PutProject
      <3>3. patch' = patch /\ body' = body
        BY <2>1 DEF PatchRejected, PutProject
      <3> QED
        BY <3>2, <3>3, StoreLists
    <2>2. ASSUME NEW to \in Documents, NEW p \in Patches, PatchMcp(p, to) PROVE ListsOK'
      <3>1. /\ Store(to, EnabledIn(to))
            /\ patch[p] = {} /\ patch' = [patch EXCEPT ![p] = EnabledIn(to)]
            /\ body' = [body EXCEPT ![p] = IF EnabledIn(to) = {} THEN NoSpecs ELSE to]
        BY <2>2 DEF PatchMcp, ToAsk
      <3> QED
        BY <3>1, AskedServers, StoreLists
    <2>3. CASE RemoveProject
      <3>1. Store(NoSpecs, {}) /\ patch' = patch /\ body' = body
        BY <2>3 DEF RemoveProject
      <3>2. NoSpecs \in Documents /\ {} \in SUBSET Servers
        BY EmptyTypes
      <3> QED
        BY <3>1, <3>2, StoreLists
    <2> QED
      BY <1>1, <2>1, <2>2, <2>3 DEF StoreStep, Documents
  <1> USE DEF SettingsTypeOK, Certain
  <1>2. ASSUME NEW p \in Patches, NEW s \in Servers, Lists(p, s) PROVE ListsOK'
    <2>1. /\ s \in patch[p]
          /\ body[p][s].command # NoVersion
          /\ listed' = [listed EXCEPT ![s] = body[p][s].command]
          /\ patch' = [patch EXCEPT ![p] = patch[p] \ {s}]
          /\ \A q \in Patches : patch'[q] # {} => body'[q] = body[q]
          /\ UNCHANGED <<stored, doubtful, unasked>>
      BY <1>2 DEF Lists, Asked, observed
    <2>2. ASSUME NEW k, Certain(k), \A q \in Patches : k \notin patch'[q]
          PROVE  listed'[k] \in {NoVersion, Version(stored, k)}
      <3>1. CASE k = s
        <4>1. body[p][s].command \in {NoVersion, Version(stored, s)}
          BY <2>1, <2>2, <3>1 DEF ListsOK
        <4> QED
          BY <2>1, <3>1, <4>1
      <3>2. CASE k # s
        <4>1. \A q \in Patches : k \notin patch[q]
          BY <2>1, <2>2, <3>2
        <4>2. listed[k] \in {NoVersion, Version(stored, k)}
          BY <2>2, <4>1 DEF ListsOK
        <4> QED
          BY <2>1, <3>2, <4>2
      <3> QED
        BY <3>1, <3>2
    <2>3. ASSUME NEW q \in Patches, NEW k \in patch'[q], Certain(k)
          PROVE  /\ \A r \in Patches : k \in patch'[r] => r = q
                 /\ body'[q][k].command \in {NoVersion, Version(stored, k)}
      <3>1. \A r \in Patches : k \in patch'[r] => k \in patch[r]
        BY <2>1
      <3>2. body'[q] = body[q] /\ k \in patch[q]
        BY <2>1, <2>3, <3>1
      <3>3. /\ \A r \in Patches : k \in patch[r] => r = q
            /\ body[q][k].command \in {NoVersion, Version(stored, k)}
        BY <2>3, <3>2 DEF ListsOK
      <3> QED
        BY <3>1, <3>2, <3>3
    <2> QED
      BY <2>1, <2>2, <2>3 DEF ListsOK
  <1>3. ASSUME NEW p \in Patches, NEW s \in Servers, ListFails(p, s) PROVE ListsOK'
    <2>1. /\ s \in patch[p]
          /\ patch' = [patch EXCEPT ![p] = patch[p] \ {s}]
          /\ \A q \in Patches : patch'[q] # {} => body'[q] = body[q]
          /\ doubtful' = doubtful \cup {s}
          /\ UNCHANGED <<stored, listed, unasked>>
      BY <1>3 DEF ListFails, Asked
    <2> QED
      BY <2>1 DEF ListsOK
  <1>4. CASE Restart
    <2>1. /\ patch' = [p \in Patches |-> {}]
          /\ doubtful' = doubtful \cup Asking
          /\ UNCHANGED <<stored, listed, unasked>>
      BY <1>4 DEF Restart
    <2> QED
      BY <2>1 DEF Asking, ListsOK
  <1>5. CASE UNCHANGED <<registry, doubtful, unasked>>
    BY <1>5 DEF registry, ListsOK, Version, Resolved, Merged
  <1> QED
    <2>1. CASE PutStep
      BY <1>5, <2>1 DEF PutStep, PutSucceeds, PutFails, PutLlm, observed
    <2>2. CASE TurnStep
      BY <1>5, <2>2 DEF TurnStep, Ask, Load, TurnEnds, observed
    <2>3. CASE ListStep
      BY <1>2, <1>3, <2>3 DEF ListStep
    <2>4. CASE UNCHANGED settingsVars
      BY <1>5, <2>4 DEF settingsVars, observed
    <2> QED
      BY <1>1, <1>4, <2>1, <2>2, <2>3, <2>4, StepKinds

LEMMA SettingsInvariance == SettingsSpec => []SettingsInv
  <1>1. SettingsInv /\ [SettingsNext]_settingsVars => SettingsInv'
    BY SettingsNextType, NextCache, NextPuts, NextLists DEF SettingsInv
  <1> QED
    BY <1>1, InitInvariant, PTL DEF SettingsSpec
-----------------------------------------------------------------------------
(***************************************************************************)
(* Theorems.                                                               *)
(***************************************************************************)

\* Whatever PUTs and restarts happen while the settings are loaded, a turn is handed the
\* servers it asked for with the LLM of that moment (_load_agent_settings_cached()).
THEOREM TurnsAreCurrent == SettingsSpec => TurnsGetCurrent
  <1>1. SettingsTypeOK /\ CacheOK /\ [SettingsNext]_settingsVars =>
          [\A t \in Turns : turn[t] # "ready" /\ turn'[t] = "ready" =>
              got'[t] = [mcp |-> asked'[t].mcp, llm |-> llm]]_settingsVars
    <2> SUFFICES ASSUME SettingsTypeOK, CacheOK, SettingsNext, NEW t \in Turns,
                        turn[t] # "ready", turn'[t] = "ready"
                 PROVE  got'[t] = [mcp |-> asked'[t].mcp, llm |-> llm]
      BY Zenon
    <2> USE DEF SettingsTypeOK
    <2>1. ASSUME NEW k \in Turns, Ask(k) PROVE got'[t] = [mcp |-> asked'[t].mcp, llm |-> llm]
      <3> DEFINE key == [mcp |-> EnabledServers, llm |-> llm]
      <3>1. k = t
        BY <2>1 DEF Ask
      <3>2. asked'[t] = key
        BY <2>1, <3>1 DEF Ask
      <3>3. /\ cache # NoCache /\ cache.key = key
            /\ got'[t] = cache.value
        BY <2>1, <3>1 DEF Ask
      <3>4. cache.value = [mcp |-> key.mcp, llm |-> llm]
        BY <3>3 DEF CacheOK
      <3> QED
        BY <3>2, <3>3, <3>4
    <2>2. ASSUME NEW k \in Turns, Load(k) PROVE got'[t] = [mcp |-> asked'[t].mcp, llm |-> llm]
      <3>1. k = t
        BY <2>2 DEF Load
      <3> QED
        BY <2>2, <3>1 DEF Load
    <2>3. ASSUME NEW k \in Turns, TurnEnds(k) PROVE FALSE
      BY <2>3 DEF TurnEnds
    <2>4. CASE Restart
      BY <2>4 DEF Restart
    <2>5. CASE turn' = turn
      BY <2>5
    <2>6. CASE PutStep
      BY <2>5, <2>6 DEF PutStep, PutSucceeds, PutFails, PutLlm, settings
    <2>7. CASE StoreStep \/ ListStep
      BY <2>5, <2>7, ServersAlone DEF settings
    <2> QED
      BY <2>1, <2>2, <2>3, <2>4, <2>6, <2>7, StepKinds DEF TurnStep
  <1> QED
    BY <1>1, SettingsInvariance, PTL DEF SettingsSpec, TurnsGetCurrent, SettingsInv

\* The file and the engine always name the same LLM, and so does what the administrator is
\* shown, unless the last PUT failed or two have overlapped.
THEOREM ShownLlmIsUsed == SettingsSpec => []ShownIsUsed
  BY SettingsInvariance, PTL DEF SettingsInv

\* For any servers, versions, YAML file and rules: a tool that an enabled server has is
\* never decided as an unknown one, unless its server is being asked, could not be, was
\* asked twice at a time, or has had its version changed by a request that asks nobody
\* (PUT and DELETE of the project, a PATCH answered 400, the YAML file).
THEOREM KnownToolsAreDecided == SettingsSpec => []KnownToolsDecided
  <1>1. SettingsInv => KnownToolsDecided
    <2> SUFFICES ASSUME SettingsInv, NEW s \in Servers \ (doubtful \cup unasked \cup Asking),
                        EnabledServers[s] # NoVersion, NEW t \in ToolsOf[EnabledServers[s]]
                 PROVE  Evaluate(s, t) = Decide(s, t, TRUE)
      BY DEF KnownToolsDecided
    <2>1. \A p \in Patches : s \notin patch[p]
      BY DEF Asking
    <2>2. stored \in Documents
      BY DEF SettingsInv, SettingsTypeOK, Documents
    <2>3. EnabledServers[s] = Version(stored, s)
      BY <2>2, EnabledType
    <2>4. listed[s] \in {NoVersion, Version(stored, s)}
      BY <2>1 DEF SettingsInv, ListsOK, Certain
    <2>5. Cached(s) = {} \/ t \in Cached(s)
      BY <2>3, <2>4 DEF Cached
    <2>6. IsKnown(s, t) = TRUE
      BY <2>5 DEF IsKnown
    <2> QED
      BY <2>6 DEF Evaluate
  <1> QED
    BY <1>1, SettingsInvariance, PTL
=============================================================================
